------------------------------- MODULE MCHpack -------------------------------
(* Small tables: three names of which two hash alike and one collides once the *)
(* array is taken modulo its length, an array that grows after three slots.  *)
EXTENDS Hpack

H(n, v, l) == [name |-> n, value |-> v, len |-> l, sensitive |-> FALSE]
Secret(h) == [h EXCEPT !.sensitive = TRUE]
Repeat(v) == [name |-> "", value |-> v, len |-> 2, sensitive |-> FALSE]

MCStatic == <<[name |-> "path", value |-> "/"], [name |-> "method", value |-> "GET"],
              [name |-> "method", value |-> "POST"], [name |-> "accept", value |-> ""]>>
MCSkip == {"path"}
MCHash == [path |-> 0, method |-> 1, accept |-> 4, a |-> 3, b |-> 3, c |-> 7]

Dynamic == {H("a", "1", 2), H("a", "2", 3), H("b", "1", 2), H("c", "1", 2)}
Fixed == {H("path", "/x", 2), H("method", "GET", 2), H("method", "PUT", 2)}

\* For the table: single headers.
TableHeaders == Dynamic
TableBlocks == {<<h>> : h \in Dynamic}

\* For the blocks: named, repeated, sensitive and static headers together.
BlockHeaders == Fixed \cup {H("a", "1", 2), H("a", "2", 3), H("b", "1", 2), H("path", "/", 2),
                           Secret(H("a", "1", 2)), Secret(H("b", "1", 2)),
                           H("a", "3", 2), H("path", "/y", 2), H("b", "3", 2)}
BlockBlocks ==
    {<<h>> : h \in {H("method", "PUT", 2), H("a", "1", 2), Secret(H("a", "1", 2))}}
    \cup {<<H("a", "2", 3), Repeat("3")>>, <<H("path", "/x", 2), Repeat("/y"), H("method", "GET", 2)>>,
          <<Secret(H("b", "1", 2)), Repeat("3"), H("a", "2", 3)>>}

MCHeaders == TableHeaders \cup BlockHeaders

\* Colliding names inserted, evicted and resized away; and blocks in pieces.
Single == [blocks |-> TableBlocks, sizes |-> {4, 8}, first |-> 8, wire |-> 1]
Pieces == [blocks |-> BlockBlocks, sizes |-> {0, 4}, first |-> 6, wire |-> 2]
All == {Single, Pieces}

\* table.rs: the array of places and the slots agree.
TableInStep == TypeOK /\ PlacesMeanSlots /\ SlotsAreFound /\ SizeIsSum

\* The decoder follows the encoder.
BothInStep == SameHeaders /\ SameTables /\ LowestIsSignalled /\ SensitiveStaysOut
=============================================================================
