-------------------------------- MODULE Hpack --------------------------------
(* Header compression end to end: the encoder (h2/hpack/encoder.rs, with the *)
(* table of HpackTable), the header blocks on the wire, in order, and the    *)
(* decoder (h2/hpack/decoder.rs).  The peer sets the size of the table; its  *)
(* acknowledgement travels with the blocks and tells the decoder.  A block   *)
(* may reach the decoder in pieces, as CONTINUATION frames.                  *)
EXTENDS HpackTable

CONSTANTS
    Headers,        \* what can be sent: [name, value, len, sensitive]
    Scopes          \* what is sent in a behaviour: one of these is chosen at first

\* A scope has blocks, lists of headers, where a header named "" repeats the last name;
\* the sizes the peer may set; the size both start with, 4096; and how many blocks and
\* acknowledgements may be under way.
ASSUME HpackAssumption ==
    \A s \in Scopes : s.sizes \subseteq Nat /\ s.first \in Nat /\ s.wire \in Nat

VARIABLES
    table,          \* Encoder.table
    update,         \* Encoder.size_update: no, one or two sizes
    wire,           \* blocks and acknowledgements under way
    dec,            \* Decoder: its table, last_max_update, max_size_update
    limit, lowest,  \* the size last set, the lowest set since the last block
    got, sent,      \* of the last block decoded: what came out, what went in
    scope           \* the scope of this behaviour

vars == <<table, update, wire, dec, limit, lowest, got, sent, scope>>

Blocks == scope.blocks
Sizes == scope.sizes
FirstSize == scope.first
MaxWire == scope.wire

Init ==
    /\ scope \in Scopes
    /\ table = NewTable(FirstSize) /\ update = <<>> /\ wire = <<>>
    /\ dec = [entries |-> <<>>, size |-> 0, max |-> FirstSize, last |-> FirstSize,
              queued |-> NoIdx, error |-> FALSE]
    /\ limit = FirstSize /\ lowest = FirstSize /\ got = <<>> /\ sent = <<>>

-----------------------------------------------------------------------------
(* The encoder.                                                              *)

UpdateMaxSize(val) ==
    CASE Len(update) = 1 /\ val > update[1] ->
            IF update[1] > table.max THEN <<val>> ELSE <<update[1], val>>
      [] Len(update) = 1 /\ val <= update[1] -> <<val>>
      [] Len(update) = 2 -> IF val < update[1] THEN <<val>> ELSE <<update[1], val>>
      [] update = <<>> -> IF val # table.max THEN <<val>> ELSE <<>>

Rep(type, n, h) == [type |-> type, n |-> n, name |-> h.name, value |-> h.value]
NotIndexed(n, h) == Rep(IF h.sensitive THEN "never" ELSE "without", n, h)

\* encode_header.
EncodeHeader(index, h) ==
    CASE index.kind = "indexed" -> Rep("indexed", index.n, h)
      [] index.kind = "inserted" -> Rep("with", 0, h)
      [] index.kind = "insertedValue" -> Rep("with", index.n, h)
      [] index.kind = "name" -> NotIndexed(index.n, h)
      [] index.kind = "notIndexed" -> NotIndexed(0, h)

\* A mutant: the index the name had before the insertion.
Stale(index) == index.n

\* resolve_idx: what was inserted is the newest entry now.
ResolveIdx(index) ==
    IF index.kind \in {"inserted", "insertedValue"} THEN DynOffset ELSE index.n

\* One header of a block; st is the encoder within a block.
EncodeOne(st, h) ==
    IF h.name # ""
    THEN LET index == IndexHeader(st.table, h)
         IN  [table |-> index.table, last |-> [kind |-> index.kind, n |-> index.n, name |-> h.name],
              reps |-> Append(st.reps, EncodeHeader(index, h)),
              plain |-> Append(st.plain, [name |-> h.name, value |-> h.value])]
    ELSE LET named == [h EXCEPT !.name = st.last.name]
         IN  [st EXCEPT
                !.reps = Append(@, NotIndexed(
                    IF st.last.kind = "notIndexed" THEN 0 ELSE ResolveIdx(st.last), named)),
                !.plain = Append(@, [name |-> named.name, value |-> h.value])]

NoLast == [kind |-> "none", n |-> 0, name |-> ""]

\* encode_size_updates, then the headers.
EncodeBlock(headers) ==
    FoldLeft(EncodeOne,
             [table |-> FoldLeft(Resize, table, update), last |-> NoLast, plain |-> <<>>,
              reps |-> [i \in DOMAIN update |->
                         Rep("size", update[i], [name |-> "", value |-> ""])]],
             headers)

Encode(headers) ==
    /\ Len(wire) < MaxWire
    /\ LET st == EncodeBlock(headers)
       IN  /\ table' = st.table
           /\ wire' = Append(wire, [kind |-> "block", reps |-> st.reps, plain |-> st.plain])
    /\ update' = <<>>
    /\ lowest' = limit
    /\ UNCHANGED <<dec, limit, got, sent, scope>>

\* The peer's SETTINGS arrive: set_send_header_table_size, and the ACK.
PeerSets(val) ==
    /\ Len(wire) < MaxWire
    /\ update' = UpdateMaxSize(val)
    /\ limit' = val
    /\ lowest' = IF val < lowest THEN val ELSE lowest
    /\ wire' = Append(wire, [kind |-> "ack", val |-> val])
    /\ UNCHANGED <<table, dec, got, sent, scope>>

-----------------------------------------------------------------------------
(* The decoder.                                                              *)

\* Pop from the back until what is left and len fit.
RECURSIVE Reserve(_, _)
Reserve(d, len) ==
    IF d.size + len > d.max /\ d.entries # <<>>
    THEN Reserve([d EXCEPT !.size = @ - Last(d.entries).len, !.entries = Front(@)], len)
    ELSE d

SetMaxSize(d, max) == Reserve([d EXCEPT !.max = max], 0)

\* Table::insert.
DecInsert(d, h) ==
    LET room == Reserve(d, h.len)
    IN  IF room.size + h.len <= room.max
        THEN [room EXCEPT !.size = @ + h.len, !.entries = <<h>> \o @]
        ELSE room

Known(d, n) == n \in 1..(Len(Static) + Len(d.entries))
EntryAt(d, n) == IF n <= Len(Static) THEN Static[n] ELSE d.entries[n - Len(Static)]
LenOf(name, value) == (CHOOSE h \in Headers : h.name = name /\ h.value = value).len

\* queue_size_update.
QueueSizeUpdate(d, size) == [d EXCEPT !.queued = IF @ > size THEN @ ELSE size]

Fail(st) == [st EXCEPT !.d.error = TRUE]
Emit(st, d, name, value) ==
    [d |-> d, canResize |-> FALSE, out |-> Append(st.out, [name |-> name, value |-> value])]

\* One representation; st is the decoder within a call of decode.
DecodeOne(st, rep) ==
    LET d == st.d
        name == IF rep.n = 0 THEN rep.name ELSE EntryAt(d, rep.n).name
    IN  CASE d.error -> st
          [] ~d.error /\ rep.type = "size" ->
                IF st.canResize /\ rep.n <= d.last
                THEN [st EXCEPT !.d = SetMaxSize(d, rep.n)] ELSE Fail(st)
          [] ~d.error /\ rep.type # "size" /\ ~Known(d, rep.n)
                /\ (rep.n # 0 \/ rep.type = "indexed") -> Fail(st)
          [] ~d.error /\ rep.type = "indexed" /\ Known(d, rep.n) ->
                Emit(st, d, name, EntryAt(d, rep.n).value)
          [] ~d.error /\ rep.type = "with" /\ (rep.n = 0 \/ Known(d, rep.n)) ->
                Emit(st, DecInsert(d, [name |-> name, value |-> rep.value,
                                       len |-> LenOf(name, rep.value)]), name, rep.value)
          [] ~d.error /\ rep.type \in {"without", "never"} /\ (rep.n = 0 \/ Known(d, rep.n)) ->
                Emit(st, d, name, rep.value)

\* decode, called with what has arrived: k representations of the block.
Decode(k) ==
    /\ wire # <<>> /\ wire[1].kind = "block" /\ ~dec.error
    /\ LET block == wire[1]
           fresh == IF dec.queued = NoIdx THEN dec ELSE [dec EXCEPT !.last = dec.queued, !.queued = NoIdx]
           st == FoldLeft(DecodeOne, [d |-> fresh, canResize |-> TRUE, out |-> <<>>],
                          SubSeq(block.reps, 1, k))
           whole == k = Len(block.reps)
       IN  /\ k \in 1..Len(block.reps)
           /\ dec' = st.d
           /\ got' = st.out
           /\ sent' = SubSeq(block.plain, 1, Len(st.out))
           /\ wire' = IF whole THEN Tail(wire)
                      ELSE [wire EXCEPT ![1].reps = SubSeq(@, k + 1, Len(@)),
                                        ![1].plain = SubSeq(@, Len(st.out) + 1, Len(@))]
    /\ UNCHANGED <<table, update, limit, lowest, scope>>

\* The acknowledgement of a size arrives.
DecodeAck ==
    /\ wire # <<>> /\ wire[1].kind = "ack"
    /\ dec' = QueueSizeUpdate(dec, wire[1].val)
    /\ wire' = Tail(wire)
    /\ UNCHANGED <<table, update, limit, lowest, got, sent, scope>>

Next ==
    \/ \E b \in Blocks : Encode(b)
    \/ \E v \in Sizes : PeerSets(v)
    \/ \E k \in 1..4 : Decode(k)
    \/ DecodeAck

Spec == Init /\ [][Next]_vars

-----------------------------------------------------------------------------
(* Properties.                                                               *)

\* Table and decoder keep their shape.
TypeOK ==
    /\ table.size \in Nat /\ table.max \in Nat /\ table.inserted \in 0..(WordSize - 1)
    /\ Raw(table) = 0 \/ \E n \in 0..8 : Raw(table) = FirstRaw * 2^n
    /\ \A i \in DOMAIN table.indices : table.indices[i] = None \/ table.indices[i].index \in 0..(WordSize - 1)
    /\ \A i \in DOMAIN table.slots : table.slots[i].header \in Headers
    /\ Len(update) \in 0..2 /\ \A i \in DOMAIN update : update[i] \in Sizes
    /\ dec.error \in BOOLEAN /\ Len(wire) <= MaxWire

Places == {i \in DOMAIN table.indices : table.indices[i] # None}
Reals == [i \in Places |-> RealIdx(table, table.indices[i].index)]

\* What the commented-out assert_valid_state of table.rs asks, whatever was
\* inserted, evicted, grown or resized before: every place means a slot of the
\* table with the hash of its place, no two the same one; ...
PlacesMeanSlots ==
    /\ \A i \in Places : /\ Reals[i] < Len(table.slots)
                         /\ table.slots[Reals[i] + 1].hash = table.indices[i].hash
    /\ \A i, j \in Places : Reals[i] = Reals[j] => i = j
    /\ Cardinality(Places) < Raw(table) \/ Places = {}

\* ... a slot that has a place is found from its home without a gap and
\* without an entry nearer its own home, and is the oldest of its name; every
\* other slot has exactly one link to it, from the next older of its name.  So
\* a lookup finds every header of the table.
SlotsAreFound ==
    \A s \in DOMAIN table.slots :
        LET older == {r \in DOMAIN table.slots :
                        r > s /\ table.slots[r].header.name = table.slots[s].header.name}
            links == {r \in DOMAIN table.slots :
                        table.slots[r].next # NoIdx /\ RealIdx(table, table.slots[r].next) = s - 1}
        IN  IF older = {}
            THEN /\ links = {}
                 /\ \E i \in Places :
                    /\ Reals[i] = s - 1
                    /\ LET hash == table.slots[s].hash
                           home == DesiredPos(table, hash)
                       IN  \A d \in 0..(ProbeDistance(table, hash, i - 1) - 1) :
                               /\ At(table, home + d) # None
                               /\ ProbeDistance(table, At(table, home + d).hash, home + d) >= d
            ELSE links = {Least(older)}

\* The size kept is the size of what is in the table, and fits.
SizeIsSum ==
    /\ table.size = FoldLeft(LAMBDA n, s : n + s.header.len, 0, table.slots)
    /\ dec.size = FoldLeft(LAMBDA n, e : n + e.len, 0, dec.entries)
    /\ table.size <= table.max /\ dec.size <= dec.max

\* The decoder never fails on what the encoder wrote, and hands out the
\* headers it was given, by value, under every eviction and size change.
SameHeaders == ~dec.error /\ got = sent

Plain(seq) == [i \in DOMAIN seq |-> [name |-> seq[i].name, value |-> seq[i].value]]

\* When every block is decoded the two tables hold the same headers in the
\* same order: an index means the same to both.
SameTables ==
    wire = <<>> => /\ Plain(dec.entries) = Plain([i \in DOMAIN table.slots |-> table.slots[i].header])
                   /\ dec.max = table.max

\* The updates the next block starts with bring the table to the lowest size
\* that was set since the last block, if that is lower than the table's, and
\* leave it at the last one: both evict the same entries.
LowestIsSignalled ==
    /\ (IF update = <<>> THEN table.max ELSE Last(update)) = limit
    /\ Least({table.max, lowest}) = Least({table.max} \cup Range(update))

\* What a message marks sensitive never enters the table: the assertions of
\* encode_header.
SensitiveStaysOut ==
    \A i \in DOMAIN table.slots : ~table.slots[i].header.sensitive
=============================================================================
