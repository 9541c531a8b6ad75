------------------------------ MODULE H2Codec ------------------------------
(***************************************************************************)
(* h2::codec between two ends: FramedWrite of one, the transport, and      *)
(* FramedRead of the other.                                                *)
(*                                                                         *)
(* The writer encodes frames into a buffer that one write after another    *)
(* carries away; a large DATA frame and what does not fit the HEADERS      *)
(* frame of a header block wait beside it.  The reader puts the fragments  *)
(* of a block together and feeds what it has of it to the HPACK decoder.   *)
(*                                                                         *)
(* A header block is a sequence of kinds of headers: each takes two units  *)
(* of a frame, so a fragment may end inside one, and two of the size that  *)
(* SETTINGS_MAX_HEADER_LIST_SIZE limits.                                   *)
(***************************************************************************)
EXTENDS Naturals, Sequences, SequencesExt

CONSTANTS
  Blocks,         \* header blocks, sequences of "pseudo", "field" and "bad"
  Sizes,          \* sizes of DATA payloads
  Default, Larger,   \* the size of a frame, before and after the reader's SETTINGS
  Chained,        \* CHAIN_THRESHOLD
  ListSizes,      \* values of max_header_list_size
  MaxFrames       \* bound on the number of frames that are buffered

VARIABLES
  sent,                     \* every frame given to buffer
  buf, next, write,         \* Encoder::buf and next, what write_fut writes
  max_frame_size, remote,   \* Encoder::max_frame_size; SETTINGS not acknowledged
  pc,                       \* the writer is "idle", inside "flush", or has "failed"
  wire,                     \* frames in the transport
  partial, max_recv,        \* FramedRead::partial, the limit of its frames and
  max_header_list_size,     \*   of the headers in a block
  decoded,                  \* the units that the HPACK decoder took
  received, dead            \* what next() returned, and why it is not called again

writer == <<sent, buf, next, write, max_frame_size, remote, pc>>
reader == <<partial, max_recv, max_header_list_size, decoded, received, dead>>
vars   == <<writer, wire, reader>>

Width == 2
Units(id) == [j \in 1..(Width * Len(sent[id].block)) |-> <<id, j>>]
Kind(unit) == sent[unit[1]].block[(unit[2] + 1) \div Width]

Nothing == [type |-> "none"]

Init ==
  /\ sent = <<>> /\ buf = <<>> /\ next = Nothing /\ write = <<>>
  /\ max_frame_size = Default /\ remote = "unsent" /\ pc = "idle"
  /\ wire = <<>>
  /\ partial = Nothing /\ max_recv = Default /\ max_header_list_size \in ListSizes
  /\ decoded = <<>> /\ received = <<>> /\ dead = "no"

-----------------------------------------------------------------------------
(* FramedWrite                                                             *)

HasCapacity == next.type = "none"

IsEmpty == IF next.type = "data" THEN next.written ELSE buf = <<>>

NewFrame(type, id, units, size, end) ==
  [type |-> type, id |-> id, units |-> units, size |-> size, end |-> end]

\* The identifier of the promised stream is in front of the block.
Overhead(type) == IF type = "push" THEN 1 ELSE 0

Room(type) == max_frame_size - Overhead(type)

\* EncodingHeaderBlock::encode: a frame and, when the block does not fit it,
\* the continuation.
Encode(type, id, units) ==
  LET room == Room(type)
      fits == Len(units) <= room
      part == IF fits THEN units ELSE SubSeq(units, 1, room)
      rest == SubSeq(units, room + 1, Len(units))
  IN  /\ buf' = Append(buf, NewFrame(type, id, part, Len(part) + Overhead(type), fits))
      /\ next' = IF fits THEN Nothing ELSE [type |-> "continuation", id |-> id, units |-> rest]

Accepts == pc = "idle" /\ HasCapacity /\ Len(sent) < MaxFrames

\* HEADERS or PUSH_PROMISE of any block.
BufferBlock(type, block) ==
  LET id == Len(sent) + 1 IN
  /\ Accepts
  /\ sent' = Append(sent, [type |-> type, block |-> block])
  /\ Encode(type, id, [j \in 1..(Width * Len(block)) |-> <<id, j>>])
  /\ UNCHANGED <<write, max_frame_size, remote, pc, wire, reader>>

\* DATA; the caller keeps to max_send_frame_size.  A large one is not copied.
BufferData(size) ==
  LET frame == NewFrame("data", Len(sent) + 1, <<>>, size, TRUE) IN
  /\ Accepts /\ size <= max_frame_size
  /\ sent' = Append(sent, [type |-> "data", block |-> <<>>])
  /\ IF size >= Chained
     THEN next' = [type |-> "data", frame |-> frame, written |-> FALSE] /\ UNCHANGED buf
     ELSE buf' = Append(buf, frame) /\ UNCHANGED next
  /\ UNCHANGED <<write, max_frame_size, remote, pc, wire, reader>>

\* SETTINGS of the other end arrive with a larger frame size; Settings::poll_send
\* acknowledges them and uses it at once.
RecvSettings ==
  /\ remote = "unsent" /\ remote' = "received"
  /\ UNCHANGED <<sent, buf, next, write, max_frame_size, pc, wire, reader>>

AckWhenReady == HasCapacity

AckSettings ==
  /\ pc = "idle" /\ remote = "received" /\ AckWhenReady
  /\ sent' = Append(sent, [type |-> "ack", block |-> <<>>])
  /\ buf' = Append(buf, NewFrame("ack", Len(sent) + 1, <<>>, 0, TRUE))
  /\ remote' = "acknowledged" /\ max_frame_size' = Larger
  /\ UNCHANGED <<next, write, pc, wire, reader>>

\* The connection polls flush.
StartFlush ==
  /\ pc = "idle" /\ pc' = "flush"
  /\ UNCHANGED <<sent, buf, next, write, max_frame_size, remote, wire, reader>>

\* The pending write has ended: the frames are with the transport.
Written ==
  /\ pc = "flush" /\ write # <<>>
  /\ wire' = wire \o write /\ write' = <<>>
  /\ UNCHANGED <<sent, buf, next, max_frame_size, remote, pc, reader>>

\* It is pending: flush returns, and frames may be buffered behind it.
WritePending ==
  /\ pc = "flush" /\ write # <<>>
  /\ pc' = "idle"
  /\ UNCHANGED <<sent, buf, next, write, max_frame_size, remote, wire, reader>>

\* It fails after some of the frames: the connection ends.
WriteFails ==
  /\ pc = "flush" /\ write # <<>>
  /\ \E k \in 0..(Len(write) - 1) : wire' = wire \o SubSeq(write, 1, k)
  /\ pc' = "failed"
  /\ UNCHANGED <<sent, buf, next, write, max_frame_size, remote, reader>>

\* The next write takes the whole buffer, and the payload behind it.
Write ==
  /\ pc = "flush" /\ write = <<>> /\ ~IsEmpty
  /\ buf' = <<>>
  /\ IF next.type = "data"
     THEN write' = Append(buf, next.frame) /\ next' = [next EXCEPT !.written = TRUE]
     ELSE write' = buf /\ UNCHANGED next
  /\ UNCHANGED <<sent, max_frame_size, remote, pc, wire, reader>>

\* unset_frame: everything is written; the rest of a header block follows at
\* once, after a DATA frame the transport is flushed and flush returns.
Unset ==
  /\ pc = "flush" /\ write = <<>> /\ IsEmpty
  /\ IF next.type = "continuation"
     THEN Encode("continuation", next.id, next.units) /\ UNCHANGED pc
     ELSE next' = Nothing /\ pc' = "idle" /\ UNCHANGED buf
  /\ UNCHANGED <<sent, write, max_frame_size, remote, wire, reader>>

-----------------------------------------------------------------------------
(* FramedRead                                                              *)

\* HeaderBlock: what was stored of a block.
NewBlock == [pseudo |-> FALSE, fields |-> 0, over |-> FALSE]

ListSize(h) == Width * (h.fields + IF h.pseudo THEN 1 ELSE 0)

\* The closure of HeaderBlock::load, for one header.
Store(kind, l) ==
  LET size == l.size + Width IN
  CASE kind = "bad" \/ (kind = "pseudo" /\ (l.reg \/ l.h.pseudo)) -> [l EXCEPT !.malformed = TRUE]
    [] kind = "pseudo" /\ ~l.reg /\ ~l.h.pseudo ->
         [l EXCEPT !.size = size,
                   !.h = IF size < max_header_list_size THEN [l.h EXCEPT !.pseudo = TRUE]
                         ELSE [l.h EXCEPT !.over = TRUE]]
    [] kind = "field" ->
         [l EXCEPT !.size = size, !.reg = TRUE,
                   !.h = IF size < max_header_list_size THEN [l.h EXCEPT !.fields = @ + 1]
                         ELSE [l.h EXCEPT !.over = TRUE]]

\* Only what precedes a bad header, and that header, is decoded.
WholeUntilBad(units) ==
  LET whole == Len(units) \div Width
      bad   == {j \in 1..whole : Kind(units[Width * j]) = "bad"}
  IN  SubSeq(units, 1, Width * Min(bad \cup {whole}))

\* Every whole header is decoded, whatever is found in those before it.
Whole(units) == SubSeq(units, 1, Width * (Len(units) \div Width))

\* What is left of the header that the fragment ends in.
Cut(units) == SubSeq(units, Width * (Len(units) \div Width) + 1, Len(units))

Load(h, units) ==
  LET kinds == [j \in 1..(Len(Whole(units)) \div Width) |-> Kind(units[Width * j])]
      start == [h |-> h, size |-> ListSize(h), reg |-> h.fields > 0, malformed |-> FALSE]
  IN  FoldLeft(LAMBDA l, kind : Store(kind, l), start, kinds)

Return(r) == received' = Append(received, r)

Dies(why) == dead' = why /\ UNCHANGED <<decoded, received, partial>>

\* load_hpack and what header_block! and the CONTINUATION arm make of its result.
\* A block that ends inside a header hides that it is malformed.
LoadHpack(id, h, units, end) ==
  LET l    == Load(h, units)
      rest == Cut(units)
  IN  /\ decoded' = decoded \o Whole(units)
      /\ IF rest # <<>> /\ end
         THEN dead' = "hpack" /\ partial' = Nothing /\ UNCHANGED received
         ELSE IF rest = <<>> /\ l.malformed
         THEN Return([id |-> id, reset |-> TRUE]) /\ partial' = Nothing /\ UNCHANGED dead
         ELSE IF end
         THEN Return([id |-> id, reset |-> FALSE, h |-> l.h]) /\ partial' = Nothing /\ UNCHANGED dead
         ELSE /\ partial' = [type |-> "partial", id |-> id, h |-> l.h, units |-> rest]
              /\ UNCHANGED <<received, dead>>

\* The heads of frames are not counted.
IgnoresTooMuch(f) ==
  partial.units # <<>> /\ partial.h.over /\ Len(partial.units) + Len(f.units) > max_header_list_size

\* decode_frame.
Decode(f) ==
  \/ f.size > max_recv /\ Dies("frame size")
  \/ f.size <= max_recv /\
     \/ partial.type # "none" /\ f.type # "continuation" /\ Dies("expected CONTINUATION")
     \/ partial.type = "none" /\ f.type = "continuation" /\ Dies("unexpected CONTINUATION")
     \/ /\ partial.type = "none" /\ f.type \in {"headers", "push"}
        /\ LoadHpack(f.id, NewBlock, f.units, f.end)
     \/ /\ partial.type # "none" /\ f.type = "continuation"
        /\ IF partial.id # f.id THEN Dies("other stream")
           ELSE IF IgnoresTooMuch(f) THEN Dies("ignores too much")
           ELSE LoadHpack(f.id, partial.h, partial.units \o f.units, f.end)
     \/ /\ partial.type = "none" /\ f.type \in {"data", "ack"}
        /\ Return([id |-> f.id, reset |-> FALSE])
        /\ UNCHANGED <<decoded, partial, dead>>

\* An ACK puts the announced size in force.
Read ==
  /\ wire # <<>> /\ dead = "no"
  /\ wire' = Tail(wire)
  /\ Decode(Head(wire))
  /\ max_recv' = IF Head(wire).type = "ack" /\ dead' = "no" THEN Larger ELSE max_recv
  /\ UNCHANGED <<writer, max_header_list_size>>

Next ==
  \/ \E type \in {"headers", "push"}, block \in Blocks : BufferBlock(type, block)
  \/ \E size \in Sizes : BufferData(size)
  \/ RecvSettings \/ AckSettings
  \/ StartFlush \/ Write \/ Written \/ WritePending \/ WriteFails \/ Unset
  \/ Read

Spec == Init /\ [][Next]_vars

-----------------------------------------------------------------------------
Alive == dead = "no" /\ pc # "failed"

\* The units of the frames fs.
Carried(fs) == FoldLeft(LAMBDA us, f : us \o f.units, <<>>, fs)
Encoded == FoldLeft(LAMBDA us, id : us \o Units(id), <<>>, [id \in DOMAIN sent |-> id])

\* The decoder has taken what the encoder produced, in its order: the rest of it is
\* on its way.  However blocks are cut and whatever is wrong with them, the tables of
\* both ends stay the same as long as the connection lives.
HpackFollows ==
  /\ IsPrefix(decoded, Encoded)
  /\ Alive => Encoded = decoded \o (IF partial.type = "none" THEN <<>> ELSE partial.units)
                          \o Carried(wire) \o Carried(write) \o Carried(buf)
                          \o IF next.type = "continuation" THEN next.units ELSE <<>>

\* Frames arrive in the order in which they were buffered, each once.
Arriving == \A i \in DOMAIN received : received[i].id = i

\* What is wrong with a block by itself.
Malformed(block) ==
  \E j \in DOMAIN block : \/ block[j] = "bad"
                          \/ block[j] = "pseudo" /\ j > 1
TooLarge(block) == Width * Len(block) >= max_header_list_size

\* The reader ends the connection for a block that is wrong and for nothing else: no
\* frame is larger than it has allowed, or comes between the frames of a block.
NotBlamed ==
  dead # "no" => \E i \in DOMAIN sent : Malformed(sent[i].block) \/ TooLarge(sent[i].block)

\* A good block is returned with all its headers, one that is too large is marked.
Returned ==
  \A i \in DOMAIN received :
    LET block == sent[i].block  r == received[i] IN
    block # <<>> /\ ~Malformed(block) =>
      ~r.reset /\ (r.h.over <=> TooLarge(block)) /\ (~r.h.over => ListSize(r.h) = Width * Len(block))

\* framed_read.rs and headers.rs: "A malformed header frame is a stream level error":
\* the stream is reset, and the connection goes on.
MalformedIsReset ==
  \A i \in DOMAIN received : Malformed(sent[i].block) => received[i].reset
MalformedIsStreamLevel ==
  dead # "no" => \E i \in DOMAIN sent : TooLarge(sent[i].block)
=============================================================================
