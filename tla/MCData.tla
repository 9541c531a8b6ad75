------------------------------- MODULE MCData -------------------------------
(***************************************************************************)
(* Model checking of the data structures that the rest of the project      *)
(* takes for granted, side by side: each behaviour is one of them.         *)
(***************************************************************************)
EXTENDS H2Store, Huffman

CONSTANTS CR, LF, x, y

VARIABLES
  part,                                   \* which one
  rest, buf, sent, decoded, error,        \* HpackWire (Huffman has its own)
  header, index, entry,                   \* HpackStatic
  src, len, out, status, arrived,         \* H1Chunked
  buffered, encoded, next, write, max_frame_size, remote, pc, transport,   \* H2Codec
  partial, max_recv, max_header_list_size, taken, received, dead

store   == vars
wire    == <<rest, buf, sent, decoded, error>>
static  == <<header, index, entry>>
chunks  == <<src, len, out, status, arrived>>
codec   == <<buffered, encoded, next, write, max_frame_size, remote, pc, transport,
             partial, max_recv, max_header_list_size, taken, received, dead>>

-----------------------------------------------------------------------------
\* HPACK: values at the edges of the prefixes of 4, 5, 6 and 7 bits, of one and two
\* bytes behind them, and of the largest integer that is read.
Rep(type, n, name, value) == [type |-> type, n |-> n, name |-> name, value |-> value]
Edges(w) == {2^w - 2, 2^w - 1, 2^w, 2^w + 126, 2^w + 127}

Reps ==
  {Rep("indexed", n, 0, 0) : n \in {1} \cup Edges(7)}
  \cup {Rep("size", n, 0, 0) : n \in {0, 4096, 2^28 + 30, 2^28 + 31, 1912930560} \cup Edges(5)}
  \cup {Rep(t, n, 0, v) : t \in {"without", "never"}, n \in {1, 14, 15, 16, 142, 143}, v \in {0, 1}}
  \cup {Rep("with", n, 0, v) : n \in {1, 62, 63, 64, 190, 191}, v \in {0, 2}}
  \cup {Rep(t, 0, n, v) : t \in {"with", "without", "never"}, n \in {1, 2}, v \in {0, 126, 127, 128}}
  \cup {Rep("with", 0, 127, 1)}

Wire == INSTANCE HpackWire WITH MaxReps <- 2, MaxArrive <- 4
AllBytes == 0..255
Table == INSTANCE HpackStatic WITH OtherNames <- {"x-other", ":protocol"}, OtherValues <- {"other"}

\* Chunked bodies: any seven bytes of an alphabet, and the bodies an encoder writes.
Chunk == INSTANCE H1Chunked WITH
           Digit <- {0, 1, 2, 15}, Other <- {x, y}, UsizeMax <- 255, MaxLen <- 50,
           sent <- arrived

Letters == {0, 1, 15, x, CR, LF}

\* The frames of HTTP/2: header blocks of up to four headers, some of them malformed,
\* and DATA below and above the threshold; frames of two units, then of three.
HeaderBlock == {<<"pseudo">>, <<"pseudo", "field">>, <<"pseudo", "pseudo">>,
                <<"pseudo", "bad", "field">>, <<"pseudo", "field", "field", "field">>}
Codec == INSTANCE H2Codec WITH
           Blocks <- HeaderBlock, Sizes <- 1..3, Default <- 2, Larger <- 3, Chained <- 2,
           ListSizes <- {3, 7}, MaxFrames <- 2,
           sent <- buffered, buf <- encoded, wire <- transport, decoded <- taken

-----------------------------------------------------------------------------
Part == {"queues", "both", "frames", "wire", "encode", "decode", "static", "bytes", "bodies", "codec"}

InitAll ==
  /\ part \in Part
  /\ Init /\ Wire!Init /\ Begin /\ Table!Init /\ Chunk!Init /\ Codec!Init
  /\ part # "codec" => max_header_list_size = 7

InStore  == UNCHANGED <<part, wire, string, static, chunks, codec>>
InWire   == UNCHANGED <<part, store, string, static, chunks, codec>>
InString == UNCHANGED <<part, store, wire, static, chunks, codec>>
InStatic == UNCHANGED <<part, store, wire, string, chunks, codec>>
InChunks == UNCHANGED <<part, store, wire, string, static, codec>>
InCodec  == UNCHANGED <<part, store, wire, string, static, chunks>>

\* The members of S in a behaviour of one of the parts P.
For(P, S) == IF part \in P THEN S ELSE {}
Stores == {"queues", "both", "frames"}

\* Three places in one queue; two that are used again in two queues; two with frames.
\* Places that are free are alike.
FreePlaces == {i \in Index : (part # "queues" => i <= 2) /\ \A j \in 1..(i - 1) : slab[j] # None}
Ids == {id \in StreamId : part = "frames" => id <= 2}
Queues == {q \in QueueName : part = "queues" => q = "pending_send"}

StoreStep ==
  \/ \E i \in For(Stores, FreePlaces), id \in Ids : Insert(i, id) /\ InStore
  \/ \E k \in For(Stores, Streams) : Close(k) /\ InStore
  \/ \E k \in For(Stores, Streams) : DropHandle(k) /\ InStore
  \/ \E k \in For(Stores, Streams) : Unlink(k) /\ InStore
  \/ \E k \in For(Stores, Streams) : RemovePtr(k) /\ InStore
  \/ \E k \in For({"queues", "both"}, Streams), q \in Queues : Push(q, k) /\ InStore
  \/ \E q \in For({"queues", "both"}, Queues) : Pop(q) /\ InStore
  \/ \E k \in For({"frames"}, Streams), s \in Slot, f \in Frame : PushBack(k, s, f) /\ InStore
  \/ \E k \in For({"frames"}, Streams), s \in Slot, f \in Frame : PushFront(k, s, f) /\ InStore
  \/ \E k \in For({"frames"}, Streams) : PopFront(k) /\ InStore
  \/ part = "queues" /\ StartWalk /\ InStore
  \/ \E closes \in For({"queues"}, BOOLEAN) : Visit(closes) /\ InStore
  \/ part = "queues" /\ EndWalk /\ InStore
  \/ part = "queues" /\ FailWalk /\ InStore

\* Of the codes of each length the first and the last: any byte may follow these.
AtTheEdge == LET Alike(b, c) == Len(Code(b)) = Len(Code(c))
             IN  {b \in Bytes : \/ \A c \in Bytes : Alike(b, c) => ENCODE_TABLE[b + 1][2] <= ENCODE_TABLE[c + 1][2]
                               \/ \A c \in Bytes : Alike(b, c) => ENCODE_TABLE[b + 1][2] >= ENCODE_TABLE[c + 1][2]}
Following == IF Range(pending) \subseteq AtTheEdge THEN Bytes ELSE {}

HpackStep ==
  \/ \E rep \in For({"wire"}, Reps) : Wire!Write(rep) /\ InWire
  \/ \E k \in For({"wire"}, 1..4) : Wire!Arrive(k) /\ InWire
  \/ \E b \in For({"encode"}, Following) : EncodeByte(b) /\ InString
  \/ \E octet \in For({"decode"}, Bytes) : DecodeAny(octet) /\ InString
  \/ \E name \in For({"static"}, Table!Names), value \in Table!Values :
       header = Table!Entry("", "") /\ Table!LookUp(name, value) /\ InStatic

ChunkStep ==
  \/ part \in {"bytes", "bodies"} /\ Chunk!DecodeSize /\ InChunks
  \/ part \in {"bytes", "bodies"} /\ Chunk!DecodeChunk /\ InChunks
  \/ \E b \in For({"bytes"}, Letters) : Len(arrived) < 7 /\ Chunk!Arrive(b) /\ InChunks
  \/ \E b \in For({"bodies"}, Chunk!Byte) :
       /\ Chunk!Arrive(b) /\ InChunks
       /\ \E cs \in Chunk!Payloads : IsPrefix(arrived', Chunk!Body(cs))

CodecStep ==
  \/ \E t \in For({"codec"}, {"headers", "push"}), block \in HeaderBlock : Codec!BufferBlock(t, block) /\ InCodec
  \/ \E size \in For({"codec"}, 1..3) : Codec!BufferData(size) /\ InCodec
  \/ part = "codec" /\ Codec!RecvSettings /\ InCodec
  \/ part = "codec" /\ Codec!AckSettings /\ InCodec
  \/ part = "codec" /\ Codec!StartFlush /\ InCodec
  \/ part = "codec" /\ Codec!Write /\ InCodec
  \/ part = "codec" /\ Codec!Written /\ InCodec
  \/ part = "codec" /\ Codec!WritePending /\ InCodec
  \/ part = "codec" /\ Codec!WriteFails /\ InCodec
  \/ part = "codec" /\ Codec!Unset /\ InCodec
  \/ part = "codec" /\ Codec!Read /\ InCodec

NextAll == StoreStep \/ HpackStep \/ ChunkStep \/ CodecStep

SpecAll == InitAll /\ [][NextAll]_<<part, store, wire, string, static, chunks, codec>>

-----------------------------------------------------------------------------
\* store.rs and buffer.rs: every key resolves, the queues are lists, the frames of
\* the streams share one buffer, and a walk of the identifier map visits everyone.
StoreKeeps ==
  /\ part \in {"queues", "both", "frames"} => TypeOK /\ KeysResolve
  /\ part \in {"queues", "both"} => QueuesAreLists /\ WalkVisitsAll
  /\ part = "frames" => BufferIsShared

\* hpack: integers, strings and representations are read as they were written,
\* however they are cut; the two halves of the static table are one table; what
\* huffman::encode writes decode reads, and nothing else.
HpackReadsWrites ==
  /\ part = "wire" => Wire!ReadAsWritten /\ Wire!OnlyOverflow
  /\ part = "static" => Table!HalvesAgree /\ Table!ValuesAreFound
  /\ part = "encode" => RoundTrip /\ CodeFits
  /\ part = "decode" => OnlyCodes /\ OnlyPadding

\* ChunkedBodyDecoder: the chunks decoded are those an encoder wrote, whatever the
\* pieces, and every body an encoder writes is decoded.
ChunksReadWrites ==
  /\ part = "bytes" => Chunk!TypeOK /\ Chunk!RoundTrip
  /\ part = "bodies" => Chunk!WritesAreRead

\* codec: header blocks cut into frames are put together again, the HPACK decoder
\* follows the encoder also through blocks that are refused, and no frame is one that
\* the reader ends the connection for.
CodecFollows ==
  part = "codec" => Codec!HpackFollows /\ Codec!Arriving /\ Codec!NotBlamed /\ Codec!Returned

\* headers.rs: "A malformed header frame is a stream level error".
MalformedIsStreamError ==
  part = "codec" => Codec!MalformedIsReset /\ Codec!MalformedIsStreamLevel

\* decoder.rs: "There must be at least 3 bytes": the line of a length has a digit.
LengthIsSpelled == part = "bytes" => Chunk!LengthIsSpelled
=============================================================================
