------------------------------ MODULE H1Codec -------------------------------
(***************************************************************************)
(* One direction of an HTTP/1 connection: a GenericEncoder, the transport, *)
(* and a decoder, which is the GenericDecoder of a server (Mode "channel", *)
(* bodies go through payload channels that fill_payload feeds) or the      *)
(* IoOwnedDecoder and FramedPayload of a client (Mode "direct").           *)
(*                                                                         *)
(* A head is one token, and so are the line of a chunk's size, a CRLF and  *)
(* each byte of data.  The calls of both ends are futures: they stop at    *)
(* their awaits and may be dropped there.                                  *)
(***************************************************************************)
EXTENDS Naturals, Sequences, SequencesExt, FiniteSets

CONSTANTS
  MaxMsgs,    \* bound on the messages
  MaxSize,    \* bound on the bytes of a body, or of a chunk
  Boundary,   \* BACKPRESSURE_BOUNDARY
  Scopes      \* who decodes, and what may go wrong: one of these is chosen at first

\* A scope is [mode : {"channel", "direct"}, chunks : Nat, faults : SUBSET Fault].
Fault == {"dropsend", "dropfill", "dropnext", "bodyerr", "emptychunk", "break", "timeout"}

VARIABLES
  buf,        \* GenericEncoder.buf
  ops,        \* what is left of the call of send, flush or close
  flight,     \* what write_all still has to write
  log,        \* the messages given to send
  wire,       \* in the transport
  down,       \* "open", "closed" or "broken"
  src,        \* the buffer of FramedRead
  nextd,      \* next_decoder, or the decoder of the FramedPayload
  len,        \* ChunkedBodyDecoder: NoLen or the length of the next chunk
  pc,         \* the decoder's call: "idle", "head", "fill", "nextfill"
  inbox,      \* the messages handed out, their bodies as read so far
  stop,       \* "no", or how the decoder ended: "eof", "error"
  written,    \* every token that was ever written
  scope,      \* the scope of this behaviour
  spoilt      \* what was done that the codec does not survive

Mode == scope.mode
MaxChunks == scope.chunks   \* bound on the chunks of a body
Faults == scope.faults

enc == <<buf, ops, flight, log, down>>
dec == <<src, nextd, len, pc, inbox, stop>>
vars == <<buf, ops, flight, log, wire, down, src, nextd, len, pc, inbox, stop, written, scope, spoilt>>

NoLen == MaxSize + 1
NoBody == [k |-> "none", n |-> 0]

HeadOf(m, f, n) == [t |-> "head", m |-> m, f |-> f, n |-> n]
Data(m, i) == [t |-> "data", m |-> m, f |-> "none", n |-> i]
Size(n) == [t |-> "size", m |-> 0, f |-> "none", n |-> n]
Crlf == [t |-> "crlf", m |-> 0, f |-> "none", n |-> 0]

Init ==
  /\ buf = <<>> /\ ops = <<>> /\ flight = <<>> /\ log = <<>> /\ wire = <<>> /\ down = "open"
  /\ src = <<>> /\ nextd = NoBody /\ len = NoLen /\ pc = "idle" /\ inbox = <<>> /\ stop = "no"
  /\ written = <<>> /\ scope \in Scopes /\ spoilt = {}

TypeOK ==
  /\ pc \in {"fill", "nextfill"} => nextd.k \in {"fixed", "streamed"}
  /\ len # NoLen => nextd.k = "streamed"
  /\ nextd.k # "none" => inbox # <<>> /\ Last(inbox).end # "done"
  /\ flight # <<>> => ops # <<>> /\ Head(ops).k \in {"flushing", "writing"}
  /\ spoilt \subseteq Faults

-----------------------------------------------------------------------------
(* GenericEncoder *)

Op(k, toks) == [k |-> k, toks |-> toks]
Now == Head(ops)
Cur == Len(log)
Body(m) == log[m].body

Bytes(m, from, n) == [i \in 1..n |-> Data(m, from + i)]

\* GenericEncoder::send is called: the first of its steps.
Send(f, n) ==
  LET m == Cur + 1
  IN  /\ ops = <<>> /\ m <= MaxMsgs /\ down # "closed"
      /\ n > 0 => f = "fixed"
      /\ log' = Append(log, [f |-> f, n |-> n, body |-> <<>>, end |-> "open", chunks |-> 0,
                             put |-> [none |-> "all", fixed |-> "no", stream |-> "head"][f]])
      /\ ops' = CASE f = "none"   -> <<Op("relieve", <<>>), Op("put", <<HeadOf(m, f, 0)>>)>>
                  [] f = "fixed"  -> <<Op("relieve", <<>>), Op("fetch", <<>>)>>
                  [] f = "stream" -> <<Op("relieve", <<>>), Op("put", <<HeadOf(m, f, 0)>>),
                                       Op("pull", <<>>)>>
      /\ UNCHANGED <<buf, flight, wire, down, dec, scope, written, spoilt>>

Flush ==
  /\ ops = <<>> /\ down # "closed"
  /\ ops' = <<Op("flush", <<>>)>>
  /\ UNCHANGED <<buf, flight, log, wire, down, dec, scope, written, spoilt>>

Close ==
  /\ ops = <<>> /\ down = "open"
  /\ ops' = <<Op("flush", <<>>), Op("shutdown", <<>>)>>
  /\ UNCHANGED <<buf, flight, log, wire, down, dec, scope, written, spoilt>>

Settle(end) == log' = [log EXCEPT ![Cur].end = IF @ = "open" THEN end ELSE @]

\* The last step of a call, and the message that is then accepted.
Goes(rest) ==
  /\ ops' = rest
  /\ IF rest = <<>> /\ log # <<>> THEN Settle("ok") ELSE UNCHANGED log

Overtakes(toks) == <<Op("write", toks), Op("flush", <<>>)>>

\* What waits in buf goes before what is written directly.
FlushFirst(toks) == <<Op("flush", <<>>), Op("write", toks)>>

TooMuch(n) == Len(buf) + n > Boundary

Put(toks) == buf' = buf \o toks

\* One step of send, flush or close that does not wait.
Step ==
  /\ ops # <<>> /\ flight = <<>>
  /\ \/ /\ Now.k = "relieve"
        /\ Goes((IF TooMuch(0) THEN <<Op("flush", <<>>)>> ELSE <<>>) \o Tail(ops))
        /\ UNCHANGED <<buf, flight, down>>
     \/ /\ Now.k = "put" /\ Put(Now.toks)
        /\ Goes(Tail(ops)) /\ UNCHANGED <<flight, down>>
     \/ /\ Now.k = "piece"
        /\ IF TooMuch(Len(Now.toks))
           THEN Goes(FlushFirst(Now.toks) \o Tail(ops)) /\ UNCHANGED buf
           ELSE Put(Now.toks) /\ Goes(Tail(ops))
        /\ UNCHANGED <<flight, down>>
     \/ /\ Now.k = "flush" /\ buf = <<>>
        /\ Goes(Tail(ops)) /\ UNCHANGED <<buf, flight, down>>
     \/ /\ Now.k = "flush" /\ buf # <<>> /\ down = "open"
        /\ flight' = buf
        /\ ops' = <<Op("flushing", <<>>)>> \o Tail(ops)
        /\ UNCHANGED <<buf, log, down>>
     \/ /\ Now.k = "write" /\ down = "open"
        /\ IF Now.toks = <<>> THEN Goes(Tail(ops)) /\ UNCHANGED flight
           ELSE /\ flight' = Now.toks
                /\ ops' = <<Op("writing", <<>>)>> \o Tail(ops) /\ UNCHANGED log
        /\ UNCHANGED <<buf, down>>
     \/ /\ Now.k \in {"flushing", "writing"}
        /\ buf' = IF Now.k = "flushing" THEN <<>> ELSE buf
        /\ Goes(Tail(ops)) /\ UNCHANGED <<flight, down>>
     \/ /\ Now.k = "shutdown"
        /\ down' = IF down = "open" THEN "closed" ELSE down
        /\ Goes(Tail(ops)) /\ UNCHANGED <<buf, flight>>
  /\ UNCHANGED <<wire, dec, scope, written, spoilt>>

\* The body is asked for its data: a fixed one before the head is encoded.
Fetch ==
  /\ ops # <<>> /\ Now.k = "fetch"
  /\ LET n == log[Cur].n
         data == Bytes(Cur, 0, n)
     IN  /\ log' = [log EXCEPT ![Cur].body = data, ![Cur].put = "all"]
         /\ ops' = <<Op("put", <<HeadOf(Cur, "fixed", n)>>), Op("piece", data)>>
  /\ UNCHANGED <<buf, flight, wire, down, dec, scope, written, spoilt>>

\* The next chunk of a body: its size, the data, a CRLF.
PullChunk(n) ==
  LET data == Bytes(Cur, Len(Body(Cur)), n)
  IN  /\ ops # <<>> /\ Now.k = "pull" /\ log[Cur].chunks < MaxChunks
      /\ n = 0 => "emptychunk" \in Faults
      /\ log' = [log EXCEPT ![Cur].body = @ \o data, ![Cur].chunks = @ + 1]
      /\ ops' = <<Op("put", <<Size(n)>>), Op("piece", data), Op("put", <<Crlf>>), Now>>
      /\ spoilt' = IF n = 0 THEN spoilt \cup {"emptychunk"} ELSE spoilt
      /\ UNCHANGED <<buf, flight, wire, down, dec, scope, written>>

PullEnd ==
  /\ ops # <<>> /\ Now.k = "pull"
  /\ ops' = <<Op("put", <<Size(0), Crlf>>)>>
  /\ log' = [log EXCEPT ![Cur].put = "all"]
  /\ UNCHANGED <<buf, flight, wire, down, dec, scope, written, spoilt>>

\* The body fails: nothing of a fixed one is encoded yet, a streamed one is cut short.
BodyError ==
  /\ "bodyerr" \in Faults
  /\ ops # <<>> /\ Now.k \in {"fetch", "pull"}
  /\ ops' = <<>> /\ Settle("failed")
  /\ spoilt' = IF Now.k = "pull" THEN spoilt \cup {"bodyerr"} ELSE spoilt
  /\ UNCHANGED <<buf, flight, wire, down, dec, scope, written>>

\* The transport takes one more token.
Write ==
  /\ flight # <<>> /\ down = "open"
  /\ flight' = Tail(flight)
  /\ wire' = Append(wire, Head(flight)) /\ written' = Append(written, Head(flight))
  /\ UNCHANGED <<buf, ops, log, down, dec, scope, spoilt>>

Break ==
  /\ "break" \in Faults /\ down = "open"
  /\ down' = "broken"
  /\ UNCHANGED <<buf, ops, flight, log, wire, dec, scope, written, spoilt>>

\* A write or a flush fails: the buffer is put back as it was.
WriteFails ==
  /\ down # "open" /\ ops # <<>>
  /\ \/ Now.k \in {"write", "flushing", "writing"}
     \/ Now.k = "flush" /\ buf # <<>>
  /\ ops' = <<>> /\ flight' = <<>>
  /\ IF log # <<>> THEN Settle("failed") ELSE UNCHANGED log
  /\ UNCHANGED <<buf, wire, down, dec, scope, written, spoilt>>

\* The future of send, flush or close is dropped.  flush has taken the buffer out.
DropSend ==
  /\ "dropsend" \in Faults
  /\ ops # <<>> /\ (flight # <<>> \/ Now.k \in {"fetch", "pull"})
  /\ ops' = <<>> /\ flight' = <<>>
  /\ buf' = IF Now.k = "flushing" THEN <<>> ELSE buf
  /\ Settle("dropped")
  /\ spoilt' = IF Now.k = "fetch" THEN spoilt ELSE spoilt \cup {"dropsend"}
  /\ UNCHANGED <<wire, down, dec, scope, written>>

-----------------------------------------------------------------------------
(* GenericDecoder and IoOwnedDecoder *)

ReadsNext == pc = "idle" /\ stop = "no"

\* FramedRead reads what the transport has.
Arrive ==
  /\ pc # "idle" /\ wire # <<>>
  /\ src' = Append(src, Head(wire)) /\ wire' = Tail(wire)
  /\ UNCHANGED <<enc, nextd, len, pc, inbox, stop, scope, written, spoilt>>

\* GenericDecoder::next fills the payload first; a client has read its own.
CallNext ==
  /\ ReadsNext
  /\ Mode = "direct" => nextd.k = "none"
  /\ pc' = IF nextd.k # "none" THEN "nextfill" ELSE "head"
  /\ UNCHANGED <<enc, wire, src, nextd, len, inbox, stop, scope, written, spoilt>>

\* fill_payload, or next_data of a FramedPayload
CallFill ==
  /\ ReadsNext /\ nextd.k # "none"
  /\ pc' = "fill"
  /\ UNCHANGED <<enc, wire, src, nextd, len, inbox, stop, scope, written, spoilt>>

Received(toks, end) ==
  inbox' = [inbox EXCEPT ![Len(inbox)].body = @ \o toks, ![Len(inbox)].end = end]

AfterFill == pc' = IF pc = "fill" THEN "idle" ELSE "head"

Filling == pc \in {"fill", "nextfill"}

HasSome(n) == src # <<>>

HasAll(n) == Len(src) >= n

\* FixedBodyDecoder::decode
FillFixed ==
  /\ Filling /\ nextd.k = "fixed" /\ HasAll(nextd.n)
  /\ LET n == IF nextd.n <= Len(src) THEN nextd.n ELSE Len(src)
     IN  Received(SubSeq(src, 1, n), "done") /\ src' = SubSeq(src, n + 1, Len(src))
  /\ nextd' = NoBody
  /\ AfterFill
  /\ UNCHANGED <<enc, wire, len, stop, scope, written, spoilt>>

\* A chunk, or its size, is decoded with ChunkedBodyDecoder.
FillSize ==
  /\ Filling /\ nextd.k = "streamed" /\ len = NoLen
  /\ src # <<>> /\ Head(src).t = "size"
  /\ len' = Head(src).n /\ src' = Tail(src)
  /\ UNCHANGED <<enc, wire, nextd, pc, inbox, stop, scope, written, spoilt>>

KeepsTheDecoder == nextd

\* The end of a body puts the decoder of heads back.
Ended == NoBody

FillChunk ==
  /\ Filling /\ nextd.k = "streamed" /\ len # NoLen
  /\ Len(src) > len /\ src[len + 1] = Crlf
  /\ src' = SubSeq(src, len + 2, Len(src)) /\ len' = NoLen
  /\ IF len = 0
     THEN Received(<<>>, "done") /\ nextd' = Ended /\ AfterFill
     ELSE Received(SubSeq(src, 1, len), "open") /\ UNCHANGED <<nextd, pc>>
  /\ UNCHANGED <<enc, wire, stop, scope, written, spoilt>>

BadChunk ==
  /\ nextd.k = "streamed"
  /\ \/ len = NoLen /\ src # <<>> /\ Head(src).t # "size"
     \/ len # NoLen /\ Len(src) > len /\ src[len + 1] # Crlf

FillDecoded ==
  \/ nextd.k = "fixed" /\ HasAll(nextd.n)
  \/ nextd.k = "streamed" /\ IF len = NoLen THEN src # <<>> ELSE Len(src) > len

AtEof == wire = <<>> /\ down # "open"

Silent(end) == UNCHANGED inbox

Tells(end) == inbox' = [inbox EXCEPT ![Len(inbox)].end = end]

\* The body ends in an error, or with the connection: its reader is told.
FillFails ==
  /\ Filling /\ (BadChunk \/ (AtEof /\ ~FillDecoded))
  /\ Tells("error")
  /\ nextd' = NoBody /\ len' = NoLen /\ pc' = "idle" /\ stop' = "error"
  /\ UNCHANGED <<enc, wire, src, scope, written, spoilt>>

\* The future that fills the payload is dropped.  The decoder and the sender of a fixed
\* body were swapped out, or its eof is set already; those of a streamed one stay.
DropFill ==
  /\ IF pc = "fill" THEN "dropfill" \in Faults ELSE "dropnext" \in Faults
  /\ Filling /\ ~FillDecoded
  /\ IF nextd.k = "fixed"
     THEN /\ nextd' = NoBody /\ Tells(IF Mode = "channel" THEN "lost" ELSE "done")
          /\ spoilt' = spoilt \cup {IF pc = "fill" THEN "dropfill" ELSE "dropnext"}
     ELSE UNCHANGED <<nextd, inbox, spoilt>>
  /\ pc' = "idle"
  /\ UNCHANGED <<enc, wire, src, len, stop, scope, written>>

\* Where a head ends: at its last token, or at the empty line after the last chunk.
EndsHead(i) ==
  \/ src[i].t = "head"
  \/ i > 1 /\ src[i] = Crlf /\ src[i-1].t \in {"size", "crlf"}

HeadEnd == {i \in DOMAIN src : EndsHead(i) /\ \A j \in 1..(i-1) : ~EndsHead(j)}

\* GenericHeadDecoder::decode: which body follows.
BodyOf(h) ==
  CASE h.f = "stream" -> [k |-> "streamed", n |-> 0]
    [] h.f = "fixed" /\ h.n > 0 -> [k |-> "fixed", n |-> h.n]
    [] OTHER -> NoBody

\* Empty lines before a head are skipped.
Parses(i) == src[i].t = "head" /\ \A j \in 1..(i-1) : src[j] = Crlf

RecvHead ==
  /\ pc = "head"
  /\ \E i \in HeadEnd :
       /\ src' = SubSeq(src, i + 1, Len(src))
       /\ pc' = "idle"
       /\ IF Parses(i)
          THEN /\ inbox' = Append(inbox, [m |-> src[i].m, f |-> src[i].f, body |-> <<>>,
                                          end |-> IF BodyOf(src[i]) = NoBody THEN "done" ELSE "open"])
               /\ nextd' = BodyOf(src[i]) /\ UNCHANGED stop
          ELSE stop' = "error" /\ UNCHANGED <<inbox, nextd>>
  /\ UNCHANGED <<enc, wire, len, scope, written, spoilt>>

\* The end of the connection; FramedRead may complain of what is left over.
RecvEof ==
  /\ pc = "head" /\ HeadEnd = {} /\ AtEof
  /\ pc' = "idle"
  /\ stop' \in IF src = <<>> THEN {"eof"} ELSE {"eof", "error"}
  /\ UNCHANGED <<enc, wire, src, nextd, len, inbox, scope, written, spoilt>>

\* The timeout of next, while it waits for the first byte.
TimedOut ==
  /\ "timeout" \in Faults
  /\ pc = "head" /\ src = <<>>
  /\ pc' = "idle"
  /\ UNCHANGED <<enc, wire, src, nextd, len, inbox, stop, scope, written, spoilt>>

-----------------------------------------------------------------------------
Sender ==
  \/ \E n \in 0..MaxSize : Send("none", n) \/ Send("fixed", n) \/ Send("stream", n) \/ PullChunk(n)
  \/ Flush \/ Close \/ Step \/ Fetch \/ PullEnd \/ BodyError
  \/ Write \/ Break \/ WriteFails \/ DropSend

Receiver ==
  \/ Arrive \/ CallNext \/ CallFill \/ FillFixed \/ FillSize \/ FillChunk \/ FillFails
  \/ DropFill \/ RecvHead \/ RecvEof \/ TimedOut

Next == Sender \/ Receiver

Spec == Init /\ [][Next]_vars

\* Both ends are polled, bodies yield their data, the application closes in the end and
\* reads until then; what the transport has arrives, and is read, between timeouts.
Sends == Step \/ Fetch \/ PullEnd \/ WriteFails
Reads == Arrive \/ FillFixed \/ FillSize \/ FillChunk \/ FillFails \/ RecvHead \/ RecvEof
FairSpec ==
  /\ Spec
  /\ WF_vars(Sends) /\ WF_vars(Write) /\ SF_vars(Close)
  /\ WF_vars(CallNext) /\ WF_vars(CallFill) /\ SF_vars(Reads)

-----------------------------------------------------------------------------
\* What a message is on the wire.
Chunked(m) == FoldLeft(LAMBDA s, d : Append(s, d), <<HeadOf(m, "stream", 0)>>, Body(m))

Plain(toks) == SelectSeq(toks, LAMBDA x : x.t \in {"head", "data"})

Encoded(m) ==
  CASE log[m].f = "none"   -> <<HeadOf(m, "none", 0)>>
    [] log[m].f = "fixed"  -> <<HeadOf(m, "fixed", log[m].n)>> \o Body(m)
    [] log[m].f = "stream" -> Chunked(m)

\* The messages something was encoded of, in order.
Begun == SelectSeq([m \in 1..Cur |-> m], LAMBDA m : log[m].put # "no")

\* Between calls, what was written and what waits in the buffer are the heads and the
\* data of the messages sent, whole and in order, unless a send failed or was dropped.
WrittenInOrder ==
  ops = <<>> /\ spoilt = {} /\ down # "broken" =>
    Plain(written \o buf) = FoldLeft(LAMBDA s, m : s \o Encoded(m), <<>>, Begun)

\* The decoder hands out the messages that were sent, in order and none invented, and
\* never an error, unless one of the calls listed in spoilt happened or the connection broke.
NothingInvented ==
  spoilt = {} =>
    /\ \A i \in DOMAIN inbox : i <= Len(Begun) /\ inbox[i].m = Begun[i] /\ inbox[i].f = log[Begun[i]].f
    /\ stop = "error" => down # "open"

\* A body that its reader sees end is the body that was sent; before that it is a
\* prefix of it.
BodiesWhole ==
  spoilt = {} =>
    \A i \in DOMAIN inbox :
      LET m == inbox[i].m
      IN  /\ IsPrefix(inbox[i].body, Body(m))
          /\ inbox[i].end = "done" => inbox[i].body = Body(m) /\ log[m].put = "all"

\* When the connection is over, every reader of a body has been told so, but for a fixed
\* one whose fill was dropped: its sender is gone and the reader waits for ever.
ReadersTold ==
  stop # "no" =>
    \A i \in DOMAIN inbox :
      \/ inbox[i].end \in {"done", "error"}
      \/ inbox[i].f = "fixed" /\ spoilt \cap {"dropfill", "dropnext"} # {}

\* A message that was sent and not lost with its connection is handed out whole.
Arrives ==
  \A m \in 1..MaxMsgs :
    (m <= Cur /\ log[m].end = "ok") ~>
      \/ \E i \in DOMAIN inbox : inbox[i].m = m /\ inbox[i].end = "done"
      \/ spoilt # {} \/ down = "broken"

\* decoder.rs: "There are two choices: spawn or select."  With select fill_payload is
\* dropped when the handler is done; the next message is still found.
SelectIsFine == stop = "error" => down # "open"
=============================================================================
