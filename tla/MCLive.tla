------------------------------- MODULE MCLive -------------------------------
(***************************************************************************)
(* What must eventually happen outside HTTP/2: the one-slot channel, the   *)
(* payload of an HTTP/1 message, an HTTP/1 connection and callers of the   *)
(* client that try again.  Each behaviour is one of these.                 *)
(***************************************************************************)
EXTENDS Spsc, TLC

CONSTANTS a, b, err, key

VARIABLES
  part,                                                       \* which one
  kind, items, eof, task, sender, readers, waits, fresh,      \* H1Payload
  runs, fed, read, ended,
  buf, ops, flight, log, wire, down, src, nextd, len, pc,     \* H1Codec
  inbox, stop, written, scope, spoilt,
  mapping, conns, tasks, clock, swept, open, servers          \* ClientPool

channel == vars
payload == <<kind, items, eof, task, sender, readers, waits, fresh, runs, fed, read, ended>>
codec   == <<buf, ops, flight, log, wire, down, src, nextd, len, pc, inbox, stop, written,
             scope, spoilt>>
pool    == <<mapping, conns, tasks, clock, swept, open, servers>>

P == INSTANCE H1Payload WITH
       Data <- {a, b}, Error <- {err}, Reader <- {"reader"}, MaxFed <- 3,
       woken <- runs, got <- read

H == INSTANCE H1Codec WITH
       MaxMsgs <- 2, MaxSize <- 1, Boundary <- 2,
       Scopes <- {[mode |-> "channel", chunks |-> 1, faults |-> {"timeout", "break"}]}

Caller == {"caller", "other"}
L == INSTANCE ClientPool WITH
       Request <- Caller, MaxConn <- 6, MaxCuts <- 2, Dur <- 2, scope <- servers,
       Scopes <- {[proto |-> key :> "h2", idle |-> 1, time |-> 0, faults |-> {"cut", "retry"}]}

-----------------------------------------------------------------------------
Part == {"channel", "payload", "codec", "pool"}

InitAll ==
  /\ part \in Part /\ Init /\ P!Init /\ H!Init /\ L!Init
  /\ part # "payload" => kind = "stream"

InChannel == UNCHANGED <<part, payload, codec, pool>>
InPayload == UNCHANGED <<part, channel, codec, pool>>
InCodec   == UNCHANGED <<part, channel, payload, pool>>
InPool    == UNCHANGED <<part, channel, payload, codec>>

\* The members of S in a behaviour of part p.
For(p, S) == IF part = p THEN S ELSE {}

ChannelStep ==
  \/ \E t \in For("channel", Task) : StartRecv(t) /\ InChannel
  \/ \E t \in For("channel", Task) : StartPollReady(t) /\ InChannel
  \/ \E t \in For("channel", Task) : StartClosed(t) /\ InChannel
  \/ \E t \in For("channel", Task), v \in Value : StartSend(v, t) /\ InChannel
  \/ \E t \in For("channel", Task) : "receiver" \in alive /\ PollRecv(t) /\ InChannel
  \/ \E t \in For("channel", Task) : "sender" \in alive /\ PollReady(t) /\ InChannel
  \/ \E t \in For("channel", Task) : "sender" \in alive /\ PollClosed(t) /\ InChannel
  \/ \E v \in For("channel", Value) : SendReady(v) /\ InChannel
  \/ \E e \in For("channel", End) : Cancel(e) /\ InChannel
  \/ \E e \in For("channel", End) : DropEnd(e) /\ InChannel

PayloadStep ==
  \/ \E i \in For("payload", P!Item) : P!Feed(i) /\ InPayload
  \/ part = "payload" /\ P!FeedEof /\ InPayload
  \/ part = "payload" /\ P!DropSender /\ InPayload
  \/ \E r \in For("payload", waits) : P!Pop(r) /\ InPayload
  \/ \E r \in For("payload", waits) : P!End(r) /\ InPayload
  \/ \E r \in For("payload", waits) : P!Wait(r) /\ InPayload
  \/ \E r \in For("payload", readers) : P!Start(r) /\ InPayload
  \/ \E r \in For("payload", readers) : P!Cancel(r) /\ InPayload
  \/ \E r \in For("payload", readers) : P!DropReader(r) /\ InPayload

NextAll ==
  \/ ChannelStep
  \/ PayloadStep
  \/ part = "codec" /\ H!Next /\ InCodec
  \/ part = "pool" /\ L!Next /\ InPool

all == <<part, channel, payload, codec, pool>>
SpecAll == InitAll /\ [][NextAll]_all

\* The fairness of each, in its own behaviours.
FairAll ==
  /\ SpecAll
  /\ \A e \in End : WF_all(part = "channel" /\ Run(e) /\ InChannel)
  /\ WF_all(part = "payload" /\ P!Run("reader") /\ InPayload)
  /\ WF_all(part = "codec" /\ H!Sends /\ InCodec)
  /\ WF_all(part = "codec" /\ H!Write /\ InCodec)
  /\ SF_all(part = "codec" /\ H!Close /\ InCodec)
  /\ WF_all(part = "codec" /\ H!CallNext /\ InCodec)
  /\ WF_all(part = "codec" /\ H!CallFill /\ InCodec)
  /\ SF_all(part = "codec" /\ H!Reads /\ InCodec)
  /\ \A r \in Caller : /\ WF_all(part = "pool" /\ L!Run(r) /\ InPool)
                       /\ WF_all(part = "pool" /\ L!Retry(r) /\ InPool)
  /\ WF_all(part = "pool" /\ (\E c \in L!Conn : L!Serve(c)) /\ InPool)

-----------------------------------------------------------------------------
\* spsc.rs: every pending call that could return will be polled, and an item is never
\* replaced by another.  payload.rs: what is read is what was fed, in order.
NothingLost == TypeOK /\ NoLostWakeup /\ NothingOverwritten /\ P!TypeOK /\ P!ReadInOrder

\* Both are channels: what is put is taken once and in order, an end is told that the
\* other has left, the receiver only after it has everything.
AreChannels == IsChannel /\ P!IsChannel

\* A call that can be answered is answered.
CallsAnswered == Answered /\ P!ReadsAnswered

\* A message whose send succeeded arrives whole, and a caller that tries again is
\* served, however many connections of the pool have died.
Served == \A r \in Caller : (part = "pool" /\ tasks[r].pc = "new") ~> (tasks[r].pc = "ok" \/ ~open)
RequestsComplete == H!Arrives /\ Served
=============================================================================
