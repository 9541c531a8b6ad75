--------------------------- MODULE H2ClientProofs ---------------------------
(***************************************************************************)
(* Theorem about H2Client, for every number of promised streams, of DATA   *)
(* and every choice of scopes: the readers of a stream are told what they  *)
(* wait for, in its order, and nothing is kept for nobody.                 *)
(***************************************************************************)
EXTENDS H2Client, H2CommonProofs, SequenceTheorems

-----------------------------------------------------------------------------
(* The invariant, said of any streams, queue and calls, for in the middle of *)
(* a handler it holds of values that are not yet those of the variables.     *)

(* The events of a stream, in the order of the protocol: w requests, r       *)
(* responses, k DATA, t trailers; all but k are 0 or 1.                      *)
Kind(j, w, r, k) ==
  IF j <= w THEN "request" ELSE IF j <= w + r THEN "response"
  ELSE IF j <= w + r + k THEN "data" ELSE "trailers"

Row(p, w, r, k, t) ==
  /\ p \in Seq(Event) /\ w \in 0 .. 1 /\ r \in 0 .. 1 /\ k \in Nat /\ t \in 0 .. 1
  /\ Len(p) = w + r + k + t
  /\ \A j \in 1 .. Len(p) : p[j] = Kind(j, w, r, k)

Waiting(s) == IF s.queued THEN 1 ELSE 0

(* What is kept agrees with the receive half of the state, and with who      *)
(* reads: the request waits with the promise, the response with the          *)
(* ResponseFuture, and data only comes behind the response.                  *)
Fits(s, r, t, u) ==
  /\ Row(s.pending_recv, Waiting(s), r, s.came - s.read, t)
  /\ "body" \in s.handles => r = 0 /\ ~CanRecvOpen(s.state)
  /\ r = 1 => ~CanRecvOpen(s.state)
  /\ t = 1 => IsRecvClosed(s.state)
  /\ "body" \notin s.handles /\ r = 0 =>
       /\ t = 0 /\ s.came = s.read /\ ~IsRecvStreaming(s.state)
       /\ "oneway" \notin u /\ ~IsReset(s.state) => ~IsRecvClosed(s.state)

\* Somebody can read the events, or will.
Readable(s) == s.queued \/ "response" \in s.handles \/ "body" \in s.handles

Told(s, u) == s.is_recv /\ \E r \in 0 .. 1, t \in 0 .. 1 : Fits(s, r, t, u)

\* Nobody holds the stream: it is over, and what it had was given back.
Abandoned(s, u) ==
  /\ IsClosed(s.state)
  /\ "unread" \notin u => s.in_flight_recv_data = 0 /\ s.pending_recv = <<>>

(* One stream.                                                               *)
Fine(s, u) ==
  /\ s \in Stream
  /\ s.queued => s.handles = {}
  /\ "response" \in s.handles => "body" \notin s.handles
  /\ s.handles = {} /\ ~s.queued => Abandoned(s, u)
  /\ Readable(s) => Told(s, u)
  /\ s.drained => s.read = s.came /\ IsRecvClosed(s.state)
  /\ ~s.is_recv /\ "dropbody" \notin u => "pushes" \notin s.handles

(* The streams, the queue q of the promised ones and how many there were.    *)
Listed(q, i) == \E j \in 1 .. Len(q) : q[j] = i

Queue(q, n) == q \in Seq(1 .. n) /\ \A j, m \in 1 .. Len(q) : q[j] = q[m] => j = m

Kept(s, i, n, u) ==
  /\ Fine(s, u)
  /\ i > n => s = Gone
  /\ i # 0 => "pushes" \notin s.handles

Book(str, q, n, u) ==
  /\ u \subseteq Use /\ n \in 0 .. MaxPush /\ Queue(q, n)
  /\ str \in [Id -> Stream]
  /\ \A i \in Id : Kept(str[i], i, n, u)
  /\ \A i \in Id : str[i].queued <=> Listed(q, i)
  /\ q # <<>> => str[0].handles # {}

(* The slab holds the streams that are not gone.                             *)
Housed(str, st, ix) ==
  /\ ix \subseteq st /\ st \subseteq Id
  /\ \A i \in Id \ st : str[i] = Gone

(* What the connection has counted covers what its streams hold, and is all  *)
(* of it unless events were left unread.                                     *)
Flights(str) == [i \in Id |-> str[i].in_flight_recv_data]
Lengths(str) == [i \in Id |-> Len(str[i].pending_recv)]
Covers(f, g, u) ==
  /\ f \in Nat /\ SumOf(g, Id) <= f
  /\ "unread" \notin u => SumOf(g, Id) = f
Owed(str, f, b, u) == Covers(f, Flights(str), u) /\ Covers(b, Lengths(str), u)

(* A call belongs to a handle that is alive, which makes one at a time.  One *)
(* that will not be polled has nothing to be told, and its stream keeps a    *)
(* waker.                                                                    *)
First(s) == IF s.pending_recv = <<>> THEN "none" ELSE Head(s.pending_recv)

Answers(s, q, op) ==
  IF op = "pushed" THEN q # <<>>
  ELSE First(s) = op \/ (op = "data" /\ First(s) = "trailers")

Sleeps(s, q, op) ==
  s.recv_task # "none" /\ ~IsRecvClosed(s.state) /\ ~Answers(s, q, op)

Holds(s, x, u) ==
  /\ x[2] \in s.handles
  /\ x[3] = "trailers" => s.drained \/ "early" \in u

OneEach(pend) == \A x, y \in pend : x[1] = y[1] /\ x[2] = y[2] => x = y

Calls(str, q, pend, wok, u) ==
  /\ pend \subseteq Call /\ wok \subseteq pend /\ OneEach(pend)
  /\ \A x \in pend : Holds(str[x[1]], x, u)
  /\ u \subseteq Survived => \A x \in pend \ wok : Sleeps(str[x[1]], q, x[3])

CInv ==
  /\ Book(streams, ppp, promised, uses)
  /\ Housed(streams, slab, ids) /\ \A i \in slab : ~Released(streams[i])
  /\ Owed(streams, in_flight_data, buffer, uses)
  /\ Calls(streams, ppp, pending, woken, uses)

-----------------------------------------------------------------------------
(* The events of one stream.                                                 *)

\* A queue that is not empty has a head, and what is left is a queue.
LEMMA HeadOfEvents ==
  ASSUME NEW p \in Seq(Event), p # <<>>
  PROVE  /\ Len(p) \in Nat /\ Len(p) >= 1 /\ Head(p) = p[1] /\ Head(p) \in Event
         /\ Tail(p) \in Seq(Event) /\ Len(Tail(p)) = Len(p) - 1
         /\ \A j \in 1 .. Len(p) - 1 : Tail(p)[j] = p[j + 1]
BY HeadTailProperties, EmptySeq

\* Recv::recv_headers and recv_data: an event comes behind the others.
LEMMA EventsAppend ==
  ASSUME NEW p \in Seq(Event), NEW e \in Event
  PROVE  /\ Append(p, e) \in Seq(Event) /\ Len(Append(p, e)) = Len(p) + 1 /\ Len(p) \in Nat
         /\ \A j \in 1 .. Len(p) : Append(p, e)[j] = p[j]
         /\ Append(p, e)[Len(p) + 1] = e
BY AppendProperties

\* The response comes once, behind the request at most.
LEMMA RowResponse ==
  ASSUME NEW p, NEW w, Row(p, w, 0, 0, 0)
  PROVE  Row(Append(p, "response"), w, 1, 0, 0)
<1>1. "response" \in Event /\ p \in Seq(Event)
  BY DEF Row, Event
<1> QED BY <1>1, EventsAppend DEF Row, Kind

\* DATA comes before the trailers.
LEMMA RowData ==
  ASSUME NEW p, NEW w, NEW r, NEW k, Row(p, w, r, k, 0)
  PROVE  Row(Append(p, "data"), w, r, k + 1, 0)
<1>1. "data" \in Event /\ p \in Seq(Event)
  BY DEF Row, Event
<1> QED BY <1>1, EventsAppend DEF Row, Kind

\* The trailers come last.
LEMMA RowTrailers ==
  ASSUME NEW p, NEW w, NEW r, NEW k, Row(p, w, r, k, 0)
  PROVE  Row(Append(p, "trailers"), w, r, k, 1)
<1>1. "trailers" \in Event /\ p \in Seq(Event)
  BY DEF Row, Event
<1> QED BY <1>1, EventsAppend DEF Row, Kind

\* The request of a promise is taken.
LEMMA RowPopRequest ==
  ASSUME NEW p, NEW r, NEW k, NEW t, Row(p, 1, r, k, t)
  PROVE  p # <<>> /\ Row(Tail(p), 0, r, k, t)
<1>1. p # <<>>
  <2>1. Len(<<>>) = 0
    BY EmptySeq
  <2> QED BY <2>1 DEF Row
<1>2. p \in Seq(Event)
  BY DEF Row
<1> QED BY <1>1, <1>2, HeadOfEvents DEF Row, Kind

\* What is in front, and what is left when it is taken.
LEMMA RowFront ==
  ASSUME NEW p, NEW r, NEW k, NEW t, Row(p, 0, r, k, t)
  PROVE  /\ p = <<>> => r = 0 /\ k = 0 /\ t = 0
         /\ p # <<>> /\ Head(p) = "response" => r = 1
         /\ p # <<>> /\ Head(p) = "data" => r = 0 /\ k > 0
         /\ p # <<>> /\ Head(p) = "trailers" => r = 0 /\ k = 0 /\ t = 1
         /\ r = 1 => p # <<>> /\ Head(p) = "response"
         /\ p # <<>> => Head(p) \in {"response", "data", "trailers"}
<1>1. CASE p = <<>>
  <2>1. Len(p) = 0
    BY <1>1, EmptySeq
  <2> QED BY <1>1, <2>1 DEF Row
<1>2. CASE p # <<>>
  <2>1. p \in Seq(Event)
    BY DEF Row
  <2>2. Head(p) = Kind(1, 0, r, k) /\ Len(p) >= 1
    BY <1>2, <2>1, HeadOfEvents DEF Row
  <2> QED BY <1>2, <2>2 DEF Row, Kind
<1> QED BY <1>1, <1>2

\* Taking it.
LEMMA RowPop ==
  ASSUME NEW p, NEW r, NEW k, NEW t, Row(p, 0, r, k, t), p # <<>>
  PROVE  /\ Head(p) = "response" => Row(Tail(p), 0, 0, k, t)
         /\ Head(p) = "data" => Row(Tail(p), 0, r, k - 1, t)
         /\ Head(p) = "trailers" => Row(Tail(p), 0, r, k, 0)
<1>1. p \in Seq(Event)
  BY DEF Row
<1>2. CASE Head(p) = "response"
  <2>1. r = 1
    BY <1>2, RowFront
  <2> QED BY <1>1, <1>2, <2>1, HeadOfEvents DEF Row, Kind
<1>3. CASE Head(p) = "data"
  <2>1. r = 0 /\ k > 0
    BY <1>3, RowFront
  <2> QED BY <1>1, <1>3, <2>1, HeadOfEvents DEF Row, Kind
<1>4. CASE Head(p) = "trailers"
  <2>1. r = 0 /\ k = 0 /\ t = 1
    BY <1>4, RowFront
  <2>2. Len(p) = 1
    BY <2>1 DEF Row
  <2>3. Tail(p) \in Seq(Event) /\ Len(Tail(p)) = 0
    BY <1>1, <2>2, HeadOfEvents
  <2> QED BY <1>4, <2>1, <2>3 DEF Row
<1> QED BY <1>2, <1>3, <1>4

-----------------------------------------------------------------------------
(* The state of one stream.                                                  *)

\* What the queries of State say of each other.
LEMMA Sides ==
  ASSUME NEW a \in State
  PROVE  /\ IsRecvStreaming(a) => ~CanRecvOpen(a) /\ ~IsRecvClosed(a)
         /\ CanRecvOpen(a) => ~IsRecvClosed(a)
         /\ IsClosed(a) => IsRecvClosed(a)
         /\ IsReset(a) => IsClosed(a) /\ IsRecvClosed(a)
         /\ IsLocalReset(a) => IsReset(a)
         /\ IsScheduledReset(a) => IsReset(a)
<1>1. IsLocalReset(a) => IsClosed(a)
  BY LocalResetIsClosed
<1>2. IsScheduledReset(a) => IsLocalReset(a)
  BY DEF IsScheduledReset, IsLocalReset
<1> QED BY <1>1, <1>2 DEF IsRecvStreaming, CanRecvOpen, IsRecvHeaders, IsRecvClosed, IsClosed, IsReset,
              IsLocalReset

\* A response, or an informational one, opens the receive half or ends it.
LEMMA RecvOpens ==
  ASSUME NEW a \in State, CanRecvOpen(a), NEW eos \in BOOLEAN, NEW informational \in BOOLEAN
  PROVE  /\ RecvOpen(a, eos, informational) \in State
         /\ eos => IsRecvClosed(RecvOpen(a, eos, informational))
         /\ ~informational => ~CanRecvOpen(RecvOpen(a, eos, informational))
         /\ informational => ~IsRecvStreaming(RecvOpen(a, eos, informational))
         /\ ~eos => ~IsRecvClosed(RecvOpen(a, eos, informational))
<1> DEFINE b == RecvOpen(a, eos, informational)
           p == IF informational THEN "AwaitingHeaders" ELSE "Streaming"
<1>1. p \in Peers /\ "AwaitingHeaders" \in Peers /\ "Streaming" \in Peers /\ "EndStream" \in Causes
  BY DEF Peers, Causes
<1>2. CASE a.inner = "Idle"
  <2>1. b = IF eos THEN HalfClosedRemote("AwaitingHeaders") ELSE Open("AwaitingHeaders", p)
    BY <1>2 DEF RecvOpen
  <2>2. b \in State
    BY <1>1, <2>1, StateValues
  <2> QED BY <2>1, <2>2 DEF HalfClosedRemote, Open, Value, IsRecvClosed, CanRecvOpen, IsRecvHeaders,
               IsRecvStreaming
<1>3. CASE a.inner = "Open"
  <2>1. b = IF eos THEN HalfClosedRemote(a.local) ELSE Open(a.local, p)
    BY <1>3 DEF RecvOpen
  <2>2. b \in State
    BY <1>1, <1>3, <2>1, StateValues, StateFields
  <2> QED BY <2>1, <2>2 DEF HalfClosedRemote, Open, Value, IsRecvClosed, CanRecvOpen, IsRecvHeaders,
               IsRecvStreaming
<1>4. CASE a.inner = "ReservedRemote"
  <2>1. b = IF eos THEN Closed("EndStream")
            ELSE IF informational THEN ReservedRemote ELSE HalfClosedLocal("Streaming")
    BY <1>4 DEF RecvOpen
  <2>2. ReservedRemote \in State
    BY DEF State
  <2>3. b \in State
    BY <1>1, <2>1, <2>2, StateValues
  <2> QED BY <2>1, <2>3 DEF Closed, ReservedRemote, HalfClosedLocal, Value, IsRecvClosed, CanRecvOpen,
               IsRecvHeaders, IsRecvStreaming
<1>5. CASE a.inner = "HalfClosedLocal"
  <2>1. b = IF eos THEN Closed("EndStream") ELSE HalfClosedLocal(p)
    BY <1>5 DEF RecvOpen
  <2>2. b \in State
    BY <1>1, <2>1, StateValues
  <2> QED BY <2>1, <2>2 DEF Closed, HalfClosedLocal, Value, IsRecvClosed, CanRecvOpen,
               IsRecvHeaders, IsRecvStreaming
<1> QED BY <1>2, <1>3, <1>4, <1>5 DEF CanRecvOpen, IsRecvHeaders

\* The end of what is received.
LEMMA RecvCloses ==
  ASSUME NEW a \in State, IsRecvStreaming(a)
  PROVE  RecvClose(a) \in State /\ IsRecvClosed(RecvClose(a))
<1>1. RecvClose(a) \in State
  BY RecvStreamingCanClose, RecvCloseType
<1> QED BY <1>1 DEF RecvClose, IsRecvClosed, HalfClosedRemote, Closed, Value

(* b may follow a while the receive half is as it was, or the stream is      *)
(* reset.                                                                    *)
Alike(a, b) ==
  /\ IsRecvClosed(a) <=> IsRecvClosed(b)
  /\ CanRecvOpen(a) <=> CanRecvOpen(b)
  /\ IsRecvStreaming(a) <=> IsRecvStreaming(b)
  /\ IsReset(a) <=> IsReset(b)

Follows(a, b) == b \in State /\ (IsClosed(a) => IsClosed(b)) /\ (IsReset(b) \/ Alike(a, b))

\* What resets a stream, and the end of what is sent.
LEMMA FollowsReset ==
  ASSUME NEW a \in State
  PROVE  /\ Follows(a, a) /\ Alike(a, a)
         /\ Follows(a, SetReset) /\ IsReset(SetReset) /\ IsClosed(SetReset)
         /\ Follows(a, SetScheduledReset) /\ IsReset(SetScheduledReset)
         /\ IsClosed(SetScheduledReset)
         /\ \A queued \in BOOLEAN : Follows(a, RecvReset(a, queued)) /\ IsClosed(RecvReset(a, queued))
         /\ \A cause \in {"LocalError", "RemoteError"} :
              Follows(a, HandleError(a, cause)) /\ IsClosed(HandleError(a, cause))
<1>1. Follows(a, a) /\ Alike(a, a)
  BY DEF Follows, Alike
<1>2. \A c \in Causes : c # "EndStream" => IsReset(Closed(c)) /\ Follows(a, Closed(c))
  BY StateValues, ClosedValues DEF IsReset, Follows, Closed, Value
<1>3. "LocalError" \in Causes /\ "RemoteError" \in Causes /\ "ScheduledLibraryReset" \in Causes
  BY DEF Causes
<1> QED BY <1>1, <1>2, <1>3, ClosedValues, RecvResetType, HandleErrorType
          DEF SetReset, SetScheduledReset, RecvReset, HandleError

\* SendStream::send_data with the end of the stream.
LEMMA FollowsSendClose ==
  ASSUME NEW a \in State, IsSendStreaming(a)
  PROVE  Follows(a, SendClose(a)) /\ Alike(a, SendClose(a))
<1>1. SendClose(a) \in State /\ ~IsClosed(a)
  BY SendCloseType
<1>2. CASE a.inner = "Open"
  <2>1. SendClose(a) = HalfClosedLocal(a.remote)
    BY <1>2 DEF SendClose
  <2> QED BY <1>1, <1>2, <2>1 DEF HalfClosedLocal, Value, Follows, Alike, IsRecvClosed, CanRecvOpen,
               IsRecvHeaders, IsRecvStreaming, IsReset, IsClosed
<1>3. CASE a.inner = "HalfClosedRemote"
  <2>1. SendClose(a) = Closed("EndStream")
    BY <1>3 DEF SendClose
  <2> QED BY <1>1, <1>3, <2>1 DEF Closed, Value, Follows, Alike, IsRecvClosed, CanRecvOpen,
               IsRecvHeaders, IsRecvStreaming, IsReset, IsClosed
<1> QED BY <1>2, <1>3 DEF IsSendStreaming

-----------------------------------------------------------------------------
(* The handlers of one stream.                                               *)

\* A stream has its fields.
LEMMA StreamFields ==
  ASSUME NEW s \in Stream
  PROVE  /\ s.state \in State /\ s.pending_recv \in Seq(Event)
         /\ s.recv_task \in Handle \cup {"none"} /\ s.handles \in SUBSET Handle
         /\ s.is_recv \in BOOLEAN /\ s.in_flight_recv_data \in Nat /\ s.queued \in BOOLEAN
         /\ s.sending \in {"no", "rst", "queued"} /\ s.came \in Nat /\ s.read \in Nat
         /\ s.drained \in BOOLEAN
BY DEF Stream

\* v is s for those who read it.
Same(s, v) ==
  /\ s \in Stream /\ v \in Stream
  /\ v.pending_recv = s.pending_recv /\ v.handles = s.handles /\ v.is_recv = s.is_recv
  /\ v.in_flight_recv_data = s.in_flight_recv_data /\ v.queued = s.queued
  /\ v.came = s.came /\ v.read = s.read /\ v.drained = s.drained

\* What follows a stream that is well is well.
LEMMA FineFollows ==
  ASSUME NEW s, NEW v, NEW u, Fine(s, u), Same(s, v), Follows(s.state, v.state)
  PROVE  Fine(v, u)
<1>1. s \in Stream /\ v \in Stream /\ s.state \in State /\ v.state \in State
  BY StreamFields DEF Same
<1>2. v.handles = {} /\ ~v.queued => Abandoned(v, u)
  BY DEF Fine, Same, Abandoned, Follows
<1>3. ASSUME Readable(v) PROVE Told(v, u)
  <2>1. Readable(s)
    BY <1>3 DEF Readable, Same
  <2>2. PICK r \in 0 .. 1, t \in 0 .. 1 : Fits(s, r, t, u)
    BY <2>1 DEF Fine, Told
  <2>3. Row(v.pending_recv, Waiting(v), r, v.came - v.read, t)
    BY <2>2 DEF Fits, Same, Waiting
  <2>4. CASE Alike(s.state, v.state)
    <3>1. Fits(v, r, t, u)
      BY <2>2, <2>3, <2>4 DEF Fits, Same, Alike
    <3> QED BY <2>1, <3>1 DEF Told, Fine, Same
  <2>5. CASE IsReset(v.state)
    <3>1. IsRecvClosed(v.state) /\ ~CanRecvOpen(v.state) /\ ~IsRecvStreaming(v.state)
      BY <1>1, <2>5, Sides
    <3>2. Fits(v, r, t, u)
      BY <2>2, <2>3, <2>5, <3>1 DEF Fits, Same
    <3> QED BY <2>1, <3>2 DEF Told, Fine, Same
  <2> QED BY <2>4, <2>5 DEF Follows
<1>4. v.drained => v.read = v.came /\ IsRecvClosed(v.state)
  <2>1. s.drained => s.read = s.came /\ IsRecvClosed(s.state)
    BY DEF Fine
  <2>2. IsRecvClosed(s.state) => IsRecvClosed(v.state)
    BY <1>1, Sides DEF Follows, Alike
  <2> QED BY <2>1, <2>2 DEF Same
<1> QED BY <1>1, <1>2, <1>3, <1>4 DEF Fine, Same

\* Stream::notify_recv
LEMMA NotifyFields ==
  ASSUME NEW s \in Stream
  PROVE  /\ Same(s, Notify(s)) /\ Notify(s).state = s.state /\ Notify(s).sending = s.sending
BY DEF Notify, Same, Stream

\* Send::send_reset
LEMMA SendResetFields ==
  ASSUME NEW s \in Stream
  PROVE  /\ Same(s, SendReset(s)) /\ Follows(s.state, SendReset(s).state)
         /\ IsReset(SendReset(s).state) /\ SendReset(s).recv_task = s.recv_task
<1>1. s.state \in State /\ SetReset \in State
  BY StreamFields, StateValues
<1>2. CASE IsReset(s.state)
  <2>1. SendReset(s) = s
    BY <1>2 DEF SendReset
  <2> QED BY <1>1, <1>2, <2>1, FollowsReset DEF Same
<1>3. CASE ~IsReset(s.state)
  <2>1. PICK g \in {"no", "rst", "queued"} :
          SendReset(s) = [s EXCEPT !.state = SetReset, !.sending = g]
    BY <1>3, StreamFields DEF SendReset
  <2>2. SendReset(s).state = SetReset
    BY <2>1 DEF Stream
  <2>3. Same(s, SendReset(s)) /\ SendReset(s).recv_task = s.recv_task
    BY <1>1, <2>1 DEF Stream, Same
  <2> QED BY <1>1, <2>2, <2>3, FollowsReset
<1> QED BY <1>2, <1>3

\* Send::handle_error
LEMMA ClearSendFields ==
  ASSUME NEW s \in Stream
  PROVE  /\ Same(s, ClearSend(s)) /\ ClearSend(s).state = s.state
         /\ ClearSend(s).recv_task = s.recv_task
BY DEF ClearSend, Same, Stream

\* A new value of the state.
LEMMA StateFieldsMove ==
  ASSUME NEW s \in Stream, NEW b \in State
  PROVE  /\ Same(s, [s EXCEPT !.state = b]) /\ [s EXCEPT !.state = b].state = b
         /\ [s EXCEPT !.state = b].recv_task = s.recv_task
         /\ [s EXCEPT !.state = b].sending = s.sending
BY DEF Same, Stream

\* maybe_cancel: a stream that nobody holds is over.
LEMMA MaybeCancelFields ==
  ASSUME NEW s \in Stream
  PROVE  /\ Same(s, MaybeCancel(s)) /\ Follows(s.state, MaybeCancel(s).state)
         /\ s.handles = {} => IsClosed(MaybeCancel(s).state)
<1>1. s.state \in State /\ SetScheduledReset \in State
  BY StreamFields, StateValues
<1>2. CASE s.handles = {} /\ ~IsClosed(s.state)
  <2>1. PICK g \in {"no", "rst", "queued"} :
          MaybeCancel(s) = [s EXCEPT !.state = SetScheduledReset, !.sending = g]
    BY <1>2, StreamFields DEF MaybeCancel
  <2>2. MaybeCancel(s).state = SetScheduledReset
    BY <2>1 DEF Stream
  <2>3. Same(s, MaybeCancel(s))
    BY <1>1, <2>1 DEF Stream, Same
  <2> QED BY <1>1, <2>2, <2>3, FollowsReset
<1>3. CASE ~(s.handles = {} /\ ~IsClosed(s.state))
  <2>1. MaybeCancel(s) = s
    BY <1>3 DEF MaybeCancel
  <2> QED BY <1>1, <1>3, <2>1, FollowsReset DEF Same
<1> QED BY <1>2, <1>3

\* An event that arrives.
LEMMA ArrivedFields ==
  ASSUME NEW s \in Stream, NEW e \in Event
  PROVE  /\ Arrived(s, e) \in Stream
         /\ Arrived(s, e).pending_recv = Append(s.pending_recv, e)
         /\ Arrived(s, e).state = s.state /\ Arrived(s, e).handles = s.handles
         /\ Arrived(s, e).is_recv = s.is_recv /\ Arrived(s, e).queued = s.queued
         /\ Arrived(s, e).in_flight_recv_data = s.in_flight_recv_data
         /\ Arrived(s, e).came = s.came /\ Arrived(s, e).read = s.read
         /\ Arrived(s, e).drained = s.drained
<1>1. Append(s.pending_recv, e) \in Seq(Event)
  BY StreamFields, EventsAppend
<1> DEFINE p == Append(s.pending_recv, e)
<1>2. Arrived(s, e) = [s EXCEPT !.pending_recv = p, !.recv_task = "none"]
  BY DEF Arrived, Notify, Stream
<1> HIDE DEF p
<1> QED BY <1>1, <1>2 DEF Stream, p

\* v is s with one more event.
Gains(s, v, e) ==
  /\ s \in Stream /\ v \in Stream
  /\ v.pending_recv = Append(s.pending_recv, e)
  /\ v.handles = s.handles /\ v.is_recv = s.is_recv /\ v.queued = s.queued
  /\ v.read = s.read /\ v.drained = s.drained

\* A stream that is not over is held, or promised.
LEMMA OpenIsHeld ==
  ASSUME NEW s, NEW u, Fine(s, u), ~IsClosed(s.state)
  PROVE  s.handles # {} \/ s.queued
BY DEF Fine, Abandoned

\* The response, and an end of the stream with it or not.
LEMMA FineResponse ==
  ASSUME NEW s, NEW v, NEW u, Fine(s, u), Gains(s, v, "response"), v.came = s.came,
         CanRecvOpen(s.state), ~CanRecvOpen(v.state)
  PROVE  Fine(v, u)
<1>1. s.state \in State /\ v.state \in State
  BY StreamFields DEF Gains
<1>2. ~IsRecvClosed(s.state) /\ ~IsClosed(s.state)
  BY <1>1, Sides
<1>3. v.handles # {} \/ v.queued
  BY <1>2, OpenIsHeld DEF Gains
<1>4. ASSUME Readable(v) PROVE Told(v, u)
  <2>1. Readable(s) /\ v.is_recv
    BY <1>4 DEF Readable, Gains, Fine, Told
  <2>2. PICK r \in 0 .. 1, t \in 0 .. 1 : Fits(s, r, t, u)
    BY <2>1 DEF Fine, Told
  <2>3. r = 0 /\ "body" \notin s.handles /\ t = 0 /\ s.came = s.read
    BY <2>2 DEF Fits
  <2>4. s.came - s.read = 0 /\ v.came - v.read = 0
    BY <2>3, StreamFields DEF Gains
  <2>5. Row(s.pending_recv, Waiting(s), 0, 0, 0)
    BY <2>2, <2>3, <2>4 DEF Fits
  <2>6. Row(v.pending_recv, Waiting(v), 1, v.came - v.read, 0)
    BY <2>4, <2>5, RowResponse DEF Gains, Waiting
  <2>7. PICK a \in 0 .. 1, c \in 0 .. 1 : a = 1 /\ c = 0
    OBVIOUS
  <2>8. Row(v.pending_recv, Waiting(v), a, v.came - v.read, c)
    BY <2>6, <2>7
  <2>9. Fits(v, a, c, u)
    BY <2>3, <2>7, <2>8 DEF Fits, Gains
  <2> QED BY <2>1, <2>9 DEF Told
<1>5. ~v.drained
  BY <1>2 DEF Fine, Gains
<1> QED BY <1>3, <1>4, <1>5 DEF Fine, Gains

\* An informational response only changes the state.
LEMMA FineInformational ==
  ASSUME NEW s, NEW v, NEW u, Fine(s, u), Same(s, v), CanRecvOpen(s.state),
         ~IsRecvStreaming(v.state), "oneway" \notin u => ~IsRecvClosed(v.state)
  PROVE  Fine(v, u)
<1>1. s.state \in State /\ v.state \in State
  BY StreamFields DEF Same
<1>2. ~IsRecvClosed(s.state) /\ ~IsClosed(s.state)
  BY <1>1, Sides
<1>3. v.handles # {} \/ v.queued
  BY <1>2, OpenIsHeld DEF Same
<1>4. ASSUME Readable(v) PROVE Told(v, u)
  <2>1. Readable(s) /\ v.is_recv
    BY <1>4 DEF Readable, Same, Fine, Told
  <2>2. PICK r \in 0 .. 1, t \in 0 .. 1 : Fits(s, r, t, u)
    BY <2>1 DEF Fine, Told
  <2>3. r = 0 /\ "body" \notin s.handles /\ t = 0 /\ s.came = s.read
    BY <2>2 DEF Fits
  <2>4. Row(v.pending_recv, Waiting(v), r, v.came - v.read, t)
    BY <2>2 DEF Fits, Same, Waiting
  <2>5. Fits(v, r, t, u)
    BY <2>3, <2>4 DEF Fits, Same
  <2> QED BY <2>1, <2>5 DEF Told
<1>5. ~v.drained
  BY <1>2 DEF Fine, Same
<1> QED BY <1>3, <1>4, <1>5 DEF Fine, Same

\* While data may come, the response is here or was read, and no trailers came.
LEMMA Streaming ==
  ASSUME NEW s, NEW u, Fine(s, u), IsRecvStreaming(s.state)
  PROVE  /\ s.handles # {} \/ s.queued
         /\ ~s.drained
         /\ Readable(s) => \E r \in 0 .. 1 : Fits(s, r, 0, u) /\ (r = 1 \/ "body" \in s.handles)
<1>1. s.state \in State
  BY StreamFields DEF Fine
<1>2. ~IsRecvClosed(s.state) /\ ~IsClosed(s.state)
  BY <1>1, Sides
<1>3. ASSUME Readable(s)
      PROVE  \E r \in 0 .. 1 : Fits(s, r, 0, u) /\ (r = 1 \/ "body" \in s.handles)
  <2>1. PICK r \in 0 .. 1, t \in 0 .. 1 : Fits(s, r, t, u)
    BY <1>3 DEF Fine, Told
  <2>2. t = 0 /\ (r = 1 \/ "body" \in s.handles)
    BY <1>2, <2>1 DEF Fits
  <2> QED BY <2>1, <2>2
<1> QED BY <1>2, <1>3, OpenIsHeld DEF Fine

\* The trailers end what is received.
LEMMA FineTrailers ==
  ASSUME NEW s, NEW v, NEW u, Fine(s, u), Gains(s, v, "trailers"), v.came = s.came,
         IsRecvStreaming(s.state), v.state = RecvClose(s.state)
  PROVE  Fine(v, u)
<1>1. s.state \in State /\ v.state \in State
  BY StreamFields DEF Gains
<1>2. v.handles # {} \/ v.queued
  BY Streaming DEF Gains
<1>3. IsRecvClosed(v.state) /\ ~CanRecvOpen(v.state)
  BY <1>1, RecvCloses, Sides
<1>4. ASSUME Readable(v) PROVE Told(v, u)
  <2>1. Readable(s) /\ v.is_recv
    BY <1>4 DEF Readable, Gains, Fine, Told
  <2>2. PICK r \in 0 .. 1 : Fits(s, r, 0, u) /\ (r = 1 \/ "body" \in s.handles)
    BY <2>1, Streaming
  <2>3. Row(v.pending_recv, Waiting(v), r, v.came - v.read, 1)
    <3>1. Row(s.pending_recv, Waiting(s), r, s.came - s.read, 0)
      BY <2>2 DEF Fits
    <3>2. Row(Append(s.pending_recv, "trailers"), Waiting(s), r, s.came - s.read, 1)
      BY <3>1, RowTrailers
    <3> QED BY <3>2 DEF Gains, Waiting
  <2>4. Fits(v, r, 1, u)
    BY <1>3, <2>2, <2>3 DEF Fits, Gains
  <2> QED BY <2>1, <2>4 DEF Told
<1>5. ~v.drained
  BY Streaming DEF Gains
<1> QED BY <1>2, <1>4, <1>5 DEF Fine, Gains

\* DATA, which may be the last.
LEMMA FineData ==
  ASSUME NEW s, NEW v, NEW u, Fine(s, u), Gains(s, v, "data"), v.came = s.came + 1,
         IsRecvStreaming(s.state), v.state = s.state \/ v.state = RecvClose(s.state)
  PROVE  Fine(v, u)
<1>1. s.state \in State /\ v.state \in State /\ s.came \in Nat /\ s.read \in Nat
  BY StreamFields DEF Gains
<1>2. v.handles # {} \/ v.queued
  BY Streaming DEF Gains
<1>3. ~CanRecvOpen(v.state)
  BY <1>1, RecvCloses, Sides
<1>4. ASSUME Readable(v) PROVE Told(v, u)
  <2>1. Readable(s) /\ v.is_recv
    BY <1>4 DEF Readable, Gains, Fine, Told
  <2>2. PICK r \in 0 .. 1 : Fits(s, r, 0, u) /\ (r = 1 \/ "body" \in s.handles)
    BY <2>1, Streaming
  <2>3. Row(v.pending_recv, Waiting(v), r, v.came - v.read, 0)
    <3>1. Row(s.pending_recv, Waiting(s), r, s.came - s.read, 0)
      BY <2>2 DEF Fits
    <3>2. Row(Append(s.pending_recv, "data"), Waiting(s), r, (s.came - s.read) + 1, 0)
      BY <3>1, RowData
    <3>3. v.came - v.read = (s.came - s.read) + 1
      BY <1>1 DEF Gains
    <3> QED BY <3>2, <3>3 DEF Gains, Waiting
  <2>4. Fits(v, r, 0, u)
    BY <1>3, <2>2, <2>3 DEF Fits, Gains
  <2> QED BY <2>1, <2>4 DEF Told
<1>5. ~v.drained
  BY Streaming DEF Gains
<1> QED BY <1>2, <1>4, <1>5 DEF Fine, Gains

\* DATA that is the last, when nobody reads.
LEMMA FineUnwanted ==
  ASSUME NEW s, NEW v, NEW u, Fine(s, u), Same(s, v), ~s.is_recv,
         IsRecvStreaming(s.state), v.state = s.state \/ v.state = RecvClose(s.state)
  PROVE  Fine(v, u)
<1>1. v.handles # {} \/ v.queued
  BY Streaming DEF Same
<1>2. ~Readable(v) /\ ~v.drained
  <2>1. ~Readable(s)
    BY DEF Fine, Told
  <2> QED BY <2>1, Streaming DEF Same, Readable
<1> QED BY <1>1, <1>2 DEF Fine, Same

\* What a reader that holds the stream has been told.
LEMMA ReaderHas ==
  ASSUME NEW s, NEW u, Fine(s, u), "response" \in s.handles \/ "body" \in s.handles
  PROVE  /\ s.is_recv /\ ~s.queued
         /\ \E r \in 0 .. 1, t \in 0 .. 1 :
              /\ Fits(s, r, t, u)
              /\ Row(s.pending_recv, 0, r, s.came - s.read, t)
<1>1. ~s.queued
  BY DEF Fine
<1>2. PICK r \in 0 .. 1, t \in 0 .. 1 : Fits(s, r, t, u)
  BY DEF Fine, Told, Readable
<1>3. Row(s.pending_recv, 0, r, s.came - s.read, t)
  BY <1>1, <1>2 DEF Fits, Waiting
<1> QED BY <1>1, <1>2, <1>3 DEF Fine, Told, Readable

\* poll_response: the ResponseFuture becomes the RecvStream.
LEMMA FineTakeResponse ==
  ASSUME NEW s, NEW v, NEW u, Fine(s, u), v \in Stream, "response" \in s.handles,
         s.pending_recv # <<>>, Head(s.pending_recv) = "response",
         v.pending_recv = Tail(s.pending_recv),
         v.handles = (s.handles \ {"response"}) \cup {"body"},
         v.state = s.state, v.is_recv = s.is_recv, v.queued = s.queued,
         v.came = s.came, v.read = s.read, v.drained = s.drained
  PROVE  Fine(v, u)
<1>1. s.is_recv /\ ~s.queued
  BY ReaderHas
<1>2. PICK r \in 0 .. 1, t \in 0 .. 1 :
        Fits(s, r, t, u) /\ Row(s.pending_recv, 0, r, s.came - s.read, t)
  BY ReaderHas
<1>3. r = 1
  BY <1>2, RowFront
<1>4. PICK a \in 0 .. 1 : a = 0
  OBVIOUS
<1>5. Row(v.pending_recv, Waiting(v), a, v.came - v.read, t)
  <2>1. Row(Tail(s.pending_recv), 0, 0, s.came - s.read, t)
    BY <1>2, RowPop
  <2> QED BY <1>1, <1>4, <2>1 DEF Waiting
<1>6. Fits(v, a, t, u)
  BY <1>2, <1>3, <1>4, <1>5 DEF Fits
<1>7. Told(v, u)
  BY <1>1, <1>6 DEF Told
<1> QED BY <1>1, <1>7 DEF Fine

\* poll_data: one more DATA is read, and not all was read before.
LEMMA FineTakeData ==
  ASSUME NEW s, NEW v, NEW u, Fine(s, u), v \in Stream, "body" \in s.handles,
         s.pending_recv # <<>>, Head(s.pending_recv) = "data",
         v.pending_recv = Tail(s.pending_recv), v.handles = s.handles,
         v.state = s.state, v.is_recv = s.is_recv, v.queued = s.queued,
         v.came = s.came, v.read = s.read + 1, v.drained = s.drained
  PROVE  Fine(v, u)
<1>1. s.is_recv /\ ~s.queued
  BY ReaderHas
<1>2. PICK r \in 0 .. 1, t \in 0 .. 1 :
        Fits(s, r, t, u) /\ Row(s.pending_recv, 0, r, s.came - s.read, t)
  BY ReaderHas
<1>3. r = 0 /\ s.came - s.read > 0
  BY <1>2, RowFront
<1>4. s.came \in Nat /\ s.read \in Nat
  BY StreamFields DEF Fine
<1>5. Row(v.pending_recv, Waiting(v), r, v.came - v.read, t)
  <2>1. Row(Tail(s.pending_recv), 0, r, (s.came - s.read) - 1, t)
    BY <1>2, RowPop
  <2>2. v.came - v.read = (s.came - s.read) - 1
    BY <1>4
  <2> QED BY <1>1, <2>1, <2>2 DEF Waiting
<1>6. Fits(v, r, t, u)
  BY <1>2, <1>5 DEF Fits
<1>7. Told(v, u)
  BY <1>1, <1>6 DEF Told
<1>8. ~s.drained
  BY <1>3, <1>4 DEF Fine
<1> QED BY <1>1, <1>7, <1>8 DEF Fine

\* poll_trailers takes the last event.
LEMMA FineTakeTrailers ==
  ASSUME NEW s, NEW v, NEW u, Fine(s, u), v \in Stream, "body" \in s.handles,
         s.pending_recv # <<>>, Head(s.pending_recv) = "trailers",
         v.pending_recv = Tail(s.pending_recv), v.handles = s.handles,
         v.state = s.state, v.is_recv = s.is_recv, v.queued = s.queued,
         v.came = s.came, v.read = s.read, v.drained = s.drained
  PROVE  Fine(v, u)
<1>1. s.is_recv /\ ~s.queued
  BY ReaderHas
<1>2. PICK r \in 0 .. 1, t \in 0 .. 1 :
        Fits(s, r, t, u) /\ Row(s.pending_recv, 0, r, s.came - s.read, t)
  BY ReaderHas
<1>3. PICK a \in 0 .. 1 : a = 0
  OBVIOUS
<1>4. Row(v.pending_recv, Waiting(v), r, v.came - v.read, a)
  <2>1. Row(Tail(s.pending_recv), 0, r, s.came - s.read, 0)
    BY <1>2, RowPop
  <2> QED BY <1>1, <1>3, <2>1 DEF Waiting
<1>5. Fits(v, r, a, u)
  BY <1>2, <1>3, <1>4 DEF Fits
<1>6. Told(v, u)
  BY <1>1, <1>5 DEF Told
<1> QED BY <1>1, <1>6 DEF Fine

\* poll_pushed: the promised stream gets a ResponseFuture and loses the request.
LEMMA FineTakePush ==
  ASSUME NEW s, NEW v, NEW u, Fine(s, u), v \in Stream, s.queued,
         v.pending_recv = Tail(s.pending_recv), v.handles = {"response"}, v.queued = FALSE,
         v.state = s.state, v.is_recv = s.is_recv,
         v.came = s.came, v.read = s.read, v.drained = s.drained
  PROVE  Fine(v, u) /\ s.pending_recv # <<>>
<1>1. s.is_recv /\ s.handles = {}
  BY DEF Fine, Told, Readable
<1>2. PICK r \in 0 .. 1, t \in 0 .. 1 : Fits(s, r, t, u)
  BY DEF Fine, Told, Readable
<1>3. Row(s.pending_recv, 1, r, s.came - s.read, t)
  BY <1>2 DEF Fits, Waiting
<1>4. s.pending_recv # <<>> /\ Row(Tail(s.pending_recv), 0, r, s.came - s.read, t)
  BY <1>3, RowPopRequest
<1>5. Row(v.pending_recv, Waiting(v), r, v.came - v.read, t)
  BY <1>4 DEF Waiting
<1>6. Fits(v, r, t, u)
  BY <1>1, <1>2, <1>5 DEF Fits
<1>7. Told(v, u)
  BY <1>1, <1>6 DEF Told
<1> QED BY <1>4, <1>7 DEF Fine

\* A stream that is read as it was, where the end of the data may have been seen.
LEMMA FineDrained ==
  ASSUME NEW s, NEW v, NEW u, Fine(s, u), v \in Stream, v.pending_recv = s.pending_recv,
         v.handles = s.handles, v.is_recv = s.is_recv,
         v.queued = s.queued, v.came = s.came, v.read = s.read, v.state = s.state,
         s.handles # {},
         v.drained => s.drained \/ (s.read = s.came /\ IsRecvClosed(s.state))
  PROVE  Fine(v, u)
<1>1. ASSUME Readable(v) PROVE Told(v, u)
  <2>1. Readable(s)
    BY <1>1 DEF Readable
  <2>2. PICK r \in 0 .. 1, t \in 0 .. 1 : Fits(s, r, t, u)
    BY <2>1 DEF Fine, Told
  <2>3. Row(v.pending_recv, Waiting(v), r, v.came - v.read, t)
    BY <2>2 DEF Fits, Waiting
  <2>4. Fits(v, r, t, u)
    BY <2>2, <2>3 DEF Fits
  <2> QED BY <2>1, <2>4 DEF Told, Fine
<1> QED BY <1>1 DEF Fine

\* A reader of data that finds the trailers, or nothing at all, has read it all.
LEMMA ReadAll ==
  ASSUME NEW s, NEW u, Fine(s, u), "body" \in s.handles
  PROVE  /\ s.pending_recv = <<>> => s.read = s.came
         /\ s.pending_recv # <<>> /\ Head(s.pending_recv) = "trailers"
              => s.read = s.came /\ IsRecvClosed(s.state)
         /\ s.pending_recv # <<>> => Head(s.pending_recv) \in {"data", "trailers"}
         /\ s.drained => s.pending_recv = <<>> \/ Head(s.pending_recv) = "trailers"
<1>1. PICK r \in 0 .. 1, t \in 0 .. 1 :
        Fits(s, r, t, u) /\ Row(s.pending_recv, 0, r, s.came - s.read, t)
  BY ReaderHas
<1>2. s.came \in Nat /\ s.read \in Nat
  BY StreamFields DEF Fine
<1>3. r = 0
  BY <1>1 DEF Fits
<1>4. /\ s.pending_recv = <<>> => s.came - s.read = 0
      /\ s.pending_recv # <<>> /\ Head(s.pending_recv) = "data" => s.came - s.read > 0
      /\ s.pending_recv # <<>> /\ Head(s.pending_recv) = "trailers" => s.came - s.read = 0 /\ t = 1
      /\ s.pending_recv # <<>> /\ Head(s.pending_recv) = "response" => r = 1
      /\ s.pending_recv # <<>> => Head(s.pending_recv) \in {"response", "data", "trailers"}
  BY <1>1, RowFront
<1>5. s.came - s.read = 0 <=> s.read = s.came
  BY <1>2
<1>6. s.pending_recv # <<>> => Head(s.pending_recv) \in {"data", "trailers"}
  BY <1>3, <1>4
<1>7. t = 1 => IsRecvClosed(s.state)
  BY <1>1 DEF Fits
<1>8. s.drained => s.read = s.came
  BY DEF Fine
<1>9. s.drained => ~(s.pending_recv # <<>> /\ Head(s.pending_recv) = "data")
  BY <1>2, <1>4, <1>8
<1> QED BY <1>4, <1>5, <1>6, <1>7, <1>9

\* A reader of the response finds it in front, or nothing.
LEMMA ResponseInFront ==
  ASSUME NEW s, NEW u, Fine(s, u), "response" \in s.handles
  PROVE  /\ s.pending_recv # <<>> => Head(s.pending_recv) = "response"
         /\ s.pending_recv = <<>> /\ "oneway" \notin u /\ ~IsReset(s.state)
              => ~IsRecvClosed(s.state)
<1>1. PICK r \in 0 .. 1, t \in 0 .. 1 :
        Fits(s, r, t, u) /\ Row(s.pending_recv, 0, r, s.came - s.read, t)
  BY ReaderHas
<1>2. "body" \notin s.handles
  BY DEF Fine
<1>3. CASE r = 1
  BY <1>1, <1>3, RowFront
<1>4. CASE r = 0
  <2>1. t = 0 /\ s.came = s.read
    BY <1>1, <1>2, <1>4 DEF Fits
  <2>2. s.came - s.read = 0
    BY <2>1, StreamFields DEF Fine
  <2>3. Len(s.pending_recv) = 0 /\ s.pending_recv \in Seq(Event)
    BY <1>1, <1>4, <2>1, <2>2 DEF Row
  <2>4. s.pending_recv = <<>>
    BY <2>3, EmptySeq
  <2>5. "oneway" \notin u /\ ~IsReset(s.state) => ~IsRecvClosed(s.state)
    BY <1>1, <1>2, <1>4 DEF Fits
  <2> QED BY <2>4, <2>5
<1> QED BY <1>3, <1>4

\* drop_stream_ref, the last handle: the stream is over and what it had is given back.
LEMMA FineDropLast ==
  ASSUME NEW s, NEW v, NEW u, Fine(s, u), v \in Stream, v.handles = {}, ~v.queued,
         IsClosed(v.state), v.came = s.came, v.read = s.read, v.drained = s.drained,
         "unread" \notin u => v.in_flight_recv_data = 0 /\ v.pending_recv = <<>>
  PROVE  Fine(v, u)
<1>1. IsRecvClosed(v.state)
  BY StreamFields, Sides
<1>2. ~Readable(v)
  BY DEF Readable
<1> QED BY <1>1, <1>2 DEF Fine, Abandoned

\* Another holds the stream.
LEMMA FineDropBody ==
  ASSUME NEW s, NEW v, NEW u, Fine(s, u), v \in Stream, "body" \in s.handles,
         v.handles = s.handles \ {"body"}, v.handles # {}, v.queued = s.queued,
         v.state = s.state, v.came = s.came, v.read = s.read, v.drained = s.drained,
         "pushes" \in s.handles => "dropbody" \in u
  PROVE  Fine(v, u)
<1>1. ~s.queued /\ "response" \notin s.handles
  BY DEF Fine
<1>2. ~Readable(v)
  BY <1>1 DEF Readable
<1> QED BY <1>1, <1>2 DEF Fine

\* Another handle is dropped: the readers keep what they had.
LEMMA FineDropOther ==
  ASSUME NEW s, NEW v, NEW u, Fine(s, u), v \in Stream, NEW h \in s.handles, h # "body",
         v.handles = s.handles \ {h}, v.handles # {}, v.queued = s.queued,
         v.pending_recv = s.pending_recv, v.is_recv = s.is_recv,
         v.state = s.state, v.came = s.came, v.read = s.read, v.drained = s.drained
  PROVE  Fine(v, u)
<1>1. "body" \in v.handles <=> "body" \in s.handles
  OBVIOUS
<1>2. "response" \in v.handles => "response" \in s.handles
  OBVIOUS
<1>3. ~s.queued
  BY DEF Fine
<1>4. ASSUME Readable(v) PROVE Told(v, u)
  <2>1. Readable(s)
    BY <1>1, <1>2, <1>4 DEF Readable
  <2>2. PICK r \in 0 .. 1, t \in 0 .. 1 : Fits(s, r, t, u)
    BY <2>1 DEF Fine, Told
  <2>3. Row(v.pending_recv, Waiting(v), r, v.came - v.read, t)
    BY <2>2 DEF Fits, Waiting
  <2>4. Fits(v, r, t, u)
    BY <1>1, <2>2, <2>3 DEF Fits
  <2> QED BY <2>1, <2>4 DEF Told, Fine
<1> QED BY <1>1, <1>2, <1>3, <1>4 DEF Fine

\* The values of a new stream.
LEMMA NewFields ==
  ASSUME NEW a \in State, NEW h \in SUBSET Handle
  PROVE  /\ New(a, h) \in Stream
         /\ New(a, h).state = a /\ New(a, h).handles = h /\ New(a, h).pending_recv = <<>>
         /\ New(a, h).recv_task = "none" /\ New(a, h).is_recv = TRUE
         /\ New(a, h).in_flight_recv_data = 0 /\ New(a, h).queued = FALSE
         /\ New(a, h).sending = "no" /\ New(a, h).came = 0 /\ New(a, h).read = 0
         /\ New(a, h).drained = FALSE
<1>1. <<>> \in Seq(Event)
  BY EmptySeq
<1> QED BY <1>1 DEF New, Stream

\* A stream out of the slab.
LEMMA GoneFields ==
  ASSUME NEW u
  PROVE  /\ Gone \in Stream /\ Gone.handles = {} /\ Gone.queued = FALSE
         /\ Gone.pending_recv = <<>> /\ Gone.in_flight_recv_data = 0 /\ Fine(Gone, u)
         /\ Released(Gone)
<1>1. Closed("EndStream") \in State /\ IsClosed(Closed("EndStream"))
  BY StateValues, ClosedValues DEF Causes
<1>2. Gone = New(Closed("EndStream"), {})
  BY DEF Gone
<1>3. /\ Gone \in Stream /\ Gone.state = Closed("EndStream") /\ Gone.handles = {}
      /\ Gone.pending_recv = <<>> /\ Gone.is_recv = TRUE
      /\ Gone.in_flight_recv_data = 0 /\ Gone.queued = FALSE /\ Gone.sending = "no"
      /\ Gone.drained = FALSE
  <2>1. {} \in SUBSET Handle
    OBVIOUS
  <2>2. Gone \in Stream
    BY <1>1, <1>2, <2>1, NewFields
  <2>3. /\ Gone.state = Closed("EndStream") /\ Gone.handles = {}
        /\ Gone.pending_recv = <<>> /\ Gone.is_recv = TRUE
        /\ Gone.in_flight_recv_data = 0 /\ Gone.queued = FALSE /\ Gone.sending = "no"
        /\ Gone.drained = FALSE
    BY DEF Gone, New
  <2> QED BY <2>2, <2>3
<1>4. Fine(Gone, u)
  BY <1>1, <1>3 DEF Fine, Abandoned, Readable
<1> QED BY <1>1, <1>3, <1>4 DEF Released, Done

\* A request that was just sent.
LEMMA FineRequest ==
  ASSUME NEW a \in State, ~IsRecvStreaming(a), ~IsRecvClosed(a),
         NEW h \in SUBSET Handle, "body" \notin h, h # {}, NEW u
  PROVE  Fine(New(a, h), u)
<1> SUFFICES ASSUME NEW s, s = New(a, h) PROVE Fine(s, u)
  OBVIOUS
<1>1. /\ s \in Stream /\ s.state = a /\ s.handles = h
      /\ s.pending_recv = <<>> /\ s.is_recv = TRUE /\ s.queued = FALSE
      /\ s.came = 0 /\ s.read = 0 /\ s.drained = FALSE
  <2>1. New(a, h) \in Stream
    BY NewFields
  <2> QED BY <2>1 DEF New
<1>2. PICK r \in 0 .. 1 : r = 0
  OBVIOUS
<1>3. Row(s.pending_recv, Waiting(s), r, s.came - s.read, r)
  <2>1. Len(<<>>) = 0 /\ <<>> \in Seq(Event)
    BY EmptySeq
  <2>2. Waiting(s) = 0 /\ s.came - s.read = 0
    BY <1>1 DEF Waiting
  <2>3. Row(<<>>, 0, r, 0, r)
    BY <1>2, <2>1 DEF Row
  <2> QED BY <1>1, <2>2, <2>3
<1>4. Fits(s, r, r, u)
  BY <1>1, <1>2, <1>3 DEF Fits
<1>5. Told(s, u)
  BY <1>1, <1>4 DEF Told
<1> QED BY <1>1, <1>5 DEF Fine

\* Recv::recv_push_promise: a promised stream, with its request.
LEMMA FinePromised ==
  ASSUME NEW v, NEW u, v \in Stream, v.state = ReservedRemote, v.handles = {}, v.queued,
         v.pending_recv = <<"request">>, v.is_recv, v.came = 0, v.read = 0, ~v.drained
  PROVE  Fine(v, u)
<1>1. ~IsRecvStreaming(v.state) /\ ~IsRecvClosed(v.state)
  BY DEF IsRecvStreaming, IsRecvClosed, ReservedRemote, Value
<1>2. PICK r \in 0 .. 1 : r = 0
  OBVIOUS
<1>3. Row(v.pending_recv, Waiting(v), r, v.came - v.read, r)
  <2>1. Waiting(v) = 1 /\ v.came - v.read = 0
    BY DEF Waiting
  <2>2. Row(<<"request">>, 1, r, 0, r)
    BY <1>2 DEF Row, Kind, Event
  <2> QED BY <2>1, <2>2
<1>4. Fits(v, r, r, u)
  BY <1>1, <1>2, <1>3 DEF Fits
<1>5. Told(v, u)
  BY <1>4 DEF Told
<1> QED BY <1>5 DEF Fine

\* A promise that is refused.
LEMMA FineRefused ==
  ASSUME NEW v, NEW u, v \in Stream, IsClosed(v.state), v.handles = {}, ~v.queued,
         v.pending_recv = <<>>, v.in_flight_recv_data = 0, ~v.drained
  PROVE  Fine(v, u)
BY DEF Fine, Abandoned, Readable

-----------------------------------------------------------------------------
(* One stream changes, and the rest is as it was.                            *)

Changes(str, str2, i) ==
  /\ i \in Id /\ str \in [Id -> Stream] /\ str2 \in [Id -> Stream]
  /\ \A j \in Id : j # i => str2[j] = str[j]

\* Replacing one stream changes no other.
LEMMA ChangesExcept ==
  ASSUME NEW str \in [Id -> Stream], NEW i \in Id, NEW v \in Stream
  PROVE  Changes(str, [str EXCEPT ![i] = v], i) /\ [str EXCEPT ![i] = v][i] = v
BY DEF Changes

\* The streams are finitely many, and the request is one.
LEMMA IdIsFinite == IsFiniteSet(Id) /\ 0 \in Id /\ Id \subseteq Nat
BY H2ClientAssumption, FS_Interval DEF Id

\* What a connection counts follows the one stream that changes.
LEMMA CoversMoves ==
  ASSUME NEW f, NEW g \in [Id -> Nat], NEW h \in [Id -> Nat], NEW u, Covers(f, g, u),
         NEW i \in Id, \A j \in Id : j # i => h[j] = g[j]
  PROVE  Covers(f + (h[i] - g[i]), h, u)
<1>1. IsFiniteSet(Id) /\ g \in [Id -> Int] /\ h \in [Id -> Int] /\ g[i] \in Nat /\ h[i] \in Nat
  BY IdIsFinite
<1>2. SumOf(h, Id) = SumOf(g, Id) + (h[i] - g[i]) /\ SumOf(g, Id) \in Int
  BY <1>1, SumMoves
<1>3. SumOf(h, Id) \in Nat
  BY <1>1, SumBounds
<1> DEFINE a == SumOf(g, Id)
           b == SumOf(h, Id)
<1>4. f \in Nat /\ a <= f /\ ("unread" \notin u => a = f)
  BY DEF Covers
<1>5. a \in Int /\ b \in Nat /\ b = a + (h[i] - g[i])
  BY <1>2, <1>3
<1>6. f + (h[i] - g[i]) \in Nat /\ b <= f + (h[i] - g[i])
  <2> HIDE DEF a, b
  <2> QED BY <1>1, <1>4, <1>5
<1>7. "unread" \notin u => b = f + (h[i] - g[i])
  <2> HIDE DEF a, b
  <2> QED BY <1>4, <1>5
<1> QED BY <1>6, <1>7 DEF Covers

\* Streams that leave the slab take with them what nobody counts on.
LEMMA CoversDrops ==
  ASSUME NEW f, NEW g \in [Id -> Nat], NEW h \in [Id -> Nat], NEW u, Covers(f, g, u),
         \A j \in Id : h[j] <= g[j], "unread" \notin u => \A j \in Id : h[j] = g[j]
  PROVE  Covers(f, h, u)
<1> DEFINE d == [j \in Id |-> g[j] - h[j]]
<1>1. d \in [Id -> Nat] /\ \A j \in Id : g[j] = h[j] + d[j]
  <2>1. \A j \in Id : g[j] \in Nat /\ h[j] \in Nat /\ g[j] - h[j] \in Nat
    OBVIOUS
  <2> QED BY <2>1
<1>2. IsFiniteSet(Id)
  BY IdIsFinite
<1> HIDE DEF d
<1>3. SumOf(d, Id) \in Nat /\ SumOf(g, Id) \in Nat /\ SumOf(h, Id) \in Nat
  BY <1>1, <1>2, SumBounds
<1>4. SumOf(g, Id) = SumOf(h, Id) + SumOf(d, Id)
  <2>1. g \in [Id -> Int] /\ h \in [Id -> Int] /\ d \in [Id -> Int]
    BY <1>1
  <2> QED BY <1>1, <1>2, <2>1, SumOfSums
<1>5. SumOf(h, Id) <= f
  <2>1. f \in Nat /\ SumOf(g, Id) <= f
    BY DEF Covers
  <2> QED BY <1>3, <1>4, <2>1
<1>6. ASSUME "unread" \notin u PROVE SumOf(h, Id) = f
  <2>1. h = g
    BY <1>6
  <2> QED BY <1>6, <2>1 DEF Covers
<1> QED BY <1>5, <1>6 DEF Covers

\* The functions that are summed.
LEMMA SumTypes ==
  ASSUME NEW str \in [Id -> Stream]
  PROVE  /\ Flights(str) \in [Id -> Nat] /\ Lengths(str) \in [Id -> Nat]
         /\ \A j \in Id : /\ Flights(str)[j] = str[j].in_flight_recv_data
                          /\ Lengths(str)[j] = Len(str[j].pending_recv)
<1>1. \A j \in Id : /\ str[j].in_flight_recv_data \in Nat /\ str[j].pending_recv \in Seq(Event)
                    /\ Len(str[j].pending_recv) \in Nat
  BY StreamFields
<1> QED BY <1>1 DEF Flights, Lengths

\* What one stream is given or gives back, the connection counts.
LEMMA OwedChanges ==
  ASSUME NEW str, NEW str2, NEW i, Changes(str, str2, i), NEW f, NEW b, NEW u, Owed(str, f, b, u),
         NEW f2, f2 = f + (str2[i].in_flight_recv_data - str[i].in_flight_recv_data),
         NEW b2, b2 = b + (Len(str2[i].pending_recv) - Len(str[i].pending_recv))
  PROVE  Owed(str2, f2, b2, u)
<1>1. i \in Id /\ str \in [Id -> Stream] /\ str2 \in [Id -> Stream]
  BY DEF Changes
<1>2. /\ Flights(str) \in [Id -> Nat] /\ Lengths(str) \in [Id -> Nat]
      /\ Flights(str2) \in [Id -> Nat] /\ Lengths(str2) \in [Id -> Nat]
  BY <1>1, SumTypes
<1>3. \A j \in Id : j # i => Flights(str2)[j] = Flights(str)[j] /\ Lengths(str2)[j] = Lengths(str)[j]
  <2> SUFFICES ASSUME NEW j \in Id, j # i
               PROVE  Flights(str2)[j] = Flights(str)[j] /\ Lengths(str2)[j] = Lengths(str)[j]
    OBVIOUS
  <2>1. str2[j] = str[j]
    BY DEF Changes
  <2> QED BY <2>1 DEF Flights, Lengths
<1>4. f2 = f + (Flights(str2)[i] - Flights(str)[i]) /\ b2 = b + (Lengths(str2)[i] - Lengths(str)[i])
  BY <1>1, SumTypes
<1>5. Covers(f, Flights(str), u) /\ Covers(b, Lengths(str), u)
  BY DEF Owed
<1>6. Covers(f2, Flights(str2), u)
  BY <1>1, <1>2, <1>3, <1>4, <1>5, CoversMoves
<1>7. Covers(b2, Lengths(str2), u)
  BY <1>1, <1>2, <1>3, <1>4, <1>5, CoversMoves
<1> QED BY <1>6, <1>7 DEF Owed

\* Nothing to count changes.
LEMMA OwedSame ==
  ASSUME NEW str \in [Id -> Stream], NEW str2 \in [Id -> Stream],
         NEW f, NEW b, NEW u, Owed(str, f, b, u),
         \A j \in Id : /\ str2[j].in_flight_recv_data = str[j].in_flight_recv_data
                       /\ str2[j].pending_recv = str[j].pending_recv
  PROVE  Owed(str2, f, b, u)
<1>1. Flights(str2) = Flights(str) /\ Lengths(str2) = Lengths(str)
  BY DEF Flights, Lengths
<1> QED BY <1>1 DEF Owed

\* What a connection counts is a number, and covers what one stream holds.
LEMMA OwedBounds ==
  ASSUME NEW str \in [Id -> Stream], NEW f, NEW b, NEW u, Owed(str, f, b, u), NEW i \in Id
  PROVE  /\ f \in Nat /\ b \in Nat
         /\ str[i].in_flight_recv_data <= f /\ Len(str[i].pending_recv) <= b
<1> DEFINE g == Flights(str)
           h == Lengths(str)
<1>1. g \in [Id -> Nat] /\ h \in [Id -> Nat]
  BY SumTypes
<1>2. g[i] = str[i].in_flight_recv_data /\ h[i] = Len(str[i].pending_recv)
  BY SumTypes
<1>3. f \in Nat /\ SumOf(g, Id) <= f /\ b \in Nat /\ SumOf(h, Id) <= b
  BY DEF Owed, Covers
<1> HIDE DEF g, h
<1>4. /\ SumOf(g, Id) \in Nat /\ g[i] <= SumOf(g, Id)
      /\ SumOf(h, Id) \in Nat /\ h[i] <= SumOf(h, Id)
  BY <1>1, IdIsFinite, SumBounds
<1>5. g[i] \in Nat /\ h[i] \in Nat
  BY <1>1
<1> QED BY <1>2, <1>3, <1>4, <1>5

\* A stream of the book that changes and stays in the queue, or out of it.
LEMMA BookChanges ==
  ASSUME NEW str, NEW str2, NEW i, Changes(str, str2, i), NEW q, NEW n, NEW u,
         Book(str, q, n, u), i <= n, Fine(str2[i], u), str2[i].queued <=> str[i].queued,
         i # 0 => "pushes" \notin str2[i].handles, i = 0 /\ q # <<>> => str2[i].handles # {}
  PROVE  Book(str2, q, n, u)
<1>1. i \in Id /\ str2 \in [Id -> Stream] /\ i \in Nat /\ n \in Nat
  BY IdIsFinite DEF Changes, Book
<1>2. \A j \in Id : Kept(str2[j], j, n, u)
  <2>1. Kept(str2[i], i, n, u)
    BY <1>1 DEF Kept
  <2>2. ASSUME NEW j \in Id, j # i PROVE Kept(str2[j], j, n, u)
    <3>1. str2[j] = str[j]
      BY <2>2 DEF Changes
    <3> QED BY <3>1 DEF Book
  <2> QED BY <2>1, <2>2
<1>3. \A j \in Id : str2[j].queued <=> Listed(q, j)
  BY DEF Book, Changes
<1>4. q # <<>> => str2[0].handles # {}
  BY IdIsFinite DEF Book, Changes
<1> QED BY <1>1, <1>2, <1>3, <1>4 DEF Book

\* A stream of the slab is one that there was.
LEMMA Existing ==
  ASSUME CInv, NEW i \in slab
  PROVE  /\ i \in Id /\ i <= promised /\ streams \in [Id -> Stream] /\ streams[i] \in Stream
         /\ Fine(streams[i], uses) /\ (i # 0 => "pushes" \notin streams[i].handles)
         /\ (i = 0 /\ ppp # <<>> => streams[i].handles # {})
<1>1. i \in Id /\ streams \in [Id -> Stream] /\ Kept(streams[i], i, promised, uses)
  BY DEF CInv, Housed, Book
<1>2. streams[i] # Gone
  BY GoneFields DEF CInv
<1>3. i \in Nat /\ promised \in Nat
  BY <1>1, IdIsFinite DEF CInv, Book
<1> QED BY <1>1, <1>2, <1>3 DEF Kept, CInv, Book

-----------------------------------------------------------------------------
(* The calls, while the streams change.                                      *)

\* What is known of every call.
LEMMA CallFacts ==
  ASSUME CInv, NEW x \in pending
  PROVE  /\ x \in Call /\ x[1] \in Id /\ x[2] \in Handle /\ x[2] \in streams[x[1]].handles
         /\ x[3] \in Asks[x[2]] /\ x[1] \in slab
         /\ (x[3] = "pushed" => x[1] = 0 /\ x[2] = "pushes")
         /\ (x[3] = "response" => x[2] = "response")
         /\ (x[3] \in {"data", "trailers"} => x[2] = "body")
         /\ x[3] \in {"response", "pushed", "data", "trailers"}
<1>1. x \in Call /\ Holds(streams[x[1]], x, uses)
  BY DEF CInv, Calls
<1>2. /\ x[1] \in Id /\ x[2] \in Handle /\ x[3] \in Asks[x[2]]
      /\ (x[2] = "pushes" => x[1] = 0)
      /\ x[3] \in {"response", "pushed", "data", "trailers"}
  BY <1>1 DEF Call
<1>3. /\ (x[3] = "pushed" => x[2] = "pushes") /\ (x[3] = "response" => x[2] = "response")
      /\ (x[3] \in {"data", "trailers"} => x[2] = "body")
  BY <1>2 DEF Asks, Handle
<1>4. x[1] \in slab
  BY <1>1, <1>2, GoneFields DEF CInv, Housed, Holds
<1> QED BY <1>1, <1>2, <1>3, <1>4 DEF Holds

\* The handles are as they were, and so is what their readers have seen.
Attended(s, v) == v.handles = s.handles /\ (s.drained => v.drained)

\* Stream::notify_recv: whoever waits for stream i will be polled.
LEMMA CallsNotified ==
  ASSUME CInv, NEW i, NEW str2, Changes(streams, str2, i), Attended(streams[i], str2[i]),
         NEW q, q = ppp \/ i = 0, NEW wok, wok = woken \cup Notified(i)
  PROVE  Calls(str2, q, pending, wok, uses)
<1>1. wok \subseteq pending
  BY DEF CInv, Calls, Notified
<1>2. \A x \in pending : Holds(str2[x[1]], x, uses)
  BY CallFacts DEF CInv, Calls, Holds, Attended, Changes
<1>3. ASSUME uses \subseteq Survived, NEW x \in pending \ wok
      PROVE  Sleeps(str2[x[1]], q, x[3])
  <2>1. Sleeps(streams[x[1]], ppp, x[3])
    BY <1>3 DEF CInv, Calls
  <2>2. "two tasks" \notin uses
    BY <1>3 DEF Survived
  <2>3. x[1] # i
    BY <1>3, <2>1, <2>2 DEF Notified, Sleeps
  <2>4. str2[x[1]] = streams[x[1]]
    BY <2>3, CallFacts DEF Changes
  <2>5. q # ppp => x[3] # "pushed"
    BY <2>3, CallFacts
  <2> QED BY <2>1, <2>4, <2>5 DEF Sleeps, Answers
<1> QED BY <1>1, <1>2, <1>3 DEF Calls, CInv

\* The readers of a stream need not be told of a change.
LEMMA CallsQuiet ==
  ASSUME CInv, NEW i, NEW str2, Changes(streams, str2, i), Attended(streams[i], str2[i]),
         uses \subseteq Survived =>
           \A x \in pending : x[1] = i /\ Sleeps(streams[i], ppp, x[3]) => Sleeps(str2[i], ppp, x[3])
  PROVE  Calls(str2, ppp, pending, woken, uses)
<1>1. \A x \in pending : Holds(str2[x[1]], x, uses)
  BY CallFacts DEF CInv, Calls, Holds, Attended, Changes
<1>2. ASSUME uses \subseteq Survived, NEW x \in pending \ woken
      PROVE  Sleeps(str2[x[1]], ppp, x[3])
  <2>1. Sleeps(streams[x[1]], ppp, x[3])
    BY <1>2 DEF CInv, Calls
  <2>2. x[1] # i => str2[x[1]] = streams[x[1]]
    BY CallFacts DEF Changes
  <2> QED BY <1>2, <2>1, <2>2
<1> QED BY <1>1, <1>2 DEF Calls, CInv

\* Counts::transition_after: what is over leaves the map, and what nobody holds the slab.
LEMMA TransitionKeeps ==
  ASSUME NEW str, Transition(str), uses' = uses, Housed(str, slab, ids),
         Book(str, ppp', promised', uses), Owed(str, in_flight_data', buffer', uses),
         Calls(str, ppp', pending', woken', uses)
  PROVE  CInv'
<1> DEFINE out == {i \in slab : Released(str[i])}
<1>1. /\ streams' = [i \in Id |-> IF i \in out THEN Gone ELSE str[i]]
      /\ ids' = {i \in ids : ~Done(str[i])} /\ slab' = slab \ out
  BY DEF Transition
<1>2. \A i \in out : /\ i \in Id /\ Done(str[i]) /\ str[i].handles = {}
                     /\ str[i].queued = FALSE /\ Fine(str[i], uses)
  <2> SUFFICES ASSUME NEW i \in out
               PROVE  /\ i \in Id /\ Done(str[i]) /\ str[i].handles = {}
                      /\ str[i].queued = FALSE /\ Fine(str[i], uses)
    OBVIOUS
  <2>1. i \in Id /\ Released(str[i])
    BY DEF Housed
  <2>2. Fine(str[i], uses)
    BY <2>1 DEF Book, Kept
  <2>3. str[i].queued \in BOOLEAN
    BY <2>2, StreamFields DEF Fine
  <2> QED BY <2>1, <2>2, <2>3 DEF Released
<1> HIDE DEF out
<1>3. str \in [Id -> Stream] /\ streams' \in [Id -> Stream]
  BY <1>1, GoneFields DEF Book
<1>4. \A i \in Id : /\ i \in out => streams'[i] = Gone
                    /\ i \notin out => streams'[i] = str[i]
  BY <1>1
<1>5. Book(streams', ppp', promised', uses)
  <2>1. \A i \in Id : Kept(streams'[i], i, promised', uses)
    <3> SUFFICES ASSUME NEW i \in Id PROVE Kept(streams'[i], i, promised', uses)
      OBVIOUS
    <3>1. CASE i \in out
      BY <1>4, <3>1, GoneFields DEF Kept
    <3>2. CASE i \notin out
      BY <1>4, <3>2 DEF Book
    <3> QED BY <3>1, <3>2
  <2>2. \A i \in Id : streams'[i].queued <=> str[i].queued
    BY <1>2, <1>4, GoneFields
  <2>3. streams'[0].handles = str[0].handles
    BY <1>2, <1>4, GoneFields, IdIsFinite
  <2> QED BY <1>3, <2>1, <2>2, <2>3 DEF Book
<1>6. Housed(streams', slab', ids')
  <2>1. ids' \subseteq slab' /\ slab' \subseteq Id
    BY <1>1, <1>2 DEF Housed
  <2>2. ASSUME NEW i \in Id \ slab' PROVE streams'[i] = Gone
    <3>1. i \in out \/ i \in Id \ slab
      BY <1>1, <2>2
    <3>2. i \in Id \ slab => str[i] = Gone
      BY DEF Housed
    <3> QED BY <1>4, <3>1, <3>2
  <2> QED BY <2>1, <2>2 DEF Housed
<1>7. \A i \in slab' : ~Released(streams'[i])
  BY <1>1, <1>4 DEF Housed, out
<1>8. Owed(streams', in_flight_data', buffer', uses)
  <2>1. \A i \in Id : streams'[i] = str[i] \/
          /\ streams'[i].in_flight_recv_data = 0 /\ streams'[i].pending_recv = <<>>
          /\ "unread" \notin uses => str[i].in_flight_recv_data = 0 /\ str[i].pending_recv = <<>>
    <3> SUFFICES ASSUME NEW i \in out
                 PROVE  /\ streams'[i].in_flight_recv_data = 0 /\ streams'[i].pending_recv = <<>>
                        /\ "unread" \notin uses =>
                             str[i].in_flight_recv_data = 0 /\ str[i].pending_recv = <<>>
      BY <1>4
    <3>1. Abandoned(str[i], uses)
      BY <1>2 DEF Fine
    <3> QED BY <1>2, <1>4, <3>1, GoneFields DEF Abandoned
  <2>2. /\ Flights(str) \in [Id -> Nat] /\ Lengths(str) \in [Id -> Nat]
        /\ Flights(streams') \in [Id -> Nat] /\ Lengths(streams') \in [Id -> Nat]
    BY <1>3, SumTypes
  <2>3. \A j \in Id : /\ Flights(str)[j] = str[j].in_flight_recv_data
                      /\ Lengths(str)[j] = Len(str[j].pending_recv)
                      /\ Flights(streams')[j] = streams'[j].in_flight_recv_data
                      /\ Lengths(streams')[j] = Len(streams'[j].pending_recv)
    BY <1>3, SumTypes
  <2>4. Len(<<>>) = 0
    OBVIOUS
  <2>5. \A j \in Id : /\ Flights(streams')[j] <= Flights(str)[j]
                      /\ "unread" \notin uses => Flights(streams')[j] = Flights(str)[j]
    <3> SUFFICES ASSUME NEW j \in Id
                 PROVE  /\ Flights(streams')[j] <= Flights(str)[j]
                        /\ "unread" \notin uses => Flights(streams')[j] = Flights(str)[j]
      OBVIOUS
    <3>1. Flights(streams')[j] \in Nat /\ Flights(str)[j] \in Nat
      BY <2>2
    <3>2. CASE streams'[j] = str[j]
      <4>1. Flights(streams')[j] = Flights(str)[j]
        BY <2>3, <3>2
      <4> QED BY <3>1, <4>1
    <3>3. CASE streams'[j] # str[j]
      <4>1. Flights(streams')[j] = 0 /\ ("unread" \notin uses => Flights(str)[j] = 0)
        BY <2>1, <2>3, <3>3
      <4> QED BY <3>1, <4>1
    <3> QED BY <3>2, <3>3
  <2>6. \A j \in Id : /\ Lengths(streams')[j] <= Lengths(str)[j]
                      /\ "unread" \notin uses => Lengths(streams')[j] = Lengths(str)[j]
    <3> SUFFICES ASSUME NEW j \in Id
                 PROVE  /\ Lengths(streams')[j] <= Lengths(str)[j]
                        /\ "unread" \notin uses => Lengths(streams')[j] = Lengths(str)[j]
      OBVIOUS
    <3>1. Lengths(streams')[j] \in Nat /\ Lengths(str)[j] \in Nat
      BY <2>2
    <3>2. CASE streams'[j] = str[j]
      <4>1. Lengths(streams')[j] = Lengths(str)[j]
        BY <2>3, <3>2
      <4> QED BY <3>1, <4>1
    <3>3. CASE streams'[j] # str[j]
      <4>1. Lengths(streams')[j] = 0 /\ ("unread" \notin uses => Lengths(str)[j] = 0)
        BY <2>1, <2>3, <2>4, <3>3
      <4> QED BY <3>1, <4>1
    <3> QED BY <3>2, <3>3
  <2>7. Covers(in_flight_data', Flights(str), uses) /\ Covers(buffer', Lengths(str), uses)
    BY DEF Owed
  <2>8. Covers(in_flight_data', Flights(streams'), uses)
    BY <2>2, <2>5, <2>7, CoversDrops
  <2>9. Covers(buffer', Lengths(streams'), uses)
    BY <2>2, <2>6, <2>7, CoversDrops
  <2> QED BY <2>8, <2>9 DEF Owed
<1>9. Calls(streams', ppp', pending', woken', uses)
  <2>1. \A x \in pending' : streams'[x[1]] = str[x[1]]
    <3> SUFFICES ASSUME NEW x \in pending' PROVE streams'[x[1]] = str[x[1]]
      OBVIOUS
    <3>1. x[1] \in Id /\ str[x[1]].handles # {}
      BY DEF Calls, Holds, Call
    <3> QED BY <1>2, <1>4, <3>1
  <2>2. pending' \subseteq Call /\ woken' \subseteq pending' /\ OneEach(pending')
    BY DEF Calls
  <2>3. \A x \in pending' : Holds(streams'[x[1]], x, uses)
    BY <2>1 DEF Calls
  <2>4. uses \subseteq Survived =>
          \A x \in pending' \ woken' : Sleeps(streams'[x[1]], ppp', x[3])
    BY <2>1 DEF Calls
  <2> QED BY <2>2, <2>3, <2>4 DEF Calls
<1> QED BY <1>5, <1>6, <1>7, <1>8, <1>9 DEF CInv

\* A handler of one stream, with what transition_after does next.
LEMMA AfterKeeps ==
  ASSUME CInv, NEW i \in slab, NEW v \in Stream, After(i, v), uses' = uses, ppp' = ppp,
         promised' = promised, pending' = pending, Fine(v, uses),
         v.handles = streams[i].handles, v.queued <=> streams[i].queued,
         v.drained <=> streams[i].drained,
         in_flight_data' = in_flight_data
                             + (v.in_flight_recv_data - streams[i].in_flight_recv_data),
         buffer' = buffer + (Len(v.pending_recv) - Len(streams[i].pending_recv)),
         \/ woken' = woken \cup Notified(i)
         \/ /\ woken' = woken
            /\ uses \subseteq Survived =>
                 \A x \in pending : x[1] = i /\ Sleeps(streams[i], ppp, x[3]) => Sleeps(v, ppp, x[3])
  PROVE  CInv'
<1> DEFINE str == [streams EXCEPT ![i] = v]
<1>1. Transition(str)
  BY DEF After
<1>2. Changes(streams, str, i) /\ str[i] = v
  BY Existing, ChangesExcept
<1> HIDE DEF str
<1>3. Book(str, ppp', promised', uses)
  <2>1. Book(streams, ppp, promised, uses)
    BY DEF CInv
  <2> QED BY <1>2, <2>1, Existing, BookChanges
<1>4. Housed(str, slab, ids)
  BY <1>2 DEF CInv, Housed, Changes
<1>5. Owed(str, in_flight_data', buffer', uses)
  <2>1. Owed(streams, in_flight_data, buffer, uses)
    BY DEF CInv
  <2> QED BY <1>2, <2>1, OwedChanges
<1>6. Attended(streams[i], str[i])
  BY <1>2 DEF Attended
<1>7. Calls(str, ppp', pending', woken', uses)
  <2>1. CASE woken' = woken \cup Notified(i)
    BY <1>2, <1>6, <2>1, CallsNotified
  <2>2. CASE /\ woken' = woken
             /\ uses \subseteq Survived =>
                  \A x \in pending : x[1] = i /\ Sleeps(streams[i], ppp, x[3]) => Sleeps(v, ppp, x[3])
    BY <1>2, <1>6, <2>2, CallsQuiet
  <2> QED BY <2>1, <2>2
<1> QED BY <1>1, <1>3, <1>4, <1>5, <1>7, TransitionKeeps

\* When nothing is counted, nor kept.
LEMMA AfterSame ==
  ASSUME CInv, NEW i \in slab, NEW v, After(i, v), UNCHANGED conn, pending' = pending,
         Fine(v, uses), Same(streams[i], v), in_flight_data' = in_flight_data, buffer' = buffer,
         \/ woken' = woken \cup Notified(i)
         \/ /\ woken' = woken
            /\ uses \subseteq Survived =>
                 \A x \in pending : x[1] = i /\ Sleeps(streams[i], ppp, x[3]) => Sleeps(v, ppp, x[3])
  PROVE  CInv'
<1>1. in_flight_data \in Nat /\ buffer \in Nat /\ i \in Id /\ streams \in [Id -> Stream]
  BY Existing, OwedBounds DEF CInv
<1>2. /\ v.in_flight_recv_data = streams[i].in_flight_recv_data /\ v.in_flight_recv_data \in Nat
      /\ v.pending_recv = streams[i].pending_recv /\ Len(v.pending_recv) \in Nat
      /\ v \in Stream
  BY StreamFields DEF Same
<1>3. /\ in_flight_data' = in_flight_data
                             + (v.in_flight_recv_data - streams[i].in_flight_recv_data)
      /\ buffer' = buffer + (Len(v.pending_recv) - Len(streams[i].pending_recv))
  BY <1>1, <1>2
<1>4. uses' = uses /\ ppp' = ppp /\ promised' = promised
  BY DEF conn
<1> QED BY <1>2, <1>3, <1>4, AfterKeeps DEF Same

-----------------------------------------------------------------------------
(* The frames of the server.                                                 *)

\* A stream that is listened to is in the slab.
LEMMA ReadingInSlab ==
  ASSUME CInv, NEW i, Reading(i)
  PROVE  i \in slab
BY DEF CInv, Housed, Reading

\* Recv::recv_headers and recv_data: an event is kept and the reader notified.
LEMMA ArriveKeeps ==
  ASSUME CInv, NEW i \in slab, NEW s \in Stream, NEW e \in Event, After(i, Arrived(s, e)),
         UNCHANGED conn, pending' = pending, woken' = woken \cup Notified(i), buffer' = buffer + 1,
         s.handles = streams[i].handles, s.queued = streams[i].queued,
         s.drained = streams[i].drained, s.pending_recv = streams[i].pending_recv,
         in_flight_data' = in_flight_data
                             + (s.in_flight_recv_data - streams[i].in_flight_recv_data),
         Fine(Arrived(s, e), uses)
  PROVE  CInv'
<1> SUFFICES ASSUME NEW v, v = Arrived(s, e) PROVE CInv'
  OBVIOUS
<1>1. /\ v \in Stream /\ v.pending_recv = Append(s.pending_recv, e)
      /\ v.handles = s.handles /\ v.queued = s.queued
      /\ v.in_flight_recv_data = s.in_flight_recv_data /\ v.drained = s.drained
  BY ArrivedFields
<1>2. /\ Len(v.pending_recv) = Len(streams[i].pending_recv) + 1
      /\ Len(streams[i].pending_recv) \in Nat
  BY <1>1, StreamFields, EventsAppend
<1>3. buffer \in Nat
  BY Existing, OwedBounds DEF CInv
<1>4. buffer' = buffer + (Len(v.pending_recv) - Len(streams[i].pending_recv))
  BY <1>2, <1>3
<1>5. uses' = uses /\ ppp' = ppp /\ promised' = promised
  BY DEF conn
<1>6. /\ v.queued <=> streams[i].queued
      /\ v.drained <=> streams[i].drained
      /\ v.handles = streams[i].handles
      /\ in_flight_data' = in_flight_data
                             + (v.in_flight_recv_data - streams[i].in_flight_recv_data)
  BY <1>1
<1>7. After(i, v) /\ Fine(v, uses)
  OBVIOUS
<1> QED BY <1>1, <1>4, <1>5, <1>6, <1>7, AfterKeeps

\* Recv::recv_headers
LEMMA KeepsRecvHeaders ==
  ASSUME CInv, NEW i \in Id, NEW informational \in BOOLEAN, NEW eos \in BOOLEAN,
         RecvHeaders(i, informational, eos)
  PROVE  CInv'
<1> DEFINE a == streams[i].state
           b == RecvOpen(a, eos, informational)
           s == [streams[i] EXCEPT !.state = b]
<1>1. i \in slab
  BY ReadingInSlab DEF RecvHeaders, Listening
<1>2. streams[i] \in Stream /\ Fine(streams[i], uses)
  BY <1>1, Existing
<1>3. a \in State /\ CanRecvOpen(a)
  BY <1>2, StreamFields DEF RecvHeaders
<1>4. /\ b \in State
      /\ eos => IsRecvClosed(b)
      /\ ~informational => ~CanRecvOpen(b)
      /\ informational => ~IsRecvStreaming(b)
      /\ ~eos => ~IsRecvClosed(b)
  BY <1>3, RecvOpens
<1>5. informational /\ eos => "oneway" \in uses
  BY DEF RecvHeaders
<1>6. UNCHANGED conn /\ in_flight_data' = in_flight_data /\ pending' = pending
  BY DEF RecvHeaders
<1>7. IF informational
      THEN After(i, s) /\ UNCHANGED <<buffer, woken>>
      ELSE /\ After(i, Arrived(s, "response"))
           /\ buffer' = buffer + 1 /\ woken' = woken \cup Notified(i)
  BY DEF RecvHeaders
<1> HIDE DEF b
<1>8. /\ Same(streams[i], s) /\ s.state = b /\ s.recv_task = streams[i].recv_task
  BY <1>2, <1>4, StateFieldsMove
<1> HIDE DEF s
<1>9. CASE informational
  <2>1. After(i, s) /\ buffer' = buffer /\ woken' = woken
    BY <1>7, <1>9
  <2>2. Fine(s, uses)
    BY <1>2, <1>3, <1>4, <1>5, <1>8, <1>9, FineInformational
  <2>3. uses \subseteq Survived =>
          \A x \in pending : x[1] = i /\ Sleeps(streams[i], ppp, x[3]) => Sleeps(s, ppp, x[3])
    <3>1. uses \subseteq Survived => ~IsRecvClosed(s.state)
      BY <1>4, <1>5, <1>8, <1>9 DEF Survived
    <3> QED BY <1>8, <3>1 DEF Sleeps, Answers, First, Same
  <2> QED BY <1>1, <1>6, <1>8, <2>1, <2>2, <2>3, AfterSame
<1>10. CASE ~informational
  <2> DEFINE v == Arrived(s, "response")
  <2>1. After(i, v) /\ buffer' = buffer + 1 /\ woken' = woken \cup Notified(i)
    BY <1>7, <1>10
  <2>2. s \in Stream /\ "response" \in Event
    BY <1>8 DEF Same, Event
  <2>3. /\ v \in Stream /\ v.pending_recv = Append(s.pending_recv, "response")
        /\ v.state = s.state /\ v.handles = s.handles /\ v.is_recv = s.is_recv
        /\ v.queued = s.queued /\ v.in_flight_recv_data = s.in_flight_recv_data
        /\ v.came = s.came /\ v.read = s.read /\ v.drained = s.drained
    BY <2>2, ArrivedFields
  <2> HIDE DEF v
  <2>4. Gains(streams[i], v, "response") /\ v.came = streams[i].came
    BY <1>8, <2>3 DEF Gains, Same
  <2>5. Fine(v, uses)
    BY <1>2, <1>3, <1>4, <1>8, <1>10, <2>3, <2>4, FineResponse
  <2>6. in_flight_data' = in_flight_data
                            + (s.in_flight_recv_data - streams[i].in_flight_recv_data)
    <3>1. in_flight_data \in Nat /\ s.in_flight_recv_data \in Nat
      BY <1>1, <2>2, Existing, StreamFields, OwedBounds DEF CInv
    <3> QED BY <1>6, <1>8, <3>1 DEF Same
  <2> QED BY <1>1, <1>6, <1>8, <2>1, <2>2, <2>5, <2>6, ArriveKeeps DEF Same, v
<1> QED BY <1>9, <1>10

\* Recv::recv_trailers
LEMMA KeepsRecvTrailers ==
  ASSUME CInv, NEW i \in Id, RecvTrailers(i)
  PROVE  CInv'
<1> DEFINE a == streams[i].state
           s == [streams[i] EXCEPT !.state = RecvClose(a)]
           v == Arrived(s, "trailers")
<1>1. i \in slab
  BY ReadingInSlab DEF RecvTrailers, Listening
<1>2. streams[i] \in Stream /\ Fine(streams[i], uses) /\ streams[i] \in Stream
  BY <1>1, Existing
<1>3. a \in State /\ IsRecvStreaming(a)
  BY <1>2, StreamFields DEF RecvTrailers
<1>4. RecvClose(a) \in State
  BY <1>3, RecvCloses
<1>5. Same(streams[i], s) /\ s.state = RecvClose(a)
  BY <1>2, <1>4, StateFieldsMove
<1>6. /\ UNCHANGED conn /\ in_flight_data' = in_flight_data /\ pending' = pending
      /\ buffer' = buffer + 1 /\ woken' = woken \cup Notified(i) /\ After(i, v)
  BY DEF RecvTrailers
<1> HIDE DEF s
<1>7. s \in Stream /\ "trailers" \in Event
  BY <1>5 DEF Same, Event
<1>8. /\ v \in Stream /\ v.pending_recv = Append(s.pending_recv, "trailers")
      /\ v.state = s.state /\ v.handles = s.handles /\ v.is_recv = s.is_recv
      /\ v.queued = s.queued /\ v.came = s.came /\ v.read = s.read /\ v.drained = s.drained
  BY <1>7, ArrivedFields
<1> HIDE DEF v
<1>9. Gains(streams[i], v, "trailers") /\ v.came = streams[i].came
  BY <1>5, <1>8 DEF Gains, Same
<1>10. Fine(v, uses)
  BY <1>2, <1>3, <1>5, <1>8, <1>9, FineTrailers
<1>11. in_flight_data' = in_flight_data
                           + (s.in_flight_recv_data - streams[i].in_flight_recv_data)
  <2>1. in_flight_data \in Nat /\ s.in_flight_recv_data \in Nat
    BY <1>1, <1>7, Existing, StreamFields, OwedBounds DEF CInv
  <2> QED BY <1>5, <1>6, <2>1 DEF Same
<1> QED BY <1>1, <1>5, <1>6, <1>7, <1>10, <1>11, ArriveKeeps DEF Same, v

\* Recv::recv_data, for a reader or for none.
LEMMA KeepsRecvData ==
  ASSUME CInv, NEW i \in Id, NEW eos \in BOOLEAN, RecvData(i, eos)
  PROVE  CInv'
<1> DEFINE a == streams[i].state
           s == IF eos THEN [streams[i] EXCEPT !.state = RecvClose(a)] ELSE streams[i]
           g == [s EXCEPT !.came = @ + 1, !.in_flight_recv_data = @ + 1]
           v == Arrived(g, "data")
<1>1. i \in slab
  BY ReadingInSlab DEF RecvData, Listening
<1>2. streams[i] \in Stream /\ Fine(streams[i], uses)
  BY <1>1, Existing
<1>3. a \in State /\ IsRecvStreaming(a)
  BY <1>2, StreamFields DEF RecvData
<1>4. RecvClose(a) \in State
  BY <1>3, RecvCloses
<1>5. /\ Same(streams[i], s) /\ (s.state = a \/ s.state = RecvClose(a))
      /\ s.recv_task = streams[i].recv_task
  <2>1. CASE eos
    BY <1>2, <1>4, <2>1, StateFieldsMove
  <2>2. CASE ~eos
    BY <1>2, <2>2 DEF Same
  <2> QED BY <2>1, <2>2
<1>6. UNCHANGED conn /\ pending' = pending
  BY DEF RecvData
<1>7. IF ~s.is_recv
      THEN After(i, s) /\ UNCHANGED <<buffer, woken, in_flight_data>>
      ELSE /\ After(i, v)
           /\ buffer' = buffer + 1 /\ woken' = woken \cup Notified(i)
           /\ in_flight_data' = in_flight_data + 1
  BY DEF RecvData
<1> HIDE DEF s
<1>8. CASE ~s.is_recv
  <2>1. After(i, s) /\ buffer' = buffer /\ woken' = woken /\ in_flight_data' = in_flight_data
    BY <1>7, <1>8
  <2>2. Fine(s, uses) /\ ~streams[i].is_recv
    <3>1. ~streams[i].is_recv
      BY <1>5, <1>8 DEF Same
    <3> QED BY <1>2, <1>3, <1>5, <3>1, FineUnwanted
  <2>3. uses \subseteq Survived => \A x \in pending : x[1] # i
    <3> SUFFICES ASSUME uses \subseteq Survived, NEW x \in pending, x[1] = i PROVE FALSE
      OBVIOUS
    <3>1. "dropbody" \notin uses
      BY DEF Survived
    <3>2. /\ "pushes" \notin streams[i].handles /\ "response" \notin streams[i].handles
          /\ "body" \notin streams[i].handles
      BY <1>2, <2>2, <3>1 DEF Fine, Told, Readable
    <3>3. x[2] \in streams[i].handles /\ x[3] \in Asks[x[2]] /\ x[2] \in Handle
      BY CallFacts
    <3> QED BY <3>2, <3>3 DEF Handle, Asks
  <2> QED BY <1>1, <1>5, <1>6, <2>1, <2>2, <2>3, AfterSame
<1>9. CASE s.is_recv
  <2>1. /\ After(i, v)
        /\ buffer' = buffer + 1 /\ woken' = woken \cup Notified(i)
        /\ in_flight_data' = in_flight_data + 1
    BY <1>7, <1>9
  <2>2. s \in Stream
    BY <1>5 DEF Same
  <2>3. /\ g \in Stream /\ g.came = s.came + 1
        /\ g.in_flight_recv_data = s.in_flight_recv_data + 1
        /\ g.state = s.state /\ g.handles = s.handles /\ g.is_recv = s.is_recv
        /\ g.queued = s.queued /\ g.read = s.read /\ g.drained = s.drained
        /\ g.pending_recv = s.pending_recv
    <3>1. PICK c \in Nat, f \in Nat : c = s.came + 1 /\ f = s.in_flight_recv_data + 1
      BY <2>2, StreamFields
    <3>2. g = [s EXCEPT !.came = c, !.in_flight_recv_data = f]
      BY <3>1
    <3> HIDE DEF g
    <3>3. /\ g \in Stream /\ g.came = c /\ g.in_flight_recv_data = f
          /\ g.state = s.state /\ g.handles = s.handles /\ g.is_recv = s.is_recv
          /\ g.queued = s.queued /\ g.read = s.read /\ g.drained = s.drained
          /\ g.pending_recv = s.pending_recv
      BY <2>2, <3>2 DEF Stream
    <3> QED BY <3>1, <3>3, Zenon
  <2> HIDE DEF g
  <2>4. "data" \in Event
    BY DEF Event
  <2>5. /\ v \in Stream /\ v.pending_recv = Append(g.pending_recv, "data")
        /\ v.state = g.state /\ v.handles = g.handles /\ v.is_recv = g.is_recv
        /\ v.queued = g.queued /\ v.came = g.came /\ v.read = g.read /\ v.drained = g.drained
    BY <2>3, <2>4, ArrivedFields
  <2> HIDE DEF v
  <2>6. Gains(streams[i], v, "data") /\ v.came = streams[i].came + 1
    BY <1>5, <2>3, <2>5 DEF Gains, Same
  <2>7. Fine(v, uses)
    <3>1. v.state = a \/ v.state = RecvClose(a)
      BY <1>5, <2>3, <2>5
    <3> QED BY <1>2, <1>3, <2>6, <3>1, FineData
  <2>8. in_flight_data' = in_flight_data
                            + (g.in_flight_recv_data - streams[i].in_flight_recv_data)
    <3>1. in_flight_data \in Nat /\ s.in_flight_recv_data \in Nat
      BY <1>1, <2>2, Existing, StreamFields, OwedBounds DEF CInv
    <3> QED BY <1>5, <2>1, <2>3, <3>1 DEF Same
  <2>9. /\ g.handles = streams[i].handles /\ g.queued = streams[i].queued
        /\ g.drained = streams[i].drained /\ g.pending_recv = streams[i].pending_recv
    BY <1>5, <2>3 DEF Same
  <2> QED BY <1>1, <1>6, <2>1, <2>3, <2>4, <2>7, <2>8, <2>9, ArriveKeeps DEF v
<1> QED BY <1>8, <1>9

\* reset_on_recv_stream_err
LEMMA KeepsRecvMismatch ==
  ASSUME CInv, NEW i \in Id, RecvMismatch(i)
  PROVE  CInv'
<1> DEFINE v == SendReset(streams[i])
<1>1. i \in slab
  BY ReadingInSlab DEF RecvMismatch, Listening
<1>2. streams[i] \in Stream /\ Fine(streams[i], uses)
  BY <1>1, Existing
<1>3. Same(streams[i], v) /\ Follows(streams[i].state, v.state)
  BY <1>2, SendResetFields
<1>4. /\ UNCHANGED conn /\ in_flight_data' = in_flight_data /\ pending' = pending
      /\ buffer' = buffer /\ woken' = woken /\ After(i, v) /\ "mismatch" \in uses
  BY DEF RecvMismatch
<1> HIDE DEF v
<1>5. Fine(v, uses)
  BY <1>2, <1>3, FineFollows
<1>6. ~(uses \subseteq Survived)
  BY <1>4 DEF Survived
<1> QED BY <1>1, <1>3, <1>4, <1>5, <1>6, AfterSame

\* Recv::recv_reset
LEMMA KeepsRecvRst ==
  ASSUME CInv, NEW i \in Id, RecvRst(i)
  PROVE  CInv'
<1> DEFINE b == RecvReset(streams[i].state, streams[i].sending # "no")
           s == [streams[i] EXCEPT !.state = b]
           v == ClearSend(Notify(s))
<1>1. i \in slab
  BY ReadingInSlab DEF RecvRst
<1>2. streams[i] \in Stream /\ Fine(streams[i], uses)
  BY <1>1, Existing
<1>3. Follows(streams[i].state, b)
  <2>1. streams[i].state \in State /\ (streams[i].sending # "no") \in BOOLEAN
    BY <1>2, StreamFields
  <2> QED BY <2>1, FollowsReset
<1>4. After(i, v)
  BY DEF RecvRst
<1>5. /\ UNCHANGED conn /\ in_flight_data' = in_flight_data /\ pending' = pending
      /\ buffer' = buffer /\ woken' = woken \cup Notified(i)
  BY DEF RecvRst
<1> HIDE DEF b
<1>6. Same(streams[i], s) /\ s.state = b
  BY <1>2, <1>3, StateFieldsMove DEF Follows
<1> HIDE DEF s
<1>7. Same(s, Notify(s)) /\ Notify(s).state = b
  BY <1>6, NotifyFields DEF Same
<1>8. Same(Notify(s), v) /\ v.state = b
  BY <1>7, ClearSendFields DEF Same
<1> HIDE DEF v
<1>9. Same(streams[i], v)
  BY <1>6, <1>7, <1>8 DEF Same
<1>10. Fine(v, uses)
  BY <1>2, <1>3, <1>8, <1>9, FineFollows
<1> QED BY <1>1, <1>4, <1>5, <1>9, <1>10, AfterSame

\* Prioritize::pop_frame, of a RST_STREAM or of nothing.
LEMMA KeepsPopFrame ==
  ASSUME CInv, NEW i \in Id, PopFrame(i)
  PROVE  CInv'
<1> DEFINE b == IF IsScheduledReset(streams[i].state) THEN SetReset ELSE streams[i].state
           v == [streams[i] EXCEPT !.sending = "no", !.state = b]
<1>1. i \in slab
  BY DEF PopFrame
<1>2. streams[i] \in Stream /\ Fine(streams[i], uses) /\ streams[i].state \in State
  BY <1>1, Existing, StreamFields
<1>3. After(i, v)
  <2>1. v = [streams[i] EXCEPT !.sending = "no",
               !.state = IF IsScheduledReset(@) THEN SetReset ELSE @]
    BY <1>2 DEF Stream
  <2> QED BY <2>1 DEF PopFrame
<1>4. /\ UNCHANGED conn /\ in_flight_data' = in_flight_data /\ pending' = pending
      /\ buffer' = buffer /\ woken' = woken
  BY DEF PopFrame
<1>5. Follows(streams[i].state, b)
  BY <1>2, FollowsReset
<1>6. IsRecvClosed(b) => IsRecvClosed(streams[i].state)
  BY <1>2, Sides
<1> HIDE DEF b
<1>7. Same(streams[i], v) /\ v.state = b /\ v.recv_task = streams[i].recv_task
  BY <1>2, <1>5 DEF Stream, Same, Follows
<1> HIDE DEF v
<1>8. Fine(v, uses)
  BY <1>2, <1>5, <1>7, FineFollows
<1>9. \A x \in pending : Sleeps(streams[i], ppp, x[3]) => Sleeps(v, ppp, x[3])
  BY <1>6, <1>7 DEF Sleeps, Answers, First, Same
<1> QED BY <1>1, <1>3, <1>4, <1>7, <1>8, <1>9, AfterSame

\* recv_push_promise: the promised stream waits in the queue of the request.
LEMMA KeepsRecvPushPromise ==
  ASSUME CInv, RecvPushPromise
  PROVE  CInv'
<1> DEFINE c == promised + 1
           v == [New(ReservedRemote, {}) EXCEPT !.pending_recv = <<"request">>, !.queued = TRUE]
           mid == [streams EXCEPT ![0] = Notify(streams[0])]
<1>1. 0 \in slab
  BY ReadingInSlab DEF RecvPushPromise, Listening
<1>2. streams[0] \in Stream /\ Fine(streams[0], uses) /\ streams \in [Id -> Stream]
  BY <1>1, Existing
<1>3. c \in Id /\ c # 0 /\ c \in 0 .. MaxPush /\ c > promised /\ promised \in Nat
  BY H2ClientAssumption DEF Id, RecvPushPromise, CInv, Book
<1>4. streams[c] = Gone
  BY <1>3 DEF CInv, Book, Kept
<1>5. /\ v \in Stream /\ v.state = ReservedRemote /\ v.handles = {} /\ v.queued
      /\ v.pending_recv = <<"request">> /\ v.is_recv /\ v.came = 0 /\ v.read = 0 /\ ~v.drained
      /\ v.in_flight_recv_data = 0
  <2>1. ReservedRemote \in State /\ {} \in SUBSET Handle
    BY DEF State
  <2>2. /\ New(ReservedRemote, {}) \in Stream
    BY <2>1, NewFields
  <2>3. <<"request">> \in Seq(Event)
    BY DEF Event
  <2> QED BY <2>2, <2>3 DEF Stream, New
<1>6. /\ streams' = [streams EXCEPT ![c] = v, ![0] = Notify(@)]
      /\ slab' = slab \cup {c} /\ ids' = ids \cup {c}
      /\ ppp' = Append(ppp, c) /\ promised' = c
      /\ buffer' = buffer + 1 /\ woken' = woken \cup Notified(0)
      /\ uses' = uses /\ in_flight_data' = in_flight_data /\ pending' = pending
  BY DEF RecvPushPromise
<1>7. ~IsClosed(streams[0].state)
  BY <1>2, StreamFields, Sides DEF RecvPushPromise
<1> HIDE DEF c, v
<1>8. Same(streams[0], Notify(streams[0])) /\ Notify(streams[0]).state = streams[0].state
  BY <1>2, NotifyFields
<1>9. Changes(streams, mid, 0) /\ mid[0] = Notify(streams[0])
  BY <1>2, <1>8, ChangesExcept, IdIsFinite DEF Same
<1>10. streams' = [mid EXCEPT ![c] = v]
  BY <1>2, <1>3, <1>6, IdIsFinite
<1> HIDE DEF mid
<1>11. Changes(mid, streams', c) /\ streams'[c] = v /\ mid[c] = Gone
  BY <1>3, <1>4, <1>5, <1>9, <1>10, ChangesExcept DEF Changes
<1>12. /\ streams'[0] = Notify(streams[0])
       /\ \A j \in Id : j # 0 /\ j # c => streams'[j] = streams[j]
       /\ streams' \in [Id -> Stream]
  BY <1>3, <1>9, <1>11, IdIsFinite DEF Changes
<1>13. streams[0].handles # {}
  <2>1. ~streams[0].queued
    BY <1>2, IdIsFinite DEF CInv, Book, Listed, Queue
  <2> QED BY <1>2, <1>7, <2>1, OpenIsHeld
<1>14. Queue(ppp', c) /\ \A i \in Id : Listed(ppp', i) <=> Listed(ppp, i) \/ i = c
  <2>1. Queue(ppp, promised)
    BY DEF CInv, Book
  <2>2. ppp \in Seq(1 .. c) /\ c \in 1 .. c /\ Len(ppp) \in Nat
    <3>1. 1 .. promised \subseteq 1 .. c /\ c \in 1 .. c
      BY <1>3 DEF c
    <3>2. ppp \in Seq(1 .. promised)
      BY <2>1 DEF Queue
    <3>3. Len(ppp) \in Nat /\ ppp \in Seq(1 .. c)
      <4> DEFINE A == 1 .. promised
                 B == 1 .. c
      <4>1. A \subseteq B /\ ppp \in Seq(A)
        BY <3>1, <3>2
      <4> HIDE DEF A, B
      <4>2. Len(ppp) \in Nat /\ ppp \in Seq(B)
        BY <4>1
      <4> QED BY <4>2 DEF B
    <3> QED BY <3>1, <3>3
  <2>3. \A j \in 1 .. Len(ppp) : ppp[j] # c
    <3>1. \A j \in 1 .. Len(ppp) : ppp[j] \in 1 .. promised
      BY <2>1, ElementOfSeq DEF Queue
    <3> QED BY <1>3, <3>1
  <2>4. /\ ppp' \in Seq(1 .. c) /\ Len(ppp') = Len(ppp) + 1 /\ ppp'[Len(ppp) + 1] = c
        /\ \A j \in 1 .. Len(ppp) : ppp'[j] = ppp[j]
    BY <1>6, <2>2, AppendProperties
  <2>5. ASSUME NEW j \in 1 .. Len(ppp'), NEW m \in 1 .. Len(ppp'), ppp'[j] = ppp'[m]
        PROVE  j = m
    <3>1. (j \in 1 .. Len(ppp) \/ j = Len(ppp) + 1) /\ (m \in 1 .. Len(ppp) \/ m = Len(ppp) + 1)
      BY <2>2, <2>4
    <3> QED BY <2>1, <2>3, <2>4, <2>5, <3>1 DEF Queue
  <2>6. Queue(ppp', c)
    BY <2>4, <2>5 DEF Queue
  <2>7. ASSUME NEW i \in Id, Listed(ppp', i) PROVE Listed(ppp, i) \/ i = c
    <3>1. PICK j \in 1 .. Len(ppp') : ppp'[j] = i
      BY <2>7 DEF Listed
    <3>2. j \in 1 .. Len(ppp) \/ j = Len(ppp) + 1
      BY <2>2, <2>4
    <3> QED BY <2>4, <3>1, <3>2 DEF Listed
  <2>8. ASSUME NEW i \in Id, Listed(ppp, i) PROVE Listed(ppp', i)
    <3>1. PICK j \in 1 .. Len(ppp) : ppp[j] = i
      BY <2>8 DEF Listed
    <3>2. j \in 1 .. Len(ppp') /\ ppp'[j] = i
      BY <2>2, <2>4, <3>1
    <3> QED BY <3>2 DEF Listed
  <2>9. Listed(ppp', c)
    <3>1. Len(ppp) + 1 \in 1 .. Len(ppp')
      BY <2>2, <2>4
    <3> QED BY <2>4, <3>1 DEF Listed
  <2> QED BY <2>6, <2>7, <2>8, <2>9
<1>15. Book(streams', ppp', promised', uses')
  <2>1. Fine(v, uses)
    BY <1>5, FinePromised
  <2>2. Fine(Notify(streams[0]), uses)
    <3>1. Follows(streams[0].state, Notify(streams[0]).state)
      BY <1>2, <1>8, StreamFields, FollowsReset
    <3> QED BY <1>2, <1>8, <3>1, FineFollows
  <2>3. \A i \in Id : Kept(streams'[i], i, c, uses)
    <3> SUFFICES ASSUME NEW i \in Id PROVE Kept(streams'[i], i, c, uses)
      OBVIOUS
    <3>1. Kept(streams[i], i, promised, uses) /\ i \in Nat
      BY IdIsFinite DEF CInv, Book
    <3>2. CASE i = c
      BY <1>3, <1>5, <1>11, <2>1, <3>2 DEF Kept
    <3>3. CASE i = 0
      BY <1>3, <1>12, <2>2, <3>3 DEF Kept
    <3>4. CASE i # c /\ i # 0
      BY <1>3, <1>12, <3>1, <3>4 DEF Kept
    <3> QED BY <3>2, <3>3, <3>4
  <2>4. \A i \in Id : streams'[i].queued <=> Listed(ppp', i)
    <3> SUFFICES ASSUME NEW i \in Id PROVE streams'[i].queued <=> Listed(ppp', i)
      OBVIOUS
    <3>1. streams[i].queued <=> Listed(ppp, i)
      BY DEF CInv, Book
    <3>2. CASE i = c
      BY <1>5, <1>11, <1>14, <3>2
    <3>3. CASE i = 0
      BY <1>3, <1>8, <1>12, <1>14, <3>1, <3>3 DEF Same
    <3>4. CASE i # c /\ i # 0
      BY <1>12, <1>14, <3>1, <3>4
    <3> QED BY <3>2, <3>3, <3>4
  <2>5. streams'[0].handles # {}
    BY <1>8, <1>12, <1>13 DEF Same
  <2>6. uses' = uses /\ promised' = c /\ uses \subseteq Use
    BY <1>6 DEF CInv, Book
  <2> QED BY <1>3, <1>12, <1>14, <2>3, <2>4, <2>5, <2>6 DEF Book
<1>16. Housed(streams', slab', ids')
  BY <1>1, <1>3, <1>6, <1>12 DEF CInv, Housed
<1>17. \A i \in slab' : ~Released(streams'[i])
  <2> SUFFICES ASSUME NEW i \in slab' PROVE ~Released(streams'[i])
    OBVIOUS
  <2>1. CASE i = c
    BY <1>5, <1>11, <2>1 DEF Released
  <2>2. CASE i = 0
    BY <1>8, <1>12, <1>13, <2>2 DEF Released, Same
  <2>3. CASE i # c /\ i # 0
    <3>1. i \in slab /\ i \in Id
      BY <1>6, <2>3 DEF CInv, Housed
    <3>2. streams'[i] = streams[i]
      BY <1>12, <2>3, <3>1
    <3> QED BY <3>1, <3>2 DEF CInv
  <2> QED BY <2>1, <2>2, <2>3
<1>18. Owed(streams', in_flight_data', buffer', uses')
  <2>1. Owed(streams, in_flight_data, buffer, uses)
    BY DEF CInv
  <2>2. mid \in [Id -> Stream]
    BY <1>9 DEF Changes
  <2>3. Owed(mid, in_flight_data, buffer, uses)
    <3>1. \A j \in Id : /\ mid[j].in_flight_recv_data = streams[j].in_flight_recv_data
                        /\ mid[j].pending_recv = streams[j].pending_recv
      BY <1>8, <1>9 DEF Changes, Same
    <3> QED BY <1>2, <2>1, <2>2, <3>1, OwedSame
  <2>4. Len(<<"request">>) = 1 /\ Len(<<>>) = 0
    OBVIOUS
  <2>5. in_flight_data \in Nat /\ buffer \in Nat
    BY <1>2, <2>1, OwedBounds, IdIsFinite
  <2>6. in_flight_data' = in_flight_data
                            + (streams'[c].in_flight_recv_data - mid[c].in_flight_recv_data)
    <3>1. streams'[c].in_flight_recv_data = 0 /\ mid[c].in_flight_recv_data = 0
      BY <1>5, <1>11, GoneFields
    <3> QED BY <1>6, <2>5, <3>1
  <2>7. buffer' = buffer + (Len(streams'[c].pending_recv) - Len(mid[c].pending_recv))
    <3>1. Len(streams'[c].pending_recv) = 1 /\ Len(mid[c].pending_recv) = 0
      BY <1>5, <1>11, <2>4, GoneFields
    <3>2. buffer' = buffer + (1 - 0)
      BY <1>6, <2>5
    <3> QED BY <3>1, <3>2, Zenon
  <2> QED BY <1>6, <1>11, <2>3, <2>6, <2>7, OwedChanges
<1>19. Calls(streams', ppp', pending', woken', uses')
  <2>1. Attended(streams[0], mid[0])
    BY <1>8, <1>9 DEF Attended, Same
  <2>2. Calls(mid, ppp', pending, woken', uses)
    BY <1>6, <1>9, <2>1, CallsNotified
  <2>3. \A x \in pending : streams'[x[1]] = mid[x[1]]
    <3> SUFFICES ASSUME NEW x \in pending PROVE streams'[x[1]] = mid[x[1]]
      OBVIOUS
    <3>1. x[1] \in Id /\ x[2] \in streams[x[1]].handles
      BY CallFacts
    <3>2. x[1] # c
      BY <1>4, <3>1, GoneFields
    <3> QED BY <1>11, <3>1, <3>2 DEF Changes
  <2> QED BY <1>6, <2>2, <2>3 DEF Calls
<1> QED BY <1>15, <1>16, <1>17, <1>18, <1>19 DEF CInv

\* A promise that cannot be used: its stream is reset.
LEMMA KeepsRecvBadPromise ==
  ASSUME CInv, RecvBadPromise
  PROVE  CInv'
<1> DEFINE c == promised + 1
           w == New(ReservedRemote, {})
           v == SendReset(w)
<1>1. streams \in [Id -> Stream]
  BY DEF CInv, Book
<1>2. c \in Id /\ c # 0 /\ c \in 0 .. MaxPush /\ c > promised /\ promised \in Nat
  BY H2ClientAssumption DEF Id, RecvBadPromise, CInv, Book
<1>3. streams[c] = Gone
  BY <1>2 DEF CInv, Book, Kept
<1>4. /\ v \in Stream /\ IsClosed(v.state) /\ v.handles = {} /\ ~v.queued
      /\ v.pending_recv = <<>> /\ ~v.drained
      /\ v.in_flight_recv_data = 0 /\ v.sending = "rst"
  <2>1. ReservedRemote \in State /\ {} \in SUBSET Handle
    BY DEF State
  <2>2. w \in Stream
    BY <2>1, NewFields
  <2>3. /\ w.state = ReservedRemote /\ w.handles = {} /\ ~w.queued /\ w.pending_recv = <<>>
        /\ ~w.drained /\ w.in_flight_recv_data = 0
    BY DEF New
  <2>4. ~IsReset(ReservedRemote) /\ ~IsClosed(ReservedRemote)
    BY DEF IsReset, IsClosed, ReservedRemote, Value
  <2> HIDE DEF w
  <2>5. v = [w EXCEPT !.state = SetReset, !.sending = "rst"]
    BY <2>2, <2>3, <2>4 DEF SendReset, Stream
  <2>6. v.sending = "rst"
    BY <2>2, <2>5 DEF Stream
  <2>7. Same(w, v) /\ IsReset(v.state)
    BY <2>2, SendResetFields
  <2>8. IsClosed(v.state)
    BY <2>7 DEF IsReset
  <2> HIDE DEF v
  <2> QED BY <2>3, <2>6, <2>7, <2>8 DEF Same
<1>5. /\ streams' = [streams EXCEPT ![c] = v]
      /\ slab' = slab \cup {c} /\ ids' = ids \cup {c} /\ promised' = c
      /\ ppp' = ppp /\ buffer' = buffer /\ woken' = woken
      /\ uses' = uses /\ in_flight_data' = in_flight_data /\ pending' = pending
  BY DEF RecvBadPromise
<1> HIDE DEF c, v
<1>6. Changes(streams, streams', c) /\ streams'[c] = v
  BY <1>1, <1>2, <1>4, <1>5, ChangesExcept
<1>7. streams' \in [Id -> Stream] /\ \A j \in Id : j # c => streams'[j] = streams[j]
  BY <1>6 DEF Changes
<1>8. Queue(ppp, promised) /\ Queue(ppp, c)
  <2> DEFINE A == 1 .. promised
             B == 1 .. c
  <2>1. Queue(ppp, promised)
    BY DEF CInv, Book
  <2>2. A \subseteq B /\ ppp \in Seq(A)
    BY <1>2, <2>1 DEF Queue
  <2> HIDE DEF A, B
  <2>3. ppp \in Seq(B)
    BY <2>2
  <2> QED BY <2>1, <2>3 DEF Queue, B
<1>9. ~Listed(ppp, c)
  <2>1. \A j \in 1 .. Len(ppp) : ppp[j] \in 1 .. promised
    BY <1>8, ElementOfSeq DEF Queue
  <2> QED BY <1>2, <2>1 DEF Listed
<1>10. Book(streams', ppp', promised', uses')
  <2>1. Fine(v, uses)
    BY <1>4, FineRefused
  <2>2. \A i \in Id : Kept(streams'[i], i, c, uses)
    <3> SUFFICES ASSUME NEW i \in Id PROVE Kept(streams'[i], i, c, uses)
      OBVIOUS
    <3>1. Kept(streams[i], i, promised, uses) /\ i \in Nat
      BY IdIsFinite DEF CInv, Book
    <3>2. CASE i = c
      BY <1>2, <1>4, <1>6, <2>1, <3>2 DEF Kept
    <3>3. CASE i # c
      BY <1>2, <1>7, <3>1, <3>3 DEF Kept
    <3> QED BY <3>2, <3>3
  <2>3. \A i \in Id : streams'[i].queued <=> Listed(ppp, i)
    <3> SUFFICES ASSUME NEW i \in Id PROVE streams'[i].queued <=> Listed(ppp, i)
      OBVIOUS
    <3>1. streams[i].queued <=> Listed(ppp, i)
      BY DEF CInv, Book
    <3>2. CASE i = c
      BY <1>4, <1>6, <1>9, <3>2
    <3>3. CASE i # c
      BY <1>7, <3>1, <3>3
    <3> QED BY <3>2, <3>3
  <2>4. ppp # <<>> => streams'[0].handles # {}
    BY <1>2, <1>7, IdIsFinite DEF CInv, Book
  <2>5. uses \subseteq Use
    BY DEF CInv, Book
  <2> QED BY <1>2, <1>5, <1>7, <1>8, <2>2, <2>3, <2>4, <2>5 DEF Book
<1>11. Housed(streams', slab', ids')
  BY <1>2, <1>5, <1>7 DEF CInv, Housed
<1>12. \A i \in slab' : ~Released(streams'[i])
  <2> SUFFICES ASSUME NEW i \in slab' PROVE ~Released(streams'[i])
    OBVIOUS
  <2>1. CASE i = c
    BY <1>4, <1>6, <2>1 DEF Released, Done
  <2>2. CASE i # c
    <3>1. i \in slab /\ i \in Id
      BY <1>5, <2>2 DEF CInv, Housed
    <3>2. streams'[i] = streams[i]
      BY <1>7, <2>2, <3>1
    <3> QED BY <3>1, <3>2 DEF CInv
  <2> QED BY <2>1, <2>2
<1>13. Owed(streams', in_flight_data', buffer', uses')
  <2>1. Owed(streams, in_flight_data, buffer, uses)
    BY DEF CInv
  <2>2. \A j \in Id : /\ streams'[j].in_flight_recv_data = streams[j].in_flight_recv_data
                      /\ streams'[j].pending_recv = streams[j].pending_recv
    BY <1>3, <1>4, <1>6, <1>7, GoneFields
  <2> QED BY <1>1, <1>5, <1>7, <2>1, <2>2, OwedSame
<1>14. Calls(streams', ppp', pending', woken', uses')
  <2>1. \A x \in pending : streams'[x[1]] = streams[x[1]]
    <3> SUFFICES ASSUME NEW x \in pending PROVE streams'[x[1]] = streams[x[1]]
      OBVIOUS
    <3>1. x[1] \in Id /\ x[2] \in streams[x[1]].handles
      BY CallFacts
    <3>2. x[1] # c
      BY <1>3, <3>1, GoneFields
    <3> QED BY <1>7, <3>1, <3>2
  <2> QED BY <1>5, <2>1 DEF CInv, Calls
<1> QED BY <1>10, <1>11, <1>12, <1>13, <1>14 DEF CInv

\* Streams::handle_error and recv_eof: every stream that is known ends.
LEMMA KeepsEnds ==
  ASSUME CInv, NEW cause \in {"LocalError", "RemoteError"}, Ends(cause)
  PROVE  CInv'
<1> DEFINE Ended(i) == ClearSend(Notify([streams[i] EXCEPT !.state = HandleError(@, cause)]))
           str == [i \in Id |-> IF i \in ids THEN Ended(i) ELSE streams[i]]
<1>1. streams \in [Id -> Stream] /\ \A i \in Id : Fine(streams[i], uses)
  BY DEF CInv, Book, Kept
<1>2. /\ Transition(str) /\ woken' = woken \cup UNION {Notified(i) : i \in ids}
      /\ uses' = uses /\ ppp' = ppp /\ promised' = promised
      /\ in_flight_data' = in_flight_data /\ buffer' = buffer /\ pending' = pending
  BY DEF Ends
<1>3. \A i \in Id : /\ Same(streams[i], Ended(i)) /\ Follows(streams[i].state, Ended(i).state)
  <2> SUFFICES ASSUME NEW i \in Id
               PROVE  Same(streams[i], Ended(i)) /\ Follows(streams[i].state, Ended(i).state)
    OBVIOUS
  <2> DEFINE b == HandleError(streams[i].state, cause)
             s == [streams[i] EXCEPT !.state = b]
             v == ClearSend(Notify(s))
  <2>1. streams[i] \in Stream /\ streams[i].state \in State
    BY <1>1, StreamFields
  <2>2. Follows(streams[i].state, b)
    BY <2>1, FollowsReset
  <2>3. Ended(i) = v
    OBVIOUS
  <2> HIDE DEF b
  <2>4. Same(streams[i], s) /\ s.state = b
    BY <2>1, <2>2, StateFieldsMove DEF Follows
  <2> HIDE DEF s
  <2>5. Same(s, Notify(s)) /\ Notify(s).state = b
    BY <2>4, NotifyFields DEF Same
  <2>6. Same(Notify(s), v) /\ v.state = b
    BY <2>5, ClearSendFields DEF Same
  <2> HIDE DEF v, Ended
  <2>7. Same(streams[i], v)
    BY <2>4, <2>5, <2>6 DEF Same
  <2> QED BY <2>2, <2>3, <2>6, <2>7
<1> HIDE DEF Ended
<1>4. \A i \in Id : /\ Same(streams[i], str[i]) /\ Fine(str[i], uses)
                    /\ i \notin ids => str[i] = streams[i]
  <2> SUFFICES ASSUME NEW i \in Id
               PROVE  /\ Same(streams[i], str[i]) /\ Fine(str[i], uses)
                      /\ i \notin ids => str[i] = streams[i]
    OBVIOUS
  <2>1. CASE i \in ids
    <3>1. str[i] = Ended(i)
      BY <2>1
    <3> QED BY <1>1, <1>3, <2>1, <3>1, FineFollows
  <2>2. CASE i \notin ids
    BY <1>1, <2>2 DEF Same
  <2> QED BY <2>1, <2>2
<1>5. str \in [Id -> Stream]
  BY <1>1, <1>3 DEF Same
<1> HIDE DEF str
<1>6. Book(str, ppp, promised, uses)
  <2>1. \A i \in Id : Kept(str[i], i, promised, uses)
    <3> SUFFICES ASSUME NEW i \in Id PROVE Kept(str[i], i, promised, uses)
      OBVIOUS
    <3>1. Kept(streams[i], i, promised, uses)
      BY DEF CInv, Book
    <3>2. i > promised => i \notin ids
      <4> SUFFICES ASSUME i > promised, i \in ids PROVE FALSE
        OBVIOUS
      <4>1. i \in slab
        BY DEF CInv, Housed
      <4>2. streams[i] = Gone
        BY <3>1 DEF Kept
      <4> QED BY <4>1, <4>2, GoneFields DEF CInv
    <3> QED BY <1>4, <3>1, <3>2 DEF Kept, Same
  <2>2. \A i \in Id : str[i].queued <=> Listed(ppp, i)
    BY <1>4 DEF Same, CInv, Book
  <2>3. ppp # <<>> => str[0].handles # {}
    BY <1>4, IdIsFinite DEF Same, CInv, Book
  <2> QED BY <1>5, <2>1, <2>2, <2>3 DEF CInv, Book
<1>7. Housed(str, slab, ids)
  BY <1>4 DEF CInv, Housed
<1>8. Owed(str, in_flight_data, buffer, uses)
  <2>1. Owed(streams, in_flight_data, buffer, uses)
    BY DEF CInv
  <2>2. \A j \in Id : /\ str[j].in_flight_recv_data = streams[j].in_flight_recv_data
                      /\ str[j].pending_recv = streams[j].pending_recv
    BY <1>4 DEF Same
  <2> QED BY <1>1, <1>5, <2>1, <2>2, OwedSame
<1>9. Calls(str, ppp, pending, woken', uses)
  <2>1. woken' \subseteq pending
    BY <1>2 DEF CInv, Calls, Notified
  <2>2. \A x \in pending : Holds(str[x[1]], x, uses)
    BY <1>4, CallFacts DEF CInv, Calls, Holds, Same
  <2>3. ASSUME uses \subseteq Survived, NEW x \in pending \ woken'
        PROVE  Sleeps(str[x[1]], ppp, x[3])
    <3>1. x \notin woken /\ Sleeps(streams[x[1]], ppp, x[3])
      BY <1>2, <2>3 DEF CInv, Calls
    <3>2. "two tasks" \notin uses
      BY <2>3 DEF Survived
    <3>3. x[1] \notin ids
      <4> SUFFICES ASSUME x[1] \in ids PROVE FALSE
        OBVIOUS
      <4>1. x \in Notified(x[1])
        BY <3>1, <3>2 DEF Notified, Sleeps
      <4> QED BY <1>2, <2>3, <4>1
    <3> QED BY <1>4, <3>1, <3>3, CallFacts
  <2> QED BY <2>1, <2>2, <2>3 DEF Calls, CInv
<1> QED BY <1>2, <1>6, <1>7, <1>8, <1>9, TransitionKeeps

-----------------------------------------------------------------------------
(* The readers.                                                              *)

\* A handler of a handle, which stays: the stream is not freed.
LEMMA OneKeeps ==
  ASSUME CInv, NEW i \in slab, Changes(streams, streams', i), uses' = uses, ppp' = ppp,
         promised' = promised, slab' = slab, ids' = ids,
         Fine(streams'[i], uses), streams'[i].queued <=> streams[i].queued,
         streams'[i].handles # {}, i # 0 => "pushes" \notin streams'[i].handles,
         in_flight_data' = in_flight_data
                             + (streams'[i].in_flight_recv_data - streams[i].in_flight_recv_data),
         buffer' = buffer + (Len(streams'[i].pending_recv) - Len(streams[i].pending_recv)),
         Calls(streams', ppp, pending', woken', uses)
  PROVE  CInv'
<1>1. Book(streams', ppp, promised, uses)
  <2>1. Book(streams, ppp, promised, uses)
    BY DEF CInv
  <2> QED BY <2>1, Existing, BookChanges
<1>2. Housed(streams', slab', ids')
  BY DEF CInv, Housed, Changes
<1>3. \A j \in slab' : ~Released(streams'[j])
  <2> SUFFICES ASSUME NEW j \in slab' PROVE ~Released(streams'[j])
    OBVIOUS
  <2>1. CASE j = i
    BY <2>1 DEF Released
  <2>2. CASE j # i
    BY <2>2 DEF CInv, Housed, Changes
  <2> QED BY <2>1, <2>2
<1>4. Owed(streams', in_flight_data', buffer', uses)
  <2>1. Owed(streams, in_flight_data, buffer, uses)
    BY DEF CInv
  <2> QED BY <2>1, OwedChanges
<1> QED BY <1>1, <1>2, <1>3, <1>4 DEF CInv

\* The same, when nothing is counted.
LEMMA OneKeepsCount ==
  ASSUME CInv, NEW i \in slab, Changes(streams, streams', i), uses' = uses, ppp' = ppp,
         promised' = promised, slab' = slab, ids' = ids,
         in_flight_data' = in_flight_data, buffer' = buffer,
         Fine(streams'[i], uses), streams'[i].queued <=> streams[i].queued,
         streams'[i].handles = streams[i].handles, streams[i].handles # {},
         streams'[i].in_flight_recv_data = streams[i].in_flight_recv_data,
         streams'[i].pending_recv = streams[i].pending_recv,
         Calls(streams', ppp, pending', woken', uses)
  PROVE  CInv'
<1>1. in_flight_data \in Nat /\ buffer \in Nat
  BY Existing, OwedBounds DEF CInv
<1>2. streams[i].in_flight_recv_data \in Nat /\ Len(streams[i].pending_recv) \in Nat
  BY Existing, StreamFields
<1>3. /\ in_flight_data' = in_flight_data
                             + (streams'[i].in_flight_recv_data - streams[i].in_flight_recv_data)
      /\ buffer' = buffer + (Len(streams'[i].pending_recv) - Len(streams[i].pending_recv))
  BY <1>1, <1>2
<1>4. i # 0 => "pushes" \notin streams'[i].handles
  BY Existing
<1> QED BY <1>3, <1>4, OneKeeps

\* A call comes or goes, and no stream changes.
LEMMA StillKeeps ==
  ASSUME CInv, UNCHANGED <<conn, streams, slab, ids, in_flight_data, buffer>>,
         Calls(streams, ppp, pending', woken', uses)
  PROVE  CInv'
BY DEF CInv, conn

\* A call returns; the others of its stream have nothing to be told.
LEMMA CallsReturn ==
  ASSUME CInv, NEW x \in pending, NEW str2, Changes(streams, str2, x[1]),
         pending' = pending \ {x}, woken' = woken \ {x},
         \A y \in pending : y # x /\ y[1] = x[1] =>
           /\ Holds(str2[x[1]], y, uses)
           /\ Sleeps(streams[x[1]], ppp, y[3]) => Sleeps(str2[x[1]], ppp, y[3])
  PROVE  Calls(str2, ppp, pending', woken', uses)
<1>1. pending' \subseteq Call /\ woken' \subseteq pending' /\ OneEach(pending')
  BY DEF CInv, Calls, OneEach
<1>2. \A y \in pending' : Holds(str2[y[1]], y, uses)
  <2> SUFFICES ASSUME NEW y \in pending' PROVE Holds(str2[y[1]], y, uses)
    OBVIOUS
  <2>1. y \in pending /\ y # x /\ y[1] \in Id
    BY CallFacts
  <2>2. CASE y[1] = x[1]
    BY <2>1, <2>2
  <2>3. CASE y[1] # x[1]
    BY <2>1, <2>3 DEF Changes, CInv, Calls
  <2> QED BY <2>2, <2>3
<1>3. ASSUME uses \subseteq Survived, NEW y \in pending' \ woken'
      PROVE  Sleeps(str2[y[1]], ppp, y[3])
  <2>1. y \in pending \ woken /\ y # x /\ y[1] \in Id
    BY <1>3, CallFacts
  <2>2. Sleeps(streams[y[1]], ppp, y[3])
    BY <1>3, <2>1 DEF CInv, Calls
  <2>3. CASE y[1] = x[1]
    BY <2>1, <2>2, <2>3
  <2>4. CASE y[1] # x[1]
    BY <2>1, <2>2, <2>4 DEF Changes
  <2> QED BY <2>3, <2>4
<1> QED BY <1>1, <1>2, <1>3 DEF Calls

\* A handle that has no call makes one, which is polled.
LEMMA KeepsStart ==
  ASSUME CInv, NEW i \in Id, NEW h \in Handle, NEW op \in Asks[h], Start(i, h, op)
  PROVE  CInv'
<1> DEFINE x == <<i, h, op>>
<1>1. /\ i \in slab /\ h \in streams[i].handles /\ ~Calling(i, h)
      /\ op = "trailers" => streams[i].drained \/ "early" \in uses
      /\ pending' = pending \cup {x} /\ woken' = woken \cup {x}
      /\ UNCHANGED <<conn, streams, slab, ids, in_flight_data, buffer>>
  BY DEF Start
<1>2. x \in Call
  <2>1. h = "pushes" => i = 0
    BY <1>1, Existing
  <2>2. op \in {"response", "pushed", "data", "trailers"}
    BY DEF Asks, Handle
  <2> QED BY <2>1, <2>2 DEF Call
<1>3. x[1] = i /\ x[2] = h /\ x[3] = op
  OBVIOUS
<1> HIDE DEF x
<1>4. pending' \subseteq Call /\ woken' \subseteq pending'
  BY <1>1, <1>2 DEF CInv, Calls
<1>5. OneEach(pending')
  BY <1>1, <1>3 DEF CInv, Calls, OneEach, Calling
<1>6. \A y \in pending' : Holds(streams[y[1]], y, uses)
  BY <1>1, <1>3 DEF CInv, Calls, Holds
<1>7. uses \subseteq Survived => \A y \in pending' \ woken' : Sleeps(streams[y[1]], ppp, y[3])
  BY <1>1 DEF CInv, Calls
<1>8. Calls(streams, ppp, pending', woken', uses)
  BY <1>4, <1>5, <1>6, <1>7 DEF Calls
<1> QED BY <1>1, <1>8, StillKeeps

\* A future is dropped.
LEMMA KeepsCancel ==
  ASSUME CInv, NEW x \in pending, Cancel(x)
  PROVE  CInv'
<1>1. /\ pending' = pending \ {x} /\ woken' = woken \ {x}
      /\ UNCHANGED <<conn, streams, slab, ids, in_flight_data, buffer>>
  BY DEF Cancel
<1>2. Calls(streams, ppp, pending', woken', uses)
  BY <1>1 DEF CInv, Calls, OneEach
<1> QED BY <1>1, <1>2, StillKeeps

\* poll_response, poll_data and poll_trailers find what they want.
LEMMA KeepsTake ==
  ASSUME CInv, NEW x \in pending, Take(x)
  PROVE  CInv'
<1> DEFINE i == x[1]
           s == streams[i]
           v == streams'[i]
<1>1. i \in slab /\ i \in Id /\ s \in Stream /\ Fine(s, uses) /\ streams \in [Id -> Stream]
  BY CallFacts, Existing
<1>2. s.pending_recv # <<>> /\ Head(s.pending_recv) = x[3]
  BY CallFacts DEF Take, Front, S
<1>3. /\ Tail(s.pending_recv) \in Seq(Event) /\ Len(Tail(s.pending_recv)) = Len(s.pending_recv) - 1
      /\ Len(s.pending_recv) \in Nat /\ x[3] \in Event
  BY <1>1, <1>2, StreamFields, HeadOfEvents
<1>4. /\ x[3] = "response" => x[2] = "response"
      /\ x[3] \in {"data", "trailers"} => x[2] = "body"
      /\ x[2] \in s.handles /\ x[3] \in {"response", "pushed", "data", "trailers"}
  BY CallFacts
<1>5. /\ buffer' = buffer - 1 /\ pending' = pending \ {x} /\ woken' = woken \ {x}
      /\ uses' = uses /\ ppp' = ppp /\ promised' = promised /\ slab' = slab /\ ids' = ids
      /\ in_flight_data' = in_flight_data
  BY DEF Take, Return, conn
<1>6. x[3] \in {"response", "data", "trailers"}
  BY <1>3, <1>4 DEF Event
<1> DEFINE p == Tail(s.pending_recv)
           w == CASE x[3] = "response" ->
                       [Pops(x) EXCEPT !.handles = (@ \ {"response"}) \cup {"body"}]
                  [] x[3] = "data"     -> [Pops(x) EXCEPT !.read = @ + 1]
                  [] x[3] = "trailers" -> Pops(x)
<1>7. streams' = [streams EXCEPT ![i] = w]
  BY DEF Take
<1>8. Pops(x) = [s EXCEPT !.pending_recv = p]
  BY DEF Pops, S
<1> HIDE DEF p
<1>9. /\ w \in Stream /\ w.pending_recv = p /\ w.state = s.state /\ w.is_recv = s.is_recv
      /\ w.queued = s.queued /\ w.came = s.came /\ w.drained = s.drained
      /\ w.in_flight_recv_data = s.in_flight_recv_data /\ w.recv_task = s.recv_task
      /\ x[3] = "response" => w.handles = (s.handles \ {"response"}) \cup {"body"}
      /\ x[3] # "response" => w.handles = s.handles
      /\ x[3] = "data" => w.read = s.read + 1
      /\ x[3] # "data" => w.read = s.read
  <2>1. p \in Seq(Event)
    BY <1>3 DEF p
  <2> DEFINE y == [s EXCEPT !.pending_recv = p]
  <2>2. /\ y \in Stream /\ y.pending_recv = p /\ y.state = s.state /\ y.is_recv = s.is_recv
        /\ y.queued = s.queued /\ y.came = s.came /\ y.drained = s.drained
        /\ y.in_flight_recv_data = s.in_flight_recv_data /\ y.recv_task = s.recv_task
        /\ y.handles = s.handles /\ y.read = s.read
    BY <1>1, <2>1 DEF Stream
  <2> HIDE DEF y
  <2>3. CASE x[3] = "response"
    <3>1. w = [y EXCEPT !.handles = (s.handles \ {"response"}) \cup {"body"}]
      BY <1>8, <2>2, <2>3 DEF y
    <3>2. (s.handles \ {"response"}) \cup {"body"} \in SUBSET Handle
      BY <1>1, StreamFields DEF Handle
    <3> HIDE DEF w
    <3> QED BY <2>2, <2>3, <3>1, <3>2 DEF Stream
  <2>4. CASE x[3] = "data"
    <3>1. PICK n \in Nat : n = s.read + 1
      BY <1>1, StreamFields
    <3>2. w = [y EXCEPT !.read = n]
      BY <1>8, <2>2, <2>4, <3>1 DEF y
    <3> HIDE DEF w
    <3> QED BY <2>2, <2>4, <3>1, <3>2 DEF Stream
  <2>5. CASE x[3] = "trailers"
    <3>1. w = y
      BY <1>8, <2>5 DEF y
    <3> HIDE DEF w
    <3> QED BY <2>2, <2>5, <3>1
  <2> QED BY <1>6, <2>3, <2>4, <2>5
<1> HIDE DEF w
<1>10. Changes(streams, streams', i) /\ v = w
  BY <1>1, <1>7, <1>9, ChangesExcept
<1>11. Fine(v, uses)
  <2> SUFFICES Fine(w, uses)
    BY <1>10
  <2>4. /\ Fine(s, uses) /\ s.pending_recv # <<>> /\ Head(s.pending_recv) = x[3]
        /\ w \in Stream /\ w.pending_recv = Tail(s.pending_recv)
        /\ w.state = s.state /\ w.is_recv = s.is_recv
        /\ w.queued = s.queued /\ w.came = s.came /\ w.drained = s.drained
    BY <1>1, <1>2, <1>9 DEF p
  <2>1. CASE x[3] = "response"
    <3>1. /\ "response" \in s.handles /\ w.read = s.read
          /\ w.handles = (s.handles \ {"response"}) \cup {"body"}
      BY <1>4, <1>9, <2>1
    <3> HIDE DEF s, i
    <3> QED BY <2>1, <2>4, <3>1, FineTakeResponse
  <2>2. CASE x[3] = "data"
    <3>1. "body" \in s.handles /\ w.read = s.read + 1 /\ w.handles = s.handles
      BY <1>4, <1>9, <2>2
    <3> HIDE DEF s, i
    <3> QED BY <2>2, <2>4, <3>1, FineTakeData
  <2>3. CASE x[3] = "trailers"
    <3>1. "body" \in s.handles /\ w.read = s.read /\ w.handles = s.handles
      BY <1>4, <1>9, <2>3
    <3> HIDE DEF s, i
    <3> QED BY <2>3, <2>4, <3>1, FineTakeTrailers
  <2> QED BY <1>6, <2>1, <2>2, <2>3
<1>12. v.handles # {} /\ (i # 0 => "pushes" \notin v.handles) /\ (v.queued <=> s.queued)
  <2>1. i # 0 => "pushes" \notin s.handles
    BY <1>1, Existing
  <2> QED BY <1>4, <1>9, <1>10, <2>1
<1>13. \A y \in pending : y # x /\ y[1] = i =>
         /\ Holds(v, y, uses)
         /\ Sleeps(s, ppp, y[3]) => Sleeps(v, ppp, y[3])
  <2> SUFFICES ASSUME NEW y \in pending, y # x, y[1] = i
               PROVE  Holds(v, y, uses) /\ (Sleeps(s, ppp, y[3]) => Sleeps(v, ppp, y[3]))
    OBVIOUS
  <2>1. y[2] # x[2]
    BY DEF CInv, Calls, OneEach
  <2>2. Holds(s, y, uses)
    BY DEF CInv, Calls
  <2>3. y[2] \in s.handles /\ y[2] \in Handle /\ y[3] \in Asks[y[2]]
    BY CallFacts
  <2>4. "response" \in s.handles => "body" \notin s.handles
    BY <1>1 DEF Fine
  <2>5. x[2] \in {"response", "body"}
    BY <1>4, <1>6
  <2>6. y[2] \in {"pushes", "send"}
    BY <1>4, <2>1, <2>3, <2>4, <2>5 DEF Handle
  <2>7. y[3] = "pushed"
    BY <2>3, <2>6 DEF Asks
  <2>8. Holds(v, y, uses)
    BY <1>9, <1>10, <2>2, <2>6, <2>7 DEF Holds
  <2>9. Sleeps(s, ppp, y[3]) => Sleeps(v, ppp, y[3])
    BY <1>9, <1>10, <2>7 DEF Sleeps, Answers
  <2> QED BY <2>8, <2>9
<1>14. Calls(streams', ppp, pending', woken', uses)
  BY <1>5, <1>10, <1>13, CallsReturn
<1>15. /\ in_flight_data' = in_flight_data + (v.in_flight_recv_data - s.in_flight_recv_data)
       /\ buffer' = buffer + (Len(v.pending_recv) - Len(s.pending_recv))
  <2>1. in_flight_data \in Nat /\ buffer \in Nat
    BY <1>1, OwedBounds DEF CInv
  <2>2. /\ v.in_flight_recv_data = s.in_flight_recv_data /\ s.in_flight_recv_data \in Nat
        /\ Len(v.pending_recv) = Len(s.pending_recv) - 1 /\ Len(s.pending_recv) \in Nat
    BY <1>1, <1>3, <1>9, <1>10, StreamFields DEF p
  <2> HIDE DEF v, s
  <2>3. in_flight_data' = in_flight_data + (v.in_flight_recv_data - s.in_flight_recv_data)
    BY <1>5, <2>1, <2>2
  <2>4. buffer' = buffer + (Len(v.pending_recv) - Len(s.pending_recv))
    BY <1>5, <2>1, <2>2
  <2> QED BY <2>3, <2>4
<1> QED BY <1>1, <1>5, <1>10, <1>11, <1>12, <1>14, <1>15, OneKeeps

\* poll_pushed: the first of the promised streams leaves the queue.
LEMMA KeepsTakePush ==
  ASSUME CInv, NEW x \in pending, TakePush(x)
  PROVE  CInv'
<1> DEFINE c == Head(ppp)
           s == streams[c]
           p == Tail(s.pending_recv)
           v == [s EXCEPT !.pending_recv = p, !.queued = FALSE, !.handles = {"response"}]
<1>1. /\ x[3] = "pushed" /\ ppp # <<>>
      /\ ppp' = Tail(ppp) /\ buffer' = buffer - 1
      /\ pending' = pending \ {x} /\ woken' = woken \ {x}
      /\ uses' = uses /\ promised' = promised /\ slab' = slab /\ ids' = ids
      /\ in_flight_data' = in_flight_data
      /\ streams' = [streams EXCEPT ![c] =
           [s EXCEPT !.pending_recv = Tail(s.pending_recv), !.queued = FALSE,
                     !.handles = {"response"}]]
  BY DEF TakePush, Return
<1>2. Book(streams, ppp, promised, uses) /\ streams \in [Id -> Stream]
  BY DEF CInv, Book
<1>3. /\ Len(ppp) \in Nat /\ Len(ppp) >= 1 /\ c = ppp[1] /\ c \in 1 .. promised
      /\ Tail(ppp) \in Seq(1 .. promised) /\ Len(Tail(ppp)) = Len(ppp) - 1
      /\ \A j \in 1 .. Len(ppp) - 1 : Tail(ppp)[j] = ppp[j + 1]
  <2> DEFINE T == 1 .. promised
  <2>1. ppp \in Seq(T) /\ ppp # <<>>
    BY <1>1, <1>2 DEF Book, Queue
  <2> HIDE DEF T
  <2>2. Len(ppp) \in Nat /\ Len(ppp) >= 1
    BY <2>1, EmptySeq
  <2>3. Head(ppp) = ppp[1] /\ Head(ppp) \in T
    BY <2>1, <2>2, HeadTailProperties
  <2>4. Tail(ppp) \in Seq(T) /\ Len(Tail(ppp)) = Len(ppp) - 1
    BY <2>1, HeadTailProperties
  <2>5. \A j \in 1 .. Len(ppp) - 1 : Tail(ppp)[j] = ppp[j + 1]
    BY <2>1, <2>2, HeadTailProperties
  <2> QED BY <2>2, <2>3, <2>4, <2>5 DEF T
<1>4. c \in Id /\ c # 0 /\ promised \in Nat
  BY <1>2, <1>3, H2ClientAssumption DEF Id, Book
<1>5. Listed(ppp, c) /\ s.queued /\ s \in Stream /\ Fine(s, uses)
  <2>1. Listed(ppp, c)
    BY <1>3 DEF Listed
  <2> QED BY <1>2, <1>4, <2>1 DEF Book, Kept
<1>6. c \in slab /\ s.handles = {} /\ (c # 0 => "pushes" \notin s.handles)
  <2>1. s # Gone
    BY <1>5, GoneFields
  <2> QED BY <1>4, <1>5, <2>1 DEF CInv, Housed, Fine
<1>7. s.pending_recv # <<>>
  BY <1>5, RowPopRequest DEF Fine, Told, Readable, Fits, Waiting
<1>8. /\ p \in Seq(Event) /\ Len(p) = Len(s.pending_recv) - 1 /\ Len(s.pending_recv) \in Nat
  BY <1>5, <1>7, StreamFields, HeadOfEvents
<1>9. streams' = [streams EXCEPT ![c] = v]
  BY <1>1
<1> HIDE DEF c, s, p
<1>10. /\ v \in Stream /\ v.pending_recv = p /\ v.queued = FALSE /\ v.handles = {"response"}
       /\ v.state = s.state /\ v.is_recv = s.is_recv
       /\ v.came = s.came /\ v.read = s.read /\ v.drained = s.drained
       /\ v.in_flight_recv_data = s.in_flight_recv_data
  BY <1>5, <1>8 DEF Stream, Handle
<1> HIDE DEF v
<1>11. Fine(v, uses)
  BY <1>5, <1>10, FineTakePush DEF p
<1>12. Changes(streams, streams', c) /\ streams'[c] = v
  BY <1>2, <1>4, <1>9, <1>10, ChangesExcept
<1>13. streams' \in [Id -> Stream] /\ \A j \in Id : j # c => streams'[j] = streams[j]
  BY <1>12 DEF Changes
<1>14. Queue(ppp', promised) /\ \A i \in Id : Listed(ppp', i) <=> Listed(ppp, i) /\ i # c
  <2>1. \A j, m \in 1 .. Len(ppp) : ppp[j] = ppp[m] => j = m
    BY <1>2 DEF Book, Queue
  <2>2. Queue(ppp', promised)
    BY <1>1, <1>3, <2>1 DEF Queue
  <2>3. ASSUME NEW i \in Id, Listed(ppp', i) PROVE Listed(ppp, i) /\ i # c
    <3>1. PICK j \in 1 .. Len(ppp) - 1 : ppp[j + 1] = i
      BY <1>1, <1>3, <2>3 DEF Listed
    <3>2. j + 1 \in 1 .. Len(ppp) /\ j + 1 # 1 /\ 1 \in 1 .. Len(ppp)
      BY <1>3
    <3> QED BY <1>3, <2>1, <3>1, <3>2 DEF Listed
  <2>4. ASSUME NEW i \in Id, Listed(ppp, i), i # c PROVE Listed(ppp', i)
    <3>1. PICK j \in 1 .. Len(ppp) : ppp[j] = i
      BY <2>4 DEF Listed
    <3>2. j # 1 /\ j - 1 \in 1 .. Len(ppp) - 1 /\ (j - 1) + 1 = j
      BY <1>3, <2>4, <3>1
    <3>3. ppp'[j - 1] = i
      BY <1>1, <1>3, <3>1, <3>2
    <3> QED BY <1>1, <1>3, <3>2, <3>3 DEF Listed
  <2> QED BY <2>2, <2>3, <2>4
<1>15. Book(streams', ppp', promised', uses')
  <2>1. \A i \in Id : Kept(streams'[i], i, promised, uses)
    <3> SUFFICES ASSUME NEW i \in Id PROVE Kept(streams'[i], i, promised, uses)
      OBVIOUS
    <3>1. CASE i = c
      BY <1>3, <1>4, <1>10, <1>11, <1>12, <3>1 DEF Kept
    <3>2. CASE i # c
      BY <1>2, <1>13, <3>2 DEF Book
    <3> QED BY <3>1, <3>2
  <2>2. \A i \in Id : streams'[i].queued <=> Listed(ppp', i)
    <3> SUFFICES ASSUME NEW i \in Id PROVE streams'[i].queued <=> Listed(ppp', i)
      OBVIOUS
    <3>1. streams[i].queued <=> Listed(ppp, i)
      BY <1>2 DEF Book
    <3>2. CASE i = c
      BY <1>10, <1>12, <1>14, <3>2
    <3>3. CASE i # c
      BY <1>13, <1>14, <3>1, <3>3
    <3> QED BY <3>2, <3>3
  <2>3. streams'[0].handles # {}
    BY <1>1, <1>2, <1>4, <1>13, IdIsFinite DEF Book
  <2> QED BY <1>1, <1>2, <1>13, <1>14, <2>1, <2>2, <2>3 DEF Book
<1>16. Housed(streams', slab', ids')
  BY <1>1, <1>6, <1>13 DEF CInv, Housed
<1>17. \A i \in slab' : ~Released(streams'[i])
  <2> SUFFICES ASSUME NEW i \in slab' PROVE ~Released(streams'[i])
    OBVIOUS
  <2>1. CASE i = c
    BY <1>10, <1>12, <2>1 DEF Released
  <2>2. CASE i # c
    BY <1>1, <1>13, <2>2 DEF CInv, Housed
  <2> QED BY <2>1, <2>2
<1>18. Owed(streams', in_flight_data', buffer', uses')
  <2>1. Owed(streams, in_flight_data, buffer, uses)
    BY DEF CInv
  <2>2. in_flight_data \in Nat /\ buffer \in Nat /\ s.in_flight_recv_data \in Nat
    BY <1>2, <1>4, <1>5, <2>1, OwedBounds, StreamFields
  <2>3. in_flight_data' = in_flight_data
                            + (streams'[c].in_flight_recv_data - streams[c].in_flight_recv_data)
    BY <1>1, <1>10, <1>12, <2>2 DEF s
  <2>4. buffer' = buffer + (Len(streams'[c].pending_recv) - Len(streams[c].pending_recv))
    <3>1. Len(p) - Len(s.pending_recv) = -1
      BY <1>8
    <3>2. buffer' = buffer + (Len(p) - Len(s.pending_recv))
      BY <1>1, <2>2, <3>1
    <3>3. p = streams'[c].pending_recv /\ s = streams[c]
      BY <1>10, <1>12 DEF s
    <3> QED BY <3>2, <3>3, Zenon
  <2> QED BY <1>1, <1>12, <2>1, <2>3, <2>4, OwedChanges
<1>19. Calls(streams', ppp', pending', woken', uses')
  <2>1. pending' \subseteq Call /\ woken' \subseteq pending' /\ OneEach(pending')
    BY <1>1 DEF CInv, Calls, OneEach
  <2>2. \A y \in pending' : /\ y \in pending /\ y[3] # "pushed"
                            /\ streams'[y[1]] = streams[y[1]]
    <3> SUFFICES ASSUME NEW y \in pending'
                 PROVE  y \in pending /\ y[3] # "pushed" /\ streams'[y[1]] = streams[y[1]]
      OBVIOUS
    <3>1. y \in pending /\ y # x
      BY <1>1
    <3>2. y[3] # "pushed"
      <4> SUFFICES ASSUME y[3] = "pushed" PROVE FALSE
        OBVIOUS
      <4>1. y[1] = x[1] /\ y[2] = x[2]
        BY <1>1, <3>1, CallFacts
      <4> QED BY <3>1, <4>1 DEF CInv, Calls, OneEach
    <3>3. y[1] \in Id /\ y[2] \in streams[y[1]].handles
      BY <3>1, CallFacts
    <3>4. y[1] # c
      BY <1>6, <3>3 DEF s
    <3> QED BY <1>13, <3>1, <3>2, <3>3, <3>4
  <2>3. \A y \in pending' : Holds(streams'[y[1]], y, uses)
    BY <2>2 DEF CInv, Calls
  <2>4. ASSUME uses \subseteq Survived, NEW y \in pending' \ woken'
        PROVE  Sleeps(streams'[y[1]], ppp', y[3])
    <3>1. Sleeps(streams[y[1]], ppp, y[3])
      BY <1>1, <2>2, <2>4 DEF CInv, Calls
    <3> QED BY <2>2, <2>4, <3>1 DEF Sleeps, Answers
  <2> QED BY <1>1, <2>1, <2>3, <2>4 DEF Calls
<1> QED BY <1>15, <1>16, <1>17, <1>18, <1>19 DEF CInv

\* poll_data comes to the trailers.
LEMMA KeepsDataOver ==
  ASSUME CInv, NEW x \in pending, DataOver(x)
  PROVE  CInv'
<1> DEFINE i == x[1]
           s == streams[i]
           w == [s EXCEPT !.drained = TRUE]
           v == Notify(w)
<1>1. i \in slab /\ s \in Stream /\ Fine(s, uses) /\ streams \in [Id -> Stream] /\ i \in Id
  BY CallFacts, Existing
<1>2. x[2] = "body" /\ "body" \in s.handles
  BY CallFacts DEF DataOver
<1>3. s.pending_recv # <<>> /\ Head(s.pending_recv) = "trailers"
  BY DEF DataOver, Front, S
<1>4. /\ pending' = pending \ {x} /\ woken' = (woken \cup Notified(i)) \ {x}
      /\ uses' = uses /\ ppp' = ppp /\ promised' = promised /\ slab' = slab /\ ids' = ids
      /\ in_flight_data' = in_flight_data /\ buffer' = buffer
      /\ streams' = [streams EXCEPT ![i] = v]
  BY DEF DataOver, Return, conn
<1>5. /\ w \in Stream /\ w.drained /\ w.pending_recv = s.pending_recv /\ w.handles = s.handles
      /\ w.is_recv = s.is_recv /\ w.queued = s.queued /\ w.came = s.came /\ w.read = s.read
      /\ w.state = s.state /\ w.in_flight_recv_data = s.in_flight_recv_data
  BY <1>1 DEF Stream
<1> HIDE DEF w
<1>6. Same(w, v) /\ v.state = w.state
  BY <1>5, NotifyFields
<1> HIDE DEF v
<1>7. Fine(v, uses)
  <2>1. s.read = s.came /\ IsRecvClosed(s.state)
    BY <1>1, <1>2, <1>3, ReadAll
  <2>2. /\ v \in Stream /\ v.pending_recv = s.pending_recv
        /\ v.handles = s.handles /\ v.is_recv = s.is_recv
        /\ v.queued = s.queued /\ v.came = s.came /\ v.read = s.read /\ v.state = s.state
    BY <1>5, <1>6 DEF Same
  <2> QED BY <1>1, <1>2, <2>1, <2>2, FineDrained
<1>8. Changes(streams, streams', i) /\ streams'[i] = v
  BY <1>1, <1>4, <1>6, ChangesExcept DEF Same
<1>9. Attended(s, streams'[i])
  BY <1>5, <1>6, <1>8 DEF Attended, Same
<1>10. Calls(streams', ppp, pending, woken \cup Notified(i), uses)
  BY <1>8, <1>9, CallsNotified
<1>11. Calls(streams', ppp, pending', woken', uses)
  BY <1>4, <1>10 DEF Calls, OneEach
<1>12. /\ streams'[i].queued <=> s.queued
       /\ streams'[i].handles = s.handles /\ s.handles # {}
       /\ streams'[i].in_flight_recv_data = s.in_flight_recv_data
       /\ streams'[i].pending_recv = s.pending_recv
  BY <1>2, <1>5, <1>6, <1>8 DEF Same
<1> QED BY <1>1, <1>4, <1>7, <1>8, <1>11, <1>12, OneKeepsCount

\* poll_trailers before the data was read: only a task that was not told to may do that.
LEMMA KeepsNotYet ==
  ASSUME CInv, NEW x \in pending, NotYet(x)
  PROVE  CInv'
<1> DEFINE s == streams[x[1]]
<1>1. /\ x[3] = "trailers" /\ woken' = woken \ {x} /\ pending' = pending
      /\ UNCHANGED <<conn, streams, slab, ids, in_flight_data, buffer>>
  BY DEF NotYet
<1>2. s.pending_recv # <<>> /\ Head(s.pending_recv) # "trailers"
  BY DEF NotYet, Front, S
<1>3. Fine(s, uses) /\ "body" \in s.handles
  BY <1>1, CallFacts, Existing
<1>4. ~s.drained
  BY <1>2, <1>3, ReadAll
<1>5. "early" \in uses
  BY <1>1, <1>4 DEF CInv, Calls, Holds
<1>6. ~(uses \subseteq Survived)
  BY <1>5 DEF Survived
<1>7. Calls(streams, ppp, pending', woken', uses)
  BY <1>1, <1>6 DEF CInv, Calls
<1> QED BY <1>1, <1>7, StillKeeps

\* The stream was reset, and the call says so.
LEMMA KeepsFails ==
  ASSUME CInv, NEW x \in pending, Fails(x)
  PROVE  CInv'
<1>1. /\ pending' = pending \ {x} /\ woken' = woken \ {x}
      /\ UNCHANGED <<conn, streams, slab, ids, in_flight_data, buffer>>
  BY DEF Fails, Return
<1>2. Calls(streams, ppp, pending', woken', uses)
  BY <1>1 DEF CInv, Calls, OneEach
<1> QED BY <1>1, <1>2, StillKeeps

\* The end of the data, of the promises, or a stream without trailers.
LEMMA KeepsOver ==
  ASSUME CInv, NEW x \in pending, Over(x)
  PROVE  CInv'
<1> DEFINE i == x[1]
           s == streams[i]
           w == [s EXCEPT !.drained = @ \/ x[3] = "data"]
<1>1. i \in slab /\ s \in Stream /\ Fine(s, uses) /\ streams \in [Id -> Stream] /\ i \in Id
  BY CallFacts, Existing
<1>2. /\ pending' = pending \ {x} /\ woken' = woken \ {x}
      /\ uses' = uses /\ ppp' = ppp /\ promised' = promised /\ slab' = slab /\ ids' = ids
      /\ in_flight_data' = in_flight_data /\ buffer' = buffer
      /\ Nothing(x) /\ IsRecvClosed(s.state)
  BY DEF Over, Return, conn, S
<1>3. streams' = [streams EXCEPT ![i] = w]
  BY <1>1 DEF Over
<1>4. PICK d \in BOOLEAN : /\ w = [s EXCEPT !.drained = d]
                           /\ d => s.drained \/ x[3] = "data"
                           /\ s.drained => d
  BY <1>1, StreamFields
<1> HIDE DEF w
<1>5. /\ w \in Stream /\ w.drained = d /\ w.pending_recv = s.pending_recv
      /\ w.handles = s.handles
      /\ w.is_recv = s.is_recv /\ w.queued = s.queued /\ w.came = s.came /\ w.read = s.read
      /\ w.state = s.state /\ w.in_flight_recv_data = s.in_flight_recv_data
      /\ w.recv_task = s.recv_task
  BY <1>1, <1>4 DEF Stream
<1>6. s.handles # {}
  BY CallFacts
<1>7. x[3] = "data" => s.read = s.came
  <2> SUFFICES ASSUME x[3] = "data" PROVE s.read = s.came
    OBVIOUS
  <2>1. "body" \in s.handles
    BY CallFacts
  <2>2. s.pending_recv \in Seq(Event)
    BY <1>1, StreamFields
  <2>3. s.pending_recv = <<>>
    <3> SUFFICES ASSUME s.pending_recv # <<>> PROVE FALSE
      OBVIOUS
    <3>1. Head(s.pending_recv) \in {"data", "trailers"}
      BY <1>1, <2>1, ReadAll
    <3> QED BY <1>2, <3>1 DEF Nothing, Front, S
  <2> QED BY <1>1, <2>1, <2>3, ReadAll
<1>8. Fine(w, uses)
  <2>1. w.drained => s.drained \/ (s.read = s.came /\ IsRecvClosed(s.state))
    BY <1>2, <1>4, <1>5, <1>7
  <2>2. /\ Fine(s, uses) /\ w \in Stream /\ w.pending_recv = s.pending_recv
        /\ w.handles = s.handles /\ w.is_recv = s.is_recv /\ w.queued = s.queued
        /\ w.came = s.came /\ w.read = s.read /\ w.state = s.state /\ s.handles # {}
    BY <1>1, <1>5, <1>6
  <2> HIDE DEF s
  <2> QED BY <2>1, <2>2, FineDrained
<1>9. Changes(streams, streams', i) /\ streams'[i] = w
  BY <1>1, <1>3, <1>5, ChangesExcept
<1>10. \A y \in pending : y # x /\ y[1] = i =>
         /\ Holds(streams'[i], y, uses)
         /\ Sleeps(s, ppp, y[3]) => Sleeps(streams'[i], ppp, y[3])
  BY <1>4, <1>5, <1>9 DEF CInv, Calls, Holds, Sleeps, Answers, First
<1>11. Calls(streams', ppp, pending', woken', uses)
  BY <1>2, <1>9, <1>10, CallsReturn
<1> QED BY <1>1, <1>2, <1>5, <1>6, <1>8, <1>9, <1>11, OneKeepsCount

\* A call that finds nothing leaves its waker.
LEMMA KeepsWait ==
  ASSUME CInv, NEW x \in pending, Wait(x)
  PROVE  CInv'
<1> DEFINE i == x[1]
           s == streams[i]
           w == [s EXCEPT !.recv_task = x[2]]
<1>1. /\ i \in slab /\ s \in Stream /\ Fine(s, uses) /\ streams \in [Id -> Stream] /\ i \in Id
      /\ x[2] \in Handle /\ x[2] \in s.handles
  BY CallFacts, Existing
<1>2. /\ pending' = pending /\ woken' = woken \ {x}
      /\ uses' = uses /\ ppp' = ppp /\ promised' = promised /\ slab' = slab /\ ids' = ids
      /\ in_flight_data' = in_flight_data /\ buffer' = buffer
      /\ Nothing(x)
      /\ IF x[3] = "response" THEN ~IsReset(s.state) ELSE ~IsRecvClosed(s.state)
  BY DEF Wait, conn, S
<1>3. streams' = [streams EXCEPT ![i] = w]
  BY DEF Wait
<1>4. /\ w \in Stream /\ w.drained = s.drained /\ w.pending_recv = s.pending_recv
      /\ w.handles = s.handles
      /\ w.is_recv = s.is_recv /\ w.queued = s.queued /\ w.came = s.came /\ w.read = s.read
      /\ w.state = s.state /\ w.in_flight_recv_data = s.in_flight_recv_data
      /\ w.recv_task = x[2]
  BY <1>1 DEF Stream
<1> HIDE DEF w
<1>5. w.recv_task # "none" /\ s.handles # {}
  BY <1>1, <1>4 DEF Handle
<1>6. Fine(w, uses)
  BY <1>1, <1>4, <1>5, FineDrained
<1>7. Changes(streams, streams', i) /\ streams'[i] = w
  BY <1>1, <1>3, <1>4, ChangesExcept
<1>8. uses \subseteq Survived => Sleeps(w, ppp, x[3])
  <2> SUFFICES ASSUME uses \subseteq Survived PROVE Sleeps(w, ppp, x[3])
    OBVIOUS
  <2>1. "oneway" \notin uses
    BY DEF Survived
  <2>2. x[3] # "pushed" => s.pending_recv = <<>>
    <3> SUFFICES ASSUME x[3] # "pushed", s.pending_recv # <<>> PROVE FALSE
      OBVIOUS
    <3>1. Head(s.pending_recv) \in Event
      BY <1>1, StreamFields, HeadOfEvents
    <3> QED BY <1>2, <3>1 DEF Nothing, Front, S, Event
  <2>3. ~Answers(w, ppp, x[3])
    <3>1. x[3] = "pushed" => ppp = <<>>
      BY <1>2 DEF Nothing
    <3>2. x[3] \in {"response", "pushed", "data", "trailers"}
      BY CallFacts
    <3> QED BY <1>4, <2>2, <3>1, <3>2 DEF Answers, First
  <2>4. ~IsRecvClosed(s.state)
    <3>1. CASE x[3] = "response"
      <4>1. "response" \in s.handles
        BY <3>1, CallFacts
      <4> QED BY <1>1, <1>2, <2>1, <2>2, <3>1, <4>1, ResponseInFront
    <3>2. CASE x[3] # "response"
      BY <1>2, <3>2
    <3> QED BY <3>1, <3>2
  <2> QED BY <1>4, <1>5, <2>3, <2>4 DEF Sleeps
<1>9. Calls(streams', ppp, pending', woken', uses)
  <2>1. Attended(s, streams'[i])
    BY <1>4, <1>7 DEF Attended
  <2>2. \A y \in pending : y[1] = i /\ Sleeps(s, ppp, y[3]) => Sleeps(w, ppp, y[3])
    BY <1>4, <1>5 DEF Sleeps, Answers, First
  <2>3. Calls(streams', ppp, pending, woken, uses)
    BY <1>7, <2>1, <2>2, CallsQuiet
  <2>4. \A y \in pending \ woken' : y \in pending \ woken \/ y = x
    BY <1>2
  <2> QED BY <1>2, <1>7, <1>8, <2>3, <2>4 DEF Calls
<1> QED BY <1>1, <1>2, <1>4, <1>5, <1>6, <1>7, <1>9, OneKeepsCount


\* FlowControl::release_capacity
LEMMA KeepsReleaseCapacity ==
  ASSUME CInv, NEW i \in Id, ReleaseCapacity(i)
  PROVE  CInv'
<1> DEFINE s == streams[i]
<1>1. /\ i \in slab /\ "body" \in s.handles /\ s.in_flight_recv_data > 0
      /\ in_flight_data' = in_flight_data - 1
      /\ uses' = uses /\ ppp' = ppp /\ promised' = promised
      /\ slab' = slab /\ ids' = ids /\ buffer' = buffer /\ pending' = pending /\ woken' = woken
  BY DEF ReleaseCapacity, conn
<1>2. s \in Stream /\ Fine(s, uses) /\ streams \in [Id -> Stream]
  BY <1>1, Existing
<1>3. PICK n \in Nat : n = s.in_flight_recv_data - 1 /\ s.in_flight_recv_data = n + 1
  BY <1>1, <1>2, StreamFields
<1> DEFINE w == [s EXCEPT !.in_flight_recv_data = n]
<1>4. streams' = [streams EXCEPT ![i] = w]
  BY <1>2, <1>3 DEF ReleaseCapacity, Stream
<1>5. /\ w \in Stream /\ w.drained = s.drained /\ w.pending_recv = s.pending_recv
      /\ w.handles = s.handles
      /\ w.is_recv = s.is_recv /\ w.queued = s.queued /\ w.came = s.came /\ w.read = s.read
      /\ w.state = s.state /\ w.in_flight_recv_data = n
      /\ w.recv_task = s.recv_task
  BY <1>2, <1>3 DEF Stream
<1> HIDE DEF w
<1>6. Changes(streams, streams', i) /\ streams'[i] = w
  BY <1>2, <1>4, <1>5, ChangesExcept
<1>7. Fine(w, uses) /\ w.handles # {} /\ (i # 0 => "pushes" \notin w.handles)
  <2>1. i # 0 => "pushes" \notin s.handles
    BY <1>1, Existing
  <2>2. s.handles # {}
    BY <1>1
  <2> HIDE DEF s
  <2> QED BY <1>2, <1>5, <2>1, <2>2, FineDrained
<1>8. /\ in_flight_data' = in_flight_data + (w.in_flight_recv_data - s.in_flight_recv_data)
      /\ buffer' = buffer + (Len(w.pending_recv) - Len(s.pending_recv))
  <2>1. in_flight_data \in Nat /\ buffer \in Nat
    BY <1>2, OwedBounds DEF CInv
  <2>2. Len(s.pending_recv) \in Nat
    BY <1>2, StreamFields
  <2> HIDE DEF s
  <2>3. in_flight_data' = in_flight_data + (w.in_flight_recv_data - s.in_flight_recv_data)
    <3>1. in_flight_data - 1 = in_flight_data + (n - (n + 1))
      BY <2>1
    <3> QED BY <1>1, <1>3, <1>5, <3>1, Zenon
  <2>4. buffer' = buffer + (Len(w.pending_recv) - Len(s.pending_recv))
    BY <1>1, <1>5, <2>1, <2>2
  <2> QED BY <2>3, <2>4
<1>9. Calls(streams', ppp, pending', woken', uses)
  <2>1. Attended(s, streams'[i])
    BY <1>5, <1>6 DEF Attended
  <2>2. \A y \in pending : y[1] = i /\ Sleeps(s, ppp, y[3]) => Sleeps(w, ppp, y[3])
    BY <1>5 DEF Sleeps, Answers, First
  <2> QED BY <1>1, <1>6, <2>1, <2>2, CallsQuiet
<1> QED BY <1>1, <1>5, <1>6, <1>7, <1>8, <1>9, OneKeeps

\* SendStream::send_data with the end of the request
LEMMA KeepsEndRequest ==
  ASSUME CInv, EndRequest
  PROVE  CInv'
<1> DEFINE s == streams[0]
           b == SendClose(s.state)
           v == [s EXCEPT !.state = b]
<1>1. 0 \in slab /\ IsSendStreaming(s.state)
  BY DEF EndRequest
<1>2. s \in Stream /\ s.state \in State /\ Fine(s, uses)
  BY <1>1, Existing, StreamFields
<1>3. Follows(s.state, b) /\ Alike(s.state, b)
  BY <1>1, <1>2, FollowsSendClose
<1>4. After(0, v)
  BY DEF EndRequest
<1>5. UNCHANGED conn /\ in_flight_data' = in_flight_data /\ buffer' = buffer
      /\ pending' = pending /\ woken' = woken
  BY DEF EndRequest
<1> HIDE DEF b
<1>6. /\ Same(s, v) /\ v.state = b /\ v.recv_task = s.recv_task
  BY <1>2, <1>3, StateFieldsMove DEF Follows
<1> HIDE DEF v
<1>7. Fine(v, uses)
  BY <1>2, <1>3, <1>6, FineFollows
<1>8. \A x \in pending : x[1] = 0 /\ Sleeps(s, ppp, x[3]) => Sleeps(v, ppp, x[3])
  BY <1>3, <1>6 DEF Sleeps, Answers, First, Same, Alike
<1> QED BY <1>1, <1>4, <1>5, <1>6, <1>7, <1>8, AfterSame

\* SendStream::send_reset
LEMMA KeepsUserReset ==
  ASSUME CInv, UserReset
  PROVE  CInv'
<1> DEFINE s == streams[0]
           w == SendReset(s)
           v == Notify(w)
<1>1. 0 \in slab /\ After(0, v) /\ UNCHANGED conn /\ in_flight_data' = in_flight_data
      /\ buffer' = buffer /\ pending' = pending /\ woken' = woken \cup Notified(0)
  BY DEF UserReset
<1>2. s \in Stream /\ Fine(s, uses)
  BY <1>1, Existing
<1>3. Same(s, w) /\ Follows(s.state, w.state)
  BY <1>2, SendResetFields
<1> HIDE DEF w
<1>4. Same(w, v) /\ v.state = w.state
  BY <1>3, NotifyFields DEF Same
<1> HIDE DEF v
<1>5. Same(s, v)
  BY <1>3, <1>4 DEF Same
<1>6. Fine(v, uses)
  BY <1>2, <1>3, <1>4, <1>5, FineFollows
<1> QED BY <1>1, <1>5, <1>6, AfterSame

\* drop_stream_ref: what is left of the stream, and of one that was promised on it.
Left(s, h) == [IF h = "body" THEN Cleared(s) ELSE s EXCEPT !.handles = s.handles \ {h}]

Dropped(s) == MaybeCancel([s EXCEPT !.queued = FALSE])

\* A handle less; the RecvStream clears what it would have read.
LEMMA LeftFields ==
  ASSUME NEW s \in Stream, NEW h
  PROVE  /\ Left(s, h) \in Stream /\ Left(s, h).handles = s.handles \ {h}
         /\ Left(s, h).state = s.state /\ Left(s, h).recv_task = s.recv_task
         /\ Left(s, h).queued = s.queued /\ Left(s, h).came = s.came
         /\ Left(s, h).read = s.read /\ Left(s, h).drained = s.drained
         /\ Left(s, h).in_flight_recv_data = s.in_flight_recv_data
         /\ h # "body" => /\ Left(s, h).pending_recv = s.pending_recv
                          /\ Left(s, h).is_recv = s.is_recv
         /\ h = "body" => Left(s, h).pending_recv = <<>>
<1> DEFINE c == IF h = "body" THEN Cleared(s) ELSE s
           d == s.handles \ {h}
           v == [c EXCEPT !.handles = d]
<1>1. d \in SUBSET Handle
  BY StreamFields
<1>2. /\ c \in Stream /\ c.state = s.state /\ c.recv_task = s.recv_task
      /\ c.queued = s.queued /\ c.came = s.came /\ c.read = s.read /\ c.drained = s.drained
      /\ c.in_flight_recv_data = s.in_flight_recv_data
      /\ h # "body" => c.pending_recv = s.pending_recv /\ c.is_recv = s.is_recv
      /\ h = "body" => c.pending_recv = <<>>
  <2>1. CASE h = "body"
    <3>1. <<>> \in Seq(Event) /\ FALSE \in BOOLEAN
      OBVIOUS
    <3>2. c = [s EXCEPT !.is_recv = FALSE, !.pending_recv = <<>>]
      BY <2>1 DEF Cleared
    <3> HIDE DEF c
    <3> QED BY <2>1, <3>1, <3>2 DEF Stream
  <2>2. CASE h # "body"
    BY <2>2
  <2> QED BY <2>1, <2>2
<1>3. v = Left(s, h)
  BY DEF Left
<1> HIDE DEF c, d
<1>4. /\ v \in Stream /\ v.handles = d /\ v.state = c.state /\ v.recv_task = c.recv_task
      /\ v.queued = c.queued /\ v.came = c.came /\ v.read = c.read /\ v.drained = c.drained
      /\ v.in_flight_recv_data = c.in_flight_recv_data
      /\ v.pending_recv = c.pending_recv /\ v.is_recv = c.is_recv
  BY <1>1, <1>2 DEF Stream
<1> HIDE DEF v
<1> QED BY <1>2, <1>3, <1>4 DEF d

\* Recv::clear_recv_buffer and release_closed_capacity.
LEMMA GivenBackFields ==
  ASSUME NEW s \in Stream
  PROVE  /\ GivenBack(s) \in Stream /\ GivenBack(s).handles = s.handles
         /\ GivenBack(s).state = s.state /\ GivenBack(s).queued = s.queued
         /\ GivenBack(s).came = s.came /\ GivenBack(s).read = s.read
         /\ GivenBack(s).drained = s.drained
         /\ GivenBack(s).in_flight_recv_data = 0
         /\ \/ GivenBack(s).pending_recv = <<>>
            \/ s.in_flight_recv_data = 0 /\ GivenBack(s).pending_recv = s.pending_recv
<1>1. CASE s.in_flight_recv_data = 0
  BY <1>1 DEF GivenBack
<1>2. CASE s.in_flight_recv_data # 0
  <2>1. <<>> \in Seq(Event) /\ 0 \in Nat
    OBVIOUS
  <2>2. GivenBack(s) = [s EXCEPT !.in_flight_recv_data = 0, !.pending_recv = <<>>]
    BY <1>2 DEF GivenBack
  <2> QED BY <2>1, <2>2 DEF Stream
<1> QED BY <1>1, <1>2

\* The last handle: the stream is over, and what it had is given back.
LEMMA LastFields ==
  ASSUME NEW s \in Stream, NEW h, s.handles \ {h} = {}, NEW u,
         NEW v, v = GivenBack(MaybeCancel(Left(s, h))),
         /\ h # "body" /\ s.pending_recv # <<>> /\ s.in_flight_recv_data = 0 => "unread" \in u
  PROVE  /\ v \in Stream /\ v.handles = {} /\ v.queued = s.queued /\ IsClosed(v.state)
         /\ v.came = s.came /\ v.read = s.read /\ v.drained = s.drained
         /\ "unread" \notin u => v.in_flight_recv_data = 0 /\ v.pending_recv = <<>>
<1> DEFINE a == Left(s, h)
           b == MaybeCancel(a)
<1>1. /\ a \in Stream /\ a.handles = {} /\ a.queued = s.queued /\ a.came = s.came
      /\ a.read = s.read /\ a.drained = s.drained
      /\ a.in_flight_recv_data = s.in_flight_recv_data
      /\ h # "body" => a.pending_recv = s.pending_recv
      /\ h = "body" => a.pending_recv = <<>>
  BY LeftFields
<1> HIDE DEF a
<1>2. Same(a, b) /\ IsClosed(b.state)
  BY <1>1, MaybeCancelFields
<1>3. v = GivenBack(b)
  BY DEF a
<1> HIDE DEF b
<1>4. /\ b \in Stream /\ b.handles = {} /\ b.queued = s.queued /\ b.came = s.came
      /\ b.read = s.read /\ b.drained = s.drained
      /\ b.in_flight_recv_data = s.in_flight_recv_data /\ b.pending_recv = a.pending_recv
  BY <1>1, <1>2 DEF Same
<1>5. /\ v \in Stream /\ v.handles = {} /\ v.queued = s.queued /\ v.state = b.state
      /\ v.came = s.came /\ v.read = s.read /\ v.drained = s.drained
      /\ v.in_flight_recv_data = 0
      /\ v.pending_recv = <<>> \/ (s.in_flight_recv_data = 0 /\ v.pending_recv = b.pending_recv)
  BY <1>3, <1>4, GivenBackFields
<1> QED BY <1>1, <1>2, <1>4, <1>5

\* A stream that was only promised is cancelled.
LEMMA DroppedFields ==
  ASSUME NEW s \in Stream, s.handles = {}
  PROVE  /\ Dropped(s) \in Stream /\ Dropped(s).handles = {} /\ Dropped(s).queued = FALSE
         /\ IsClosed(Dropped(s).state) /\ Dropped(s).came = s.came /\ Dropped(s).read = s.read
         /\ Dropped(s).drained = s.drained
         /\ Dropped(s).in_flight_recv_data = s.in_flight_recv_data
         /\ Dropped(s).pending_recv = s.pending_recv
<1> DEFINE a == [s EXCEPT !.queued = FALSE]
           b == MaybeCancel(a)
<1>1. /\ a \in Stream /\ a.handles = {} /\ a.queued = FALSE /\ a.came = s.came
      /\ a.read = s.read /\ a.drained = s.drained
      /\ a.in_flight_recv_data = s.in_flight_recv_data /\ a.pending_recv = s.pending_recv
  BY DEF Stream
<1> HIDE DEF a
<1>2. Same(a, b) /\ IsClosed(b.state)
  BY <1>1, MaybeCancelFields
<1>3. Dropped(s) = b
  BY DEF Dropped, a
<1> HIDE DEF b
<1> QED BY <1>1, <1>2, <1>3 DEF Same

\* drop_stream_ref
LEMMA KeepsDropHandle ==
  ASSUME CInv, NEW i \in Id, NEW h \in Handle, DropHandle(i, h)
  PROVE  CInv'
<1> DEFINE s0    == streams[i]
           last  == Left(s0, h).handles = {}
           kept  == IF last THEN GivenBack(MaybeCancel(Left(s0, h))) ELSE Left(s0, h)
           drops == IF last /\ i = 0 THEN {ppp[j] : j \in DOMAIN ppp} ELSE {}
           str   == [c \in Id |-> IF c = i THEN kept
                                  ELSE IF c \in drops THEN Dropped(streams[c]) ELSE streams[c]]
           mid   == [streams EXCEPT ![i] = kept]
<1>1. /\ i \in slab /\ h \in s0.handles
      /\ Unread(i, h) => "unread" \in uses
      /\ h = "body" /\ "pushes" \in s0.handles => "dropbody" \in uses
      /\ pending' = {x \in pending : ~(x[1] = i /\ x[2] = h)} /\ woken' = woken \cap pending'
      /\ uses' = uses /\ promised' = promised
  BY DEF DropHandle
<1>2. /\ s0 \in Stream /\ Fine(s0, uses) /\ streams \in [Id -> Stream]
      /\ i <= promised /\ (i # 0 => "pushes" \notin s0.handles)
  BY <1>1, Existing
<1>3. /\ Transition(str)
      /\ ppp' = IF last /\ i = 0 THEN <<>> ELSE ppp
      /\ in_flight_data' = in_flight_data - (s0.in_flight_recv_data - kept.in_flight_recv_data)
      /\ buffer' = buffer - (Len(s0.pending_recv) - Len(kept.pending_recv))
  <2> DEFINE s == IF h = "body" THEN Cleared(s0) ELSE s0
             left == [s EXCEPT !.handles = @ \ {h}]
  <2>1. s.handles = s0.handles /\ s.in_flight_recv_data = s0.in_flight_recv_data
    BY <1>2 DEF Cleared, Stream
  <2>2. left = Left(s0, h)
    BY <2>1 DEF Left
  <2> HIDE DEF s0
  <2> QED BY <2>1, <2>2 DEF DropHandle, Dropped, s0
<1> HIDE DEF kept, drops
<1>4. s0.queued = FALSE /\ s0.handles # {}
  BY <1>1, <1>2, StreamFields DEF Fine
<1>5. /\ last <=> s0.handles \ {h} = {}
      /\ last => kept = GivenBack(MaybeCancel(Left(s0, h)))
      /\ ~last => kept = Left(s0, h)
  BY <1>2, LeftFields DEF kept
<1>6. last /\ h # "body" /\ s0.pending_recv # <<>> /\ s0.in_flight_recv_data = 0
        => "unread" \in uses
  BY <1>1, <1>5 DEF Unread
<1>7. last => /\ kept \in Stream /\ kept.handles = {} /\ kept.queued = FALSE
              /\ IsClosed(kept.state) /\ kept.came = s0.came
              /\ kept.read = s0.read /\ kept.drained = s0.drained
              /\ "unread" \notin uses => kept.in_flight_recv_data = 0 /\ kept.pending_recv = <<>>
  <2> SUFFICES ASSUME last
               PROVE  /\ kept \in Stream /\ kept.handles = {} /\ kept.queued = FALSE
                      /\ IsClosed(kept.state) /\ kept.came = s0.came
                      /\ kept.read = s0.read /\ kept.drained = s0.drained
                      /\ "unread" \notin uses =>
                           kept.in_flight_recv_data = 0 /\ kept.pending_recv = <<>>
    OBVIOUS
  <2>1. /\ s0 \in Stream /\ s0.handles \ {h} = {} /\ s0.queued = FALSE
        /\ kept = GivenBack(MaybeCancel(Left(s0, h)))
        /\ h # "body" /\ s0.pending_recv # <<>> /\ s0.in_flight_recv_data = 0 => "unread" \in uses
    BY <1>2, <1>4, <1>5, <1>6
  <2> HIDE DEF s0, last
  <2> QED BY <2>1, LastFields
<1>8. ~last => /\ kept \in Stream /\ kept.handles = s0.handles \ {h} /\ kept.handles # {}
               /\ kept.state = s0.state /\ kept.recv_task = s0.recv_task
               /\ kept.queued = FALSE /\ kept.came = s0.came
               /\ kept.read = s0.read /\ kept.drained = s0.drained
               /\ kept.in_flight_recv_data = s0.in_flight_recv_data
               /\ h # "body" => /\ kept.pending_recv = s0.pending_recv
                                /\ kept.is_recv = s0.is_recv
               /\ h = "body" => kept.pending_recv = <<>>
  BY <1>2, <1>4, <1>5, LeftFields
<1>9. Fine(kept, uses)
  <2>1. CASE last
    <3>1. /\ kept \in Stream /\ kept.handles = {} /\ ~kept.queued /\ IsClosed(kept.state)
          /\ kept.came = s0.came /\ kept.read = s0.read /\ kept.drained = s0.drained
          /\ "unread" \notin uses => kept.in_flight_recv_data = 0 /\ kept.pending_recv = <<>>
      BY <1>7, <2>1
    <3> HIDE DEF s0, last
    <3> QED BY <1>2, <3>1, FineDropLast
  <2>2. CASE ~last /\ h = "body"
    <3>1. /\ kept \in Stream /\ kept.handles = s0.handles \ {"body"} /\ kept.handles # {}
          /\ kept.queued = s0.queued /\ kept.state = s0.state
          /\ kept.came = s0.came /\ kept.read = s0.read /\ kept.drained = s0.drained
          /\ "body" \in s0.handles /\ ("pushes" \in s0.handles => "dropbody" \in uses)
      BY <1>1, <1>4, <1>8, <2>2
    <3> HIDE DEF s0, last
    <3> QED BY <1>2, <3>1, FineDropBody
  <2>3. CASE ~last /\ h # "body"
    <3>1. /\ kept \in Stream /\ kept.handles = s0.handles \ {h} /\ kept.handles # {}
          /\ kept.queued = s0.queued /\ kept.state = s0.state
          /\ kept.pending_recv = s0.pending_recv /\ kept.is_recv = s0.is_recv
          /\ kept.came = s0.came /\ kept.read = s0.read /\ kept.drained = s0.drained
          /\ h \in s0.handles
      BY <1>1, <1>4, <1>8, <2>3
    <3> HIDE DEF s0, last
    <3> QED BY <1>2, <2>3, <3>1, FineDropOther
  <2> QED BY <2>1, <2>2, <2>3
<1>10. kept \in Stream /\ kept.queued = FALSE
       /\ kept.drained = s0.drained /\ (i # 0 => "pushes" \notin kept.handles)
  BY <1>2, <1>7, <1>8
<1>11. Changes(streams, mid, i) /\ mid[i] = kept
  BY <1>2, <1>10, ChangesExcept
<1>12. mid \in [Id -> Stream] /\ \A c \in Id : c # i => mid[c] = streams[c]
  BY <1>11 DEF Changes
<1>13. Owed(mid, in_flight_data', buffer', uses)
  <2>1. Owed(streams, in_flight_data, buffer, uses)
    BY DEF CInv
  <2>2. in_flight_data \in Nat /\ buffer \in Nat
    BY <1>2, <2>1, OwedBounds
  <2>3. /\ s0.in_flight_recv_data \in Nat /\ Len(s0.pending_recv) \in Nat
        /\ kept.in_flight_recv_data \in Nat /\ Len(kept.pending_recv) \in Nat
    BY <1>2, <1>10, StreamFields
  <2>4. in_flight_data' = in_flight_data + (kept.in_flight_recv_data - s0.in_flight_recv_data)
    <3> HIDE DEF s0, last
    <3> QED BY <1>3, <2>2, <2>3
  <2>5. buffer' = buffer + (Len(kept.pending_recv) - Len(s0.pending_recv))
    <3> HIDE DEF s0, last
    <3> QED BY <1>3, <2>2, <2>3
  <2> QED BY <1>11, <2>1, <2>4, <2>5, OwedChanges
<1>14. drops # {} => last /\ i = 0 /\ "unread" \in uses
  <2> SUFFICES ASSUME drops # {} PROVE last /\ i = 0 /\ "unread" \in uses
    OBVIOUS
  <2>1. last /\ i = 0
    BY DEF drops
  <2>2. ppp # <<>>
    BY <2>1 DEF drops
  <2>3. s0.handles = {h}
    BY <1>1, <1>5, <2>1
  <2> QED BY <1>1, <2>1, <2>2, <2>3 DEF Unread
<1>15. /\ \A c \in drops : c \in Id /\ c # i /\ c # 0 /\ c <= promised /\ streams[c].queued
       /\ last /\ i = 0 => \A c \in Id : streams[c].queued => c \in drops
  <2>1. ppp \in Seq(1 .. promised) /\ promised \in 0 .. MaxPush
    BY DEF CInv, Book, Queue
  <2>2. DOMAIN ppp = 1 .. Len(ppp) /\ \A j \in 1 .. Len(ppp) : ppp[j] \in 1 .. promised
    BY <2>1, LenProperties, ElementOfSeq
  <2>3. \A c \in Id : streams[c].queued <=> Listed(ppp, c)
    BY DEF CInv, Book
  <2>4. ASSUME NEW c \in drops
        PROVE  c \in Id /\ c # i /\ c # 0 /\ c <= promised /\ streams[c].queued
    <3>1. i = 0 /\ \E j \in 1 .. Len(ppp) : c = ppp[j]
      BY <2>2 DEF drops
    <3>2. c \in 1 .. promised /\ Listed(ppp, c)
      BY <2>2, <3>1 DEF Listed
    <3>3. c \in Id /\ c # 0 /\ c <= promised
      BY <2>1, <3>2, H2ClientAssumption DEF Id
    <3> QED BY <2>3, <3>1, <3>2, <3>3
  <2>5. ASSUME last, i = 0, NEW c \in Id, streams[c].queued PROVE c \in drops
    <3>1. \E j \in 1 .. Len(ppp) : ppp[j] = c
      BY <2>3, <2>5 DEF Listed
    <3> QED BY <2>2, <2>5, <3>1 DEF drops
  <2> QED BY <2>4, <2>5
<1>16. \A c \in drops :
         /\ streams[c] \in Stream /\ streams[c].handles = {} /\ Fine(streams[c], uses)
         /\ c \in slab
  <2> SUFFICES ASSUME NEW c \in drops
               PROVE  /\ streams[c] \in Stream /\ streams[c].handles = {}
                      /\ Fine(streams[c], uses) /\ c \in slab
    OBVIOUS
  <2>1. c \in Id /\ streams[c].queued
    BY <1>15
  <2>2. Fine(streams[c], uses)
    BY <2>1 DEF CInv, Book, Kept
  <2>3. c \in slab
    BY <2>1, GoneFields DEF CInv, Housed
  <2> QED BY <2>2, <2>3, <2>1 DEF Fine
<1>17. /\ str[i] = kept
       /\ \A c \in drops : str[c] = Dropped(streams[c])
       /\ \A c \in Id : c # i /\ c \notin drops => str[c] = streams[c]
       /\ str \in [Id -> Stream]
  <2>1. str[i] = kept
    OBVIOUS
  <2>2. \A c \in drops : str[c] = Dropped(streams[c])
    BY <1>15
  <2>3. \A c \in Id : c # i /\ c \notin drops => str[c] = streams[c]
    OBVIOUS
  <2>4. \A c \in Id : str[c] \in Stream
    BY <1>2, <1>10, <1>16, <2>1, <2>2, <2>3, DroppedFields
  <2> QED BY <2>1, <2>2, <2>3, <2>4
<1> HIDE DEF str, mid
<1>18. Owed(str, in_flight_data', buffer', uses)
  <2>1. \A c \in Id : /\ str[c].in_flight_recv_data = mid[c].in_flight_recv_data
                      /\ str[c].pending_recv = mid[c].pending_recv
    <3> SUFFICES ASSUME NEW c \in Id
                 PROVE  /\ str[c].in_flight_recv_data = mid[c].in_flight_recv_data
                        /\ str[c].pending_recv = mid[c].pending_recv
      OBVIOUS
    <3>1. CASE c \in drops
      <4>1. streams[c] \in Stream /\ streams[c].handles = {} /\ str[c] = Dropped(streams[c])
        BY <1>16, <1>17, <3>1
      <4>2. /\ Dropped(streams[c]).in_flight_recv_data = streams[c].in_flight_recv_data
            /\ Dropped(streams[c]).pending_recv = streams[c].pending_recv
        BY <4>1, DroppedFields
      <4>3. mid[c] = streams[c]
        BY <1>12, <1>15, <3>1
      <4> QED BY <4>1, <4>2, <4>3
    <3>2. CASE c \notin drops
      BY <1>11, <1>12, <1>17, <3>2
    <3> QED BY <3>1, <3>2
  <2> QED BY <1>12, <1>13, <1>17, <2>1, OwedSame
<1>19. Housed(str, slab, ids)
  BY <1>1, <1>16, <1>17 DEF CInv, Housed
<1>20. Book(str, ppp', promised', uses)
  <2>1. \A c \in Id : Kept(str[c], c, promised, uses)
    <3> SUFFICES ASSUME NEW c \in Id PROVE Kept(str[c], c, promised, uses)
      OBVIOUS
    <3>1. CASE c = i
      <4>1. ~(i > promised)
        <5>1. promised \in Nat /\ i \in Nat
          BY H2ClientAssumption, IdIsFinite DEF CInv, Book
        <5> QED BY <1>2, <5>1
      <4> QED BY <1>9, <1>10, <1>17, <3>1, <4>1 DEF Kept
    <3>2. CASE c \in drops
      <4>1. ~(c > promised)
        <5>1. promised \in Nat /\ c \in Nat
          BY H2ClientAssumption, IdIsFinite DEF CInv, Book
        <5> QED BY <1>15, <3>2, <5>1
      <4> DEFINE d == Dropped(streams[c])
      <4>2. /\ d \in Stream /\ d.handles = {} /\ ~d.queued
            /\ IsClosed(d.state) /\ d.came = streams[c].came /\ d.read = streams[c].read
            /\ d.drained = streams[c].drained
        BY <1>16, <3>2, DroppedFields
      <4>3. "unread" \in uses
        BY <1>14, <3>2
      <4>4. str[c] = d /\ Fine(streams[c], uses)
        BY <1>16, <1>17, <3>2
      <4> HIDE DEF d
      <4>5. Fine(d, uses)
        BY <4>2, <4>3, <4>4, FineDropLast
      <4> QED BY <4>1, <4>2, <4>4, <4>5 DEF Kept
    <3>3. CASE c # i /\ c \notin drops
      BY <1>17, <3>3 DEF CInv, Book
    <3> QED BY <3>1, <3>2, <3>3
  <2>2. Queue(ppp', promised) /\ (ppp' # <<>> => str[0].handles # {})
        /\ \A c \in Id : str[c].queued <=> Listed(ppp', c)
    <3>1. CASE last /\ i = 0
      <4>1. ppp' = <<>>
        BY <1>3, <3>1
      <4>2. \A c \in Id : str[c].queued = FALSE
        <5> SUFFICES ASSUME NEW c \in Id PROVE str[c].queued = FALSE
          OBVIOUS
        <5>1. CASE c = i
          BY <1>10, <1>17, <5>1
        <5>2. CASE c \in drops
          <6>1. streams[c] \in Stream /\ streams[c].handles = {} /\ str[c] = Dropped(streams[c])
            BY <1>16, <1>17, <5>2
          <6>2. Dropped(streams[c]).queued = FALSE
            BY <6>1, DroppedFields
          <6> QED BY <6>1, <6>2
        <5>3. CASE c # i /\ c \notin drops
          <6>1. ~streams[c].queued /\ streams[c] \in Stream
            BY <1>2, <1>15, <3>1, <5>3
          <6> QED BY <1>17, <5>3, <6>1, StreamFields
        <5> QED BY <5>1, <5>2, <5>3
      <4>3. <<>> \in Seq(1 .. promised) /\ Len(<<>>) = 0 /\ 1 .. 0 = {}
        OBVIOUS
      <4> QED BY <4>1, <4>2, <4>3 DEF Queue, Listed
    <3>2. CASE ~(last /\ i = 0)
      <4>1. ppp' = ppp /\ drops = {}
        BY <1>3, <3>2 DEF drops
      <4>2. str[0].handles # {} \/ ppp = <<>>
        <5>1. CASE i = 0
          BY <1>8, <1>17, <3>2, <5>1
        <5>2. CASE i # 0
          BY <1>17, <4>1, <5>2, IdIsFinite DEF CInv, Book
        <5> QED BY <5>1, <5>2
      <4>3. \A c \in Id : str[c].queued <=> streams[c].queued
        BY <1>4, <1>10, <1>17, <4>1
      <4> QED BY <4>1, <4>2, <4>3 DEF CInv, Book
    <3> QED BY <3>1, <3>2
  <2> QED BY <1>1, <1>17, <2>1, <2>2 DEF CInv, Book
<1>21. Calls(str, ppp', pending', woken', uses)
  <2>1. pending' \subseteq Call /\ woken' \subseteq pending' /\ OneEach(pending')
    BY <1>1 DEF CInv, Calls, OneEach
  <2>2. ASSUME NEW x \in pending'
        PROVE  /\ Holds(str[x[1]], x, uses)
               /\ Sleeps(streams[x[1]], ppp, x[3]) => Sleeps(str[x[1]], ppp', x[3])
    <3>1. x \in pending /\ ~(x[1] = i /\ x[2] = h)
      BY <1>1
    <3>2. /\ x[1] \in Id /\ x[2] \in streams[x[1]].handles
          /\ Holds(streams[x[1]], x, uses)
          /\ x[3] = "pushed" => x[1] = 0
          /\ x[3] \in {"response", "pushed", "data", "trailers"}
      BY <3>1, CallFacts DEF CInv, Calls
    <3>3. CASE x[1] = i
      <4>1. ~last /\ kept.handles = s0.handles \ {h} /\ x[2] \in kept.handles
        BY <1>5, <1>8, <3>1, <3>2, <3>3
      <4>2. ppp' = ppp /\ str[x[1]] = kept
        BY <1>3, <1>17, <3>3, <4>1
      <4>3. Holds(kept, x, uses)
        BY <1>10, <3>2, <3>3, <4>1 DEF Holds
      <4>4. Sleeps(s0, ppp, x[3]) => Sleeps(kept, ppp, x[3])
        <5>1. CASE h # "body"
          BY <1>8, <4>1, <5>1 DEF Sleeps, Answers, First
        <5>2. CASE h = "body"
          BY <1>8, <3>2, <4>1, <5>2 DEF Sleeps, Answers, First
        <5> QED BY <5>1, <5>2
      <4> QED BY <3>3, <4>2, <4>3, <4>4
    <3>4. CASE x[1] # i
      <4>1. x[1] \notin drops
        BY <1>16, <3>2
      <4>2. str[x[1]] = streams[x[1]]
        BY <1>17, <3>2, <3>4, <4>1
      <4>3. x[3] = "pushed" => ppp' = ppp
        BY <1>3, <3>2, <3>4
      <4> QED BY <3>2, <4>2, <4>3 DEF Sleeps, Answers
    <3> QED BY <3>3, <3>4
  <2>3. ASSUME uses \subseteq Survived, NEW x \in pending' \ woken'
        PROVE  Sleeps(str[x[1]], ppp', x[3])
    <3>1. x \in pending \ woken
      BY <1>1
    <3>2. Sleeps(streams[x[1]], ppp, x[3])
      BY <2>3, <3>1 DEF CInv, Calls
    <3> QED BY <2>2, <3>2
  <2> QED BY <2>1, <2>2, <2>3 DEF Calls
<1>22. Transition(str)
  BY <1>3
<1> QED BY <1>1, <1>18, <1>19, <1>20, <1>21, <1>22, TransitionKeeps

-----------------------------------------------------------------------------
(* Every behaviour.                                                          *)

\* SendRequest::send_request: the client has one request, and nobody waits.
LEMMA InitKeeps ==
  ASSUME Init
  PROVE  CInv
<1>1. PICK a \in {Open("Streaming", "AwaitingHeaders"), HalfClosedLocal("AwaitingHeaders")} :
        streams = [i \in Id |->
          IF i = 0 THEN New(a, {"response", "send"} \cup ({"pushes"} \cap uses)) ELSE Gone]
  BY DEF Init
<1> DEFINE h == {"response", "send"} \cup ({"pushes"} \cap uses)
           s == New(a, h)
<1>2. /\ uses \in Scopes /\ slab = {0} /\ ids = {0} /\ ppp = <<>> /\ promised = 0
      /\ in_flight_data = 0 /\ buffer = 0 /\ pending = {} /\ woken = {}
  BY DEF Init
<1>3. a \in State /\ ~IsRecvStreaming(a) /\ ~IsRecvClosed(a)
  <2>1. a \in State
    BY StateValues DEF Peers
  <2> QED BY <2>1 DEF IsRecvStreaming, IsRecvClosed, Open, HalfClosedLocal, Value
<1>4. h \in SUBSET Handle /\ "body" \notin h /\ h # {}
  BY DEF Handle
<1>5. streams = [i \in Id |-> IF i = 0 THEN s ELSE Gone]
  BY <1>1
<1> HIDE DEF h
<1>6. Fine(s, uses)
  BY <1>3, <1>4, FineRequest
<1>7. /\ s \in Stream /\ s.handles = h /\ s.queued = FALSE
      /\ s.in_flight_recv_data = 0 /\ s.pending_recv = <<>>
  <2>1. a \in State /\ h \in SUBSET Handle
    BY <1>3, <1>4
  <2>2. /\ New(a, h) \in Stream /\ New(a, h).handles = h /\ New(a, h).queued = FALSE
        /\ New(a, h).in_flight_recv_data = 0 /\ New(a, h).pending_recv = <<>>
    <3> HIDE DEF s
    <3>1. PICK g \in SUBSET Handle : g = h
      BY <2>1
    <3>2. New(a, g) \in Stream
      BY <2>1, NewFields
    <3>3. /\ New(a, g).handles = g /\ New(a, g).queued = FALSE
          /\ New(a, g).in_flight_recv_data = 0 /\ New(a, g).pending_recv = <<>>
      BY DEF New
    <3> QED BY <3>1, <3>2, <3>3
  <2> QED BY <2>2
<1> HIDE DEF s
<1>8. /\ streams \in [Id -> Stream] /\ streams[0] = s
      /\ \A i \in Id : i # 0 => streams[i] = Gone
  BY <1>5, <1>7, GoneFields, IdIsFinite
<1>9. Book(streams, ppp, promised, uses)
  <2>1. uses \subseteq Use /\ 0 \in 0 .. MaxPush
    BY <1>2, H2ClientAssumption
  <2>2. Len(<<>>) = 0 /\ <<>> \in Seq(1 .. 0) /\ 1 .. 0 = {}
    OBVIOUS
  <2>3. Queue(<<>>, 0) /\ \A i : ~Listed(<<>>, i)
    BY <2>2 DEF Queue, Listed
  <2>4. \A i \in Id : Kept(streams[i], i, 0, uses)
    <3> SUFFICES ASSUME NEW i \in Id PROVE Kept(streams[i], i, 0, uses)
      OBVIOUS
    <3>1. CASE i = 0
      BY <1>6, <1>8, <3>1 DEF Kept
    <3>2. CASE i # 0
      BY <1>8, <3>2, GoneFields DEF Kept
    <3> QED BY <3>1, <3>2
  <2>5. \A i \in Id : streams[i].queued = FALSE
    BY <1>7, <1>8, GoneFields
  <2> QED BY <1>2, <1>8, <2>1, <2>3, <2>4, <2>5 DEF Book
<1>10. Housed(streams, slab, ids)
  BY <1>2, <1>8, IdIsFinite DEF Housed
<1>11. \A i \in slab : ~Released(streams[i])
  BY <1>2, <1>4, <1>7, <1>8 DEF Released
<1>12. Owed(streams, in_flight_data, buffer, uses)
  <2>1. Len(<<>>) = 0
    OBVIOUS
  <2>2. \A i \in Id : Flights(streams)[i] = 0 /\ Lengths(streams)[i] = 0
    <3> SUFFICES ASSUME NEW i \in Id PROVE Flights(streams)[i] = 0 /\ Lengths(streams)[i] = 0
      OBVIOUS
    <3>1. streams[i].in_flight_recv_data = 0 /\ streams[i].pending_recv = <<>>
      BY <1>7, <1>8, GoneFields
    <3> QED BY <2>1, <3>1 DEF Flights, Lengths
  <2>3. SumOf(Flights(streams), Id) = 0 /\ SumOf(Lengths(streams), Id) = 0
    <3>1. Flights(streams) \in [Id -> Int] /\ Lengths(streams) \in [Id -> Int]
      BY <1>8, SumTypes
    <3>2. IsFiniteSet(Id) /\ {} \in SUBSET Id
      BY IdIsFinite
    <3>3. SumOf(Flights(streams), {}) = SumOf(Flights(streams), Id)
      BY <2>2, <3>1, <3>2, SumWithoutZeros
    <3>4. SumOf(Lengths(streams), {}) = SumOf(Lengths(streams), Id)
      BY <2>2, <3>1, <3>2, SumWithoutZeros
    <3> QED BY <3>3, <3>4, SumOfNothing
  <2> QED BY <1>2, <2>3 DEF Owed, Covers
<1>13. Calls(streams, ppp, pending, woken, uses)
  BY <1>2 DEF Calls, OneEach
<1> QED BY <1>9, <1>10, <1>11, <1>12, <1>13 DEF CInv

\* The frames of the server, and the end of the connection.
LEMMA ServerKeeps ==
  ASSUME CInv, Server
  PROVE  CInv'
<1>1. ASSUME NEW i \in Id, NEW informational \in BOOLEAN, NEW eos \in BOOLEAN,
             RecvHeaders(i, informational, eos)
      PROVE  CInv'
  BY <1>1, KeepsRecvHeaders
<1>2. ASSUME NEW i \in Id, NEW eos \in BOOLEAN, RecvData(i, eos) PROVE CInv'
  BY <1>2, KeepsRecvData
<1>3. ASSUME NEW i \in Id, RecvTrailers(i) \/ RecvMismatch(i) \/ RecvRst(i) \/ PopFrame(i)
      PROVE  CInv'
  BY <1>3, KeepsRecvTrailers, KeepsRecvMismatch, KeepsRecvRst, KeepsPopFrame
<1>4. CASE RecvPushPromise
  BY <1>4, KeepsRecvPushPromise
<1>5. CASE RecvBadPromise
  BY <1>5, KeepsRecvBadPromise
<1>6. CASE ConnectionEnds
  BY <1>6, KeepsEnds DEF ConnectionEnds
<1>7. CASE PromiseOnCancelled
  BY <1>7, KeepsEnds DEF PromiseOnCancelled
<1> QED BY <1>1, <1>2, <1>3, <1>4, <1>5, <1>6, <1>7 DEF Server

\* The readers.
LEMMA ReaderKeeps ==
  ASSUME CInv, Reader
  PROVE  CInv'
<1>1. ASSUME NEW i \in Id, NEW h \in Handle, DropHandle(i, h) PROVE CInv'
  BY <1>1, KeepsDropHandle
<1>2. ASSUME NEW i \in Id, NEW h \in Handle, NEW op \in Asks[h], Start(i, h, op) PROVE CInv'
  BY <1>2, KeepsStart
<1>3. ASSUME NEW x \in pending, Cancel(x) PROVE CInv'
  BY <1>3, KeepsCancel
<1>4. ASSUME NEW x \in pending, Poll(x) PROVE CInv'
  BY <1>4, KeepsTake, KeepsTakePush, KeepsDataOver, KeepsNotYet, KeepsFails, KeepsOver, KeepsWait
     DEF Poll
<1>5. ASSUME NEW i \in Id, ReleaseCapacity(i) PROVE CInv'
  BY <1>5, KeepsReleaseCapacity
<1>6. CASE EndRequest
  BY <1>6, KeepsEndRequest
<1>7. CASE UserReset
  BY <1>7, KeepsUserReset
<1> QED BY <1>1, <1>2, <1>3, <1>4, <1>5, <1>6, <1>7 DEF Reader

\* What the connection has counted is that of the streams in the slab.
LEMMA OwedInSlab ==
  ASSUME CInv, "unread" \notin uses
  PROVE  /\ in_flight_data = MapThenSumSet(LAMBDA i : streams[i].in_flight_recv_data, slab)
         /\ buffer = MapThenSumSet(LAMBDA i : Len(streams[i].pending_recv), slab)
<1> DEFINE F == Flights(streams)
           G == Lengths(streams)
<1>1. streams \in [Id -> Stream] /\ slab \in SUBSET Id /\ IsFiniteSet(Id) /\ IsFiniteSet(slab)
  BY IdIsFinite, FS_Subset DEF CInv, Book, Housed
<1>2. /\ F \in [Id -> Nat] /\ G \in [Id -> Nat]
      /\ \A i \in Id : F[i] = streams[i].in_flight_recv_data /\ G[i] = Len(streams[i].pending_recv)
  BY <1>1, SumTypes
<1>3. in_flight_data = SumOf(F, Id) /\ buffer = SumOf(G, Id)
  BY DEF CInv, Owed, Covers
<1> HIDE DEF F, G
<1>4. \A i \in Id \ slab : F[i] = 0 /\ G[i] = 0
  <2>1. Len(<<>>) = 0
    OBVIOUS
  <2> QED BY <1>2, <2>1, GoneFields DEF CInv, Housed
<1>5. F \in [Id -> Int] /\ G \in [Id -> Int]
  BY <1>2
<1>6. SumOf(F, slab) = SumOf(F, Id)
  BY <1>1, <1>4, <1>5, SumWithoutZeros
<1>7. SumOf(G, slab) = SumOf(G, Id)
  BY <1>1, <1>4, <1>5, SumWithoutZeros
<1>8. \A t \in SUBSET slab : t # {} => Chosen(t) \in Id
  BY <1>1 DEF Chosen
<1>9. SumOf(F, slab) = MapThenSumSet(LAMBDA i : streams[i].in_flight_recv_data, slab)
  <2> DEFINE P(it) == it = [t \in SUBSET slab |-> IF t = {} THEN 0
                             ELSE streams[Chosen(t)].in_flight_recv_data + it[t \ {Chosen(t)}]]
             jt == CHOOSE it : P(it)
  <2>1. \A it : P(it) <=> Adds(it, F, slab)
    BY <1>2, <1>8 DEF Adds
  <2>2. PICK kt : Adds(kt, F, slab) /\ SumOf(F, slab) = kt[slab]
    BY <1>1, SumAdds
  <2>3. Adds(jt, F, slab)
    BY <2>1, <2>2
  <2>4. jt = kt
    BY <1>1, <2>2, <2>3, AddsUnique
  <2>5. MapThenSumSet(LAMBDA i : streams[i].in_flight_recv_data, slab) = jt[slab]
    BY DEF MapThenSumSet, MapThenFoldSet, Chosen
  <2> QED BY <2>2, <2>4, <2>5
<1>10. SumOf(G, slab) = MapThenSumSet(LAMBDA i : Len(streams[i].pending_recv), slab)
  <2> DEFINE P(it) == it = [t \in SUBSET slab |-> IF t = {} THEN 0
                             ELSE Len(streams[Chosen(t)].pending_recv) + it[t \ {Chosen(t)}]]
             jt == CHOOSE it : P(it)
  <2>1. \A it : P(it) <=> Adds(it, G, slab)
    BY <1>2, <1>8 DEF Adds
  <2>2. PICK kt : Adds(kt, G, slab) /\ SumOf(G, slab) = kt[slab]
    BY <1>1, SumAdds
  <2>3. Adds(jt, G, slab)
    BY <2>1, <2>2
  <2>4. jt = kt
    BY <1>1, <2>2, <2>3, AddsUnique
  <2>5. MapThenSumSet(LAMBDA i : Len(streams[i].pending_recv), slab) = jt[slab]
    BY DEF MapThenSumSet, MapThenFoldSet, Chosen
  <2> QED BY <2>2, <2>4, <2>5
<1> QED BY <1>3, <1>6, <1>7, <1>9, <1>10

\* What the invariant says of the streams, and of their calls.
LEMMA CInvDelivers ==
  ASSUME CInv
  PROVE  StreamsDeliver
<1>1. \A i \in slab : i \in Id /\ streams[i] \in Stream /\ Fine(streams[i], uses)
  BY Existing
<1>2. TypeOK
  <2>1. streams \in [Id -> Stream] /\ promised \in 0..MaxPush
    BY DEF CInv, Book
  <2>2. ids \subseteq slab /\ slab \subseteq Id /\ \A i \in Id \ slab : streams[i] = Gone
    BY DEF CInv, Housed
  <2>3. in_flight_data \in Nat /\ buffer \in Nat
    BY DEF CInv, Owed, Covers
  <2>4. woken \subseteq pending /\ pending \subseteq Call
    BY DEF CInv, Calls
  <2>5. \A x \in pending : x[2] \in streams[x[1]].handles
    BY CallFacts
  <2> QED BY <2>1, <2>2, <2>3, <2>4, <2>5 DEF TypeOK
<1>3. ResponseFirst
  BY <1>1, ResponseInFront DEF ResponseFirst
<1>4. EndMeansAll
  BY <1>1 DEF EndMeansAll, Fine
<1>5. DataIsOwned
  <2> SUFFICES ASSUME "unread" \notin uses PROVE DataIsOwned
    BY DEF DataIsOwned
  <2>1. \A i \in slab : streams[i].in_flight_recv_data > 0 =>
          streams[i].handles # {} \/ streams[i].queued
    <3> SUFFICES ASSUME NEW i \in slab, streams[i].in_flight_recv_data > 0,
                        streams[i].handles = {}, ~streams[i].queued
                 PROVE  FALSE
      OBVIOUS
    <3>1. Abandoned(streams[i], uses)
      BY <1>1 DEF Fine
    <3> QED BY <3>1 DEF Abandoned
  <2> QED BY <2>1, OwedInSlab DEF DataIsOwned
<1>6. PromisesAreHeld
  <2> SUFFICES ASSUME NEW i \in slab
               PROVE  /\ ~Released(streams[i])
                      /\ i > 0 => (streams[i].queued <=> i \in {ppp[j] : j \in DOMAIN ppp})
                      /\ streams[i].queued => 0 \in slab /\ streams[0].handles # {}
                      /\ streams[i].handles = {} /\ ~streams[i].queued => IsClosed(streams[i].state)
    BY DEF PromisesAreHeld
  <2>1. ~Released(streams[i])
    BY DEF CInv
  <2>2. ppp \in Seq(1 .. promised) /\ (streams[i].queued <=> Listed(ppp, i))
        /\ (ppp # <<>> => streams[0].handles # {})
    BY <1>1 DEF CInv, Book, Queue
  <2>3. DOMAIN ppp = 1 .. Len(ppp)
    BY <2>2, LenProperties
  <2>4. streams[i].queued <=> i \in {ppp[j] : j \in DOMAIN ppp}
    BY <2>2, <2>3 DEF Listed
  <2>5. streams[i].queued => 0 \in slab /\ streams[0].handles # {}
    <3> SUFFICES ASSUME streams[i].queued PROVE 0 \in slab /\ streams[0].handles # {}
      OBVIOUS
    <3>1. ppp # <<>>
      BY <2>3, <2>4
    <3>2. streams[0].handles # {}
      BY <2>2, <3>1
    <3>3. streams[0] # Gone
      BY <3>2, GoneFields
    <3>4. 0 \in slab
      BY <3>3, IdIsFinite DEF CInv, Housed
    <3> QED BY <3>2, <3>4
  <2>6. streams[i].handles = {} /\ ~streams[i].queued => IsClosed(streams[i].state)
    BY <1>1 DEF Fine, Abandoned
  <2> QED BY <2>1, <2>4, <2>5, <2>6
<1>7. uses \subseteq Survived => ReaderIsTold
  <2> SUFFICES ASSUME uses \subseteq Survived, NEW x \in pending, x \notin woken,
                      CanReturn(x) \/ IsRecvClosed(S(x).state)
               PROVE  FALSE
    BY DEF ReaderIsTold
  <2>1. Sleeps(streams[x[1]], ppp, x[3])
    BY DEF CInv, Calls
  <2>2. x[1] \in slab /\ x[3] \in {"response", "pushed", "data", "trailers"}
    BY CallFacts
  <2>3. streams[x[1]].state \in State
    BY <1>1, <2>2, StreamFields
  <2>4. ~IsRecvClosed(S(x).state) /\ ~IsReset(S(x).state)
    BY <2>1, <2>3, Sides DEF Sleeps, S
  <2>5. Front(x) = First(streams[x[1]])
    BY DEF Front, First, S
  <2>6. ~Answers(streams[x[1]], ppp, x[3])
    BY <2>1 DEF Sleeps
  <2>7. CASE x[3] = "pushed"
    <3>1. ppp = <<>>
      BY <2>6, <2>7 DEF Answers
    <3>2. First(streams[x[1]]) # "pushed"
      <4>1. streams[x[1]].pending_recv \in Seq(Event)
        BY <1>1, <2>2, StreamFields
      <4>2. streams[x[1]].pending_recv # <<>> => Head(streams[x[1]].pending_recv) \in Event
        BY <4>1, HeadOfEvents
      <4> QED BY <4>2 DEF First, Event
    <3> QED BY <2>4, <2>5, <2>7, <3>1, <3>2 DEF CanReturn
  <2>8. CASE x[3] # "pushed"
    BY <2>4, <2>5, <2>6, <2>8 DEF CanReturn, Answers
  <2> QED BY <2>7, <2>8
<1> QED BY <1>2, <1>3, <1>4, <1>5, <1>6, <1>7 DEF StreamsDeliver

(* The readers of a stream are told what they wait for, the response comes   *)
(* first, the end of the data after all of it, and no data or promise is     *)
(* kept for nobody (Recv and Store of recv.rs, Stream::notify_recv,          *)
(* drop_stream_ref): for every number of promised streams and every scope.   *)
THEOREM StreamsAreDelivered == Spec => []StreamsDeliver
<1>1. Init => CInv
  BY InitKeeps
<1>2. CInv /\ [Next]_vars => CInv'
  <2> SUFFICES ASSUME CInv, [Next]_vars PROVE CInv'
    OBVIOUS
  <2>1. CASE Next
    BY <2>1, ServerKeeps, ReaderKeeps DEF Next
  <2>2. CASE UNCHANGED vars
    BY <2>2, StillKeeps DEF vars, conn, CInv
  <2> QED BY <2>1, <2>2
<1>3. CInv => StreamsDeliver
  BY CInvDelivers
<1> QED BY <1>1, <1>2, <1>3, PTL DEF Spec
=============================================================================
