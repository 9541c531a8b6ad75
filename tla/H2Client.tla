------------------------------ MODULE H2Client ------------------------------
(***************************************************************************)
(* What arrives for a client, and who waits for it: the events of a stream *)
(* (Stream::pending_recv), the one waker that its readers share            *)
(* (recv_task), and the streams that a server promises on a request.       *)
(*                                                                         *)
(* Stream 0 is a request and the others are promised on it.  A stream is   *)
(* read through handles: the ResponseFuture, the PushPromises, the         *)
(* RecvStream that the response brings; the SendStream only writes.  The   *)
(* server keeps to the protocol, except where a scope says so.             *)
(*                                                                         *)
(* Abstractions.  Every DATA has the size 1, and the windows are those of  *)
(* H2Recv; what waits to be written is at most the RST_STREAM.  No reset   *)
(* is remembered (local_reset_max is 0).  A promised stream is not refused *)
(* and this client sends no GOAWAY.                                        *)
(***************************************************************************)
EXTENDS Naturals, Sequences, FiniteSets, FiniteSetsExt, H2StreamState

CONSTANTS
  MaxPush,    \* bound on the streams promised
  MaxData,    \* bound on the DATA of one stream
  Scopes      \* what happens in a behaviour: one of these is chosen at first

(* What a scope may have: the PushPromises are asked for; DATA and trailers  *)
(* come; handles are dropped with events unread; and what the readers do not *)
(* survive: each handle in a task of its own, trailers asked for before the  *)
(* data, frames that are a stream error, a RecvStream dropped before the     *)
(* PushPromises, a final informational response.                             *)
Use == {"pushes", "data", "unread", "two tasks", "early", "mismatch", "dropbody", "oneway"}

Survived == {"pushes", "data", "unread"}

ASSUME H2ClientAssumption ==
  MaxPush \in Nat /\ MaxData \in Nat /\ Scopes \subseteq SUBSET Use

Id == 0..MaxPush
Handle == {"response", "pushes", "body", "send"}
Event == {"request", "response", "data", "trailers"}
Asks == [response |-> {"response"}, pushes |-> {"pushed"}, body |-> {"data", "trailers"},
         send |-> {}]
Call == {x \in Id \X Handle \X {"response", "pushed", "data", "trailers"} :
           x[3] \in Asks[x[2]] /\ (x[2] = "pushes" => x[1] = 0)}

VARIABLES
  uses,            \* the scope of this behaviour
  streams,         \* streams[i]: the stream i, Gone outside of the slab
  slab, ids,       \* the streams in the slab, and in the identifier map
  ppp,             \* pending_push_promises of the request
  promised,        \* how many streams were promised
  in_flight_data,  \* Recv::in_flight_data
  buffer,          \* how many events Recv::buffer holds
  conn_error,      \* the connection is over
  pending, woken   \* the calls that wait, and those that will be polled

vars == <<uses, streams, slab, ids, ppp, promised, in_flight_data, buffer, conn_error,
          pending, woken>>

Stream == [state : State, pending_recv : Seq(Event), recv_task : Handle \cup {"none"},
           handles : SUBSET Handle, is_recv : BOOLEAN, in_flight_recv_data : Nat,
           queued : BOOLEAN,                    \* is_pending_accept
           sending : {"no", "rst", "queued"},   \* in pending_send with RST_STREAM, or without
           came : Nat, read : Nat,              \* history: the DATA kept, and read
           drained : BOOLEAN]                   \* history: poll_data said that it was all

New(state, handles) ==
  [state |-> state, pending_recv |-> <<>>, recv_task |-> "none", handles |-> handles,
   is_recv |-> TRUE, in_flight_recv_data |-> 0, queued |-> FALSE, sending |-> "no",
   came |-> 0, read |-> 0, drained |-> FALSE]

Gone == New(Closed("EndStream"), {})

TypeOK ==
  /\ streams \in [Id -> Stream]
  /\ ids \subseteq slab /\ slab \subseteq Id
  /\ \A i \in Id \ slab : streams[i] = Gone
  /\ in_flight_data \in Nat /\ buffer \in Nat /\ promised \in 0..MaxPush
  /\ woken \subseteq pending
  /\ pending \subseteq Call /\ \A x \in pending : x[2] \in streams[x[1]].handles

\* SendRequest::send_request, with a body to come or without.
Init ==
  /\ uses \in Scopes
  /\ \E state \in {Open("Streaming", "AwaitingHeaders"), HalfClosedLocal("AwaitingHeaders")} :
       streams = [i \in Id |->
         IF i = 0 THEN New(state, {"response", "send"} \cup ({"pushes"} \cap uses)) ELSE Gone]
  /\ slab = {0} /\ ids = {0} /\ ppp = <<>> /\ promised = 0
  /\ in_flight_data = 0 /\ buffer = 0 /\ conn_error = FALSE
  /\ pending = {} /\ woken = {}

-----------------------------------------------------------------------------
(* Stream and Counts.                                                        *)

\* notify_recv: the calls of the task whose waker is taken.
Notified(i) ==
  {x \in pending : /\ x[1] = i /\ streams[i].recv_task # "none"
                   /\ "two tasks" \in uses => x[2] = streams[i].recv_task}
Notify(s) == [s EXCEPT !.recv_task = "none"]

\* Stream::is_closed, is_released
Done(s) == IsClosed(s.state) /\ s.sending # "rst"
Released(s) == Done(s) /\ s.handles = {} /\ s.sending = "no" /\ ~s.queued

\* Counts::transition_after, for all streams at once: str is what their handlers
\* made of them.
Transition(str) ==
  LET out == {i \in slab : Released(str[i])}
  IN  /\ streams' = [i \in Id |-> IF i \in out THEN Gone ELSE str[i]]
      /\ ids' = {i \in ids : ~Done(str[i])}
      /\ slab' = slab \ out

After(i, s) == Transition([streams EXCEPT ![i] = s])

\* Send::send_reset
SendReset(s) ==
  IF IsReset(s.state) THEN s
  ELSE [s EXCEPT !.state = SetReset,
                 !.sending = IF IsClosed(s.state) /\ @ # "rst" THEN @ ELSE "rst"]

\* Send::handle_error: what waits to be written is dropped, the place in the queue stays.
ClearSend(s) == [s EXCEPT !.sending = IF @ = "rst" THEN "queued" ELSE @]

\* maybe_cancel, with Send::schedule_implicit_reset
MaybeCancel(s) ==
  IF s.handles = {} /\ ~IsClosed(s.state)
  THEN [s EXCEPT !.state = SetScheduledReset, !.sending = IF @ = "no" THEN "queued" ELSE @]
  ELSE s

\* An event for stream i: it is kept and the reader notified.
Arrived(s, event) == Notify([s EXCEPT !.pending_recv = Append(@, event)])

conn == <<uses, ppp, promised, conn_error>>

-----------------------------------------------------------------------------
(* The frames of the server.                                                 *)

Reading(i) == ~conn_error /\ i \in ids

\* A frame for a stream that was reset here is ignored.
Listening(i) == Reading(i) /\ ~IsLocalReset(streams[i].state)

\* recv_headers: a response, or an informational one, which is not kept.
RecvHeaders(i, informational, eos) ==
  /\ Listening(i) /\ CanRecvOpen(streams[i].state)
  /\ informational /\ eos => "oneway" \in uses
  /\ LET s == [streams[i] EXCEPT !.state = RecvOpen(@, eos, informational)]
     IN  IF informational
         THEN After(i, s) /\ UNCHANGED <<buffer, woken>>
         ELSE /\ After(i, Arrived(s, "response"))
              /\ buffer' = buffer + 1 /\ woken' = woken \cup Notified(i)
  /\ UNCHANGED <<conn, in_flight_data, pending>>

\* recv_trailers
RecvTrailers(i) ==
  /\ Listening(i) /\ IsRecvStreaming(streams[i].state) /\ "data" \in uses
  /\ After(i, Arrived([streams[i] EXCEPT !.state = RecvClose(@)], "trailers"))
  /\ buffer' = buffer + 1 /\ woken' = woken \cup Notified(i)
  /\ UNCHANGED <<conn, in_flight_data, pending>>

\* recv_data.  When the RecvStream is dropped the data goes back to the connection, and
\* nobody is notified.
RecvData(i, eos) ==
  /\ Listening(i) /\ IsRecvStreaming(streams[i].state) /\ streams[i].came < MaxData
  /\ "data" \in uses
  /\ LET s == IF eos THEN [streams[i] EXCEPT !.state = RecvClose(@)] ELSE streams[i]
     IN  IF ~s.is_recv
         THEN After(i, s) /\ UNCHANGED <<buffer, woken, in_flight_data>>
         ELSE /\ After(i, Arrived([s EXCEPT !.came = @ + 1, !.in_flight_recv_data = @ + 1], "data"))
              /\ buffer' = buffer + 1 /\ woken' = woken \cup Notified(i)
              /\ in_flight_data' = in_flight_data + 1
  /\ UNCHANGED <<conn, pending>>

\* A frame that is a stream error, such as a content-length that does not agree: reset_on_recv_stream_err.
RecvMismatch(i) ==
  /\ "mismatch" \in uses /\ Listening(i) /\ IsRecvStreaming(streams[i].state)
  /\ After(i, SendReset(streams[i]))
  /\ UNCHANGED <<conn, in_flight_data, buffer, pending, woken>>

\* recv_reset
RecvRst(i) ==
  /\ Reading(i)
  /\ After(i, ClearSend(Notify([streams[i] EXCEPT !.state = RecvReset(@, streams[i].sending # "no")])))
  /\ woken' = woken \cup Notified(i)
  /\ UNCHANGED <<conn, in_flight_data, buffer, pending>>

\* recv_push_promise: the promised stream waits in the request's queue.
RecvPushPromise ==
  /\ Listening(0) /\ ~IsRecvClosed(streams[0].state) /\ promised < MaxPush
  /\ LET c == promised + 1
     IN  /\ streams' = [streams EXCEPT
                          ![c] = [New(ReservedRemote, {}) EXCEPT
                                    !.pending_recv = <<"request">>, !.queued = TRUE],
                          ![0] = Notify(@)]
         /\ slab' = slab \cup {c} /\ ids' = ids \cup {c}
         /\ ppp' = Append(ppp, c) /\ promised' = c
  /\ buffer' = buffer + 1 /\ woken' = woken \cup Notified(0)
  /\ UNCHANGED <<uses, in_flight_data, conn_error, pending>>

\* A promise whose request cannot be used: the promised stream is reset.
RecvBadPromise ==
  /\ Listening(0) /\ ~IsRecvClosed(streams[0].state) /\ promised < MaxPush
  /\ LET c == promised + 1
     IN  /\ streams' = [streams EXCEPT ![c] = SendReset(New(ReservedRemote, {}))]
         /\ slab' = slab \cup {c} /\ ids' = ids \cup {c}
         /\ promised' = c
  /\ UNCHANGED <<uses, ppp, in_flight_data, buffer, conn_error, pending, woken>>

\* handle_error and recv_eof: the connection ends, for every stream it knows.  It also does
\* when a promise arrives for a request that was cancelled: ensure_recv_open is an error.
Ends(cause) ==
  /\ conn_error' = TRUE
  /\ Transition([i \in Id |->
       IF i \in ids THEN ClearSend(Notify([streams[i] EXCEPT !.state = HandleError(@, cause)]))
       ELSE streams[i]])
  /\ woken' = woken \cup UNION {Notified(i) : i \in ids}
  /\ UNCHANGED <<uses, ppp, promised, in_flight_data, buffer, pending>>

ConnectionEnds == ~conn_error /\ \E cause \in {"LocalError", "RemoteError"} : Ends(cause)

PromiseOnCancelled ==
  Reading(0) /\ IsLocalReset(streams[0].state) /\ promised < MaxPush /\ Ends("LocalError")

\* pop_frame writes RST_STREAM, or finds that nothing is left to write.
PopFrame(i) ==
  /\ ~conn_error /\ i \in slab /\ streams[i].sending # "no"
  /\ After(i, [streams[i] EXCEPT !.sending = "no",
                 !.state = IF IsScheduledReset(@) THEN SetReset ELSE @])
  /\ UNCHANGED <<conn, in_flight_data, buffer, pending, woken>>

Server ==
  \/ \E i \in Id :
       \/ \E informational, eos \in BOOLEAN : RecvHeaders(i, informational, eos)
       \/ \E eos \in BOOLEAN : RecvData(i, eos)
       \/ RecvTrailers(i) \/ RecvMismatch(i) \/ RecvRst(i) \/ PopFrame(i)
  \/ RecvPushPromise \/ RecvBadPromise \/ ConnectionEnds \/ PromiseOnCancelled

-----------------------------------------------------------------------------
(* The readers.  A call is a stream, a handle and what is asked of it.       *)

Calling(i, h) == \E x \in pending : x[1] = i /\ x[2] = h
S(x) == streams[x[1]]
Front(x) == IF S(x).pending_recv = <<>> THEN "none" ELSE Head(S(x).pending_recv)

\* A reader asks for the trailers when it has seen the end of the data.
Start(i, h, op) ==
  /\ i \in slab /\ h \in streams[i].handles /\ op \in Asks[h] /\ ~Calling(i, h)
  /\ op = "trailers" => streams[i].drained \/ "early" \in uses
  /\ pending' = pending \cup {<<i, h, op>>} /\ woken' = woken \cup {<<i, h, op>>}
  /\ UNCHANGED <<conn, streams, slab, ids, in_flight_data, buffer>>

\* The future of a call is dropped; the handle stays, and so does the waker.
Cancel(x) ==
  /\ x \in pending /\ x[3] # "response"
  /\ pending' = pending \ {x} /\ woken' = woken \ {x}
  /\ UNCHANGED <<conn, streams, slab, ids, in_flight_data, buffer>>

Return(x, others) == pending' = pending \ {x} /\ woken' = (woken \cup others) \ {x}

Pops(x) == [S(x) EXCEPT !.pending_recv = Tail(@)]

\* poll_response, poll_data and poll_trailers find what they want.  The response brings the
\* RecvStream.
Take(x) ==
  /\ x \in pending /\ Front(x) = x[3]
  /\ streams' = [streams EXCEPT ![x[1]] =
       CASE x[3] = "response" -> [Pops(x) EXCEPT !.handles = (@ \ {"response"}) \cup {"body"}]
         [] x[3] = "data"     -> [Pops(x) EXCEPT !.read = @ + 1]
         [] x[3] = "trailers" -> Pops(x)]
  /\ buffer' = buffer - 1
  /\ Return(x, {})
  /\ UNCHANGED <<conn, slab, ids, in_flight_data>>

\* poll_pushed: the first promise, with a ResponseFuture of its own.
TakePush(x) ==
  /\ x \in pending /\ x[3] = "pushed" /\ ppp # <<>>
  /\ LET s == streams[Head(ppp)]
     IN  streams' = [streams EXCEPT ![Head(ppp)] =
           [s EXCEPT !.pending_recv = Tail(@), !.queued = FALSE, !.handles = {"response"}]]
  /\ ppp' = Tail(ppp) /\ buffer' = buffer - 1
  /\ Return(x, {})
  /\ UNCHANGED <<uses, promised, conn_error, slab, ids, in_flight_data>>

\* poll_data comes to the trailers: it says so, and notifies who may wait for them.
DataOver(x) ==
  /\ x \in pending /\ x[3] = "data" /\ Front(x) = "trailers"
  /\ streams' = [streams EXCEPT ![x[1]] = Notify([@ EXCEPT !.drained = TRUE])]
  /\ Return(x, Notified(x[1]))
  /\ UNCHANGED <<conn, slab, ids, in_flight_data, buffer>>

\* poll_trailers with something else in front: Pending, and the waker is not kept.
NotYet(x) ==
  /\ x \in pending /\ x[3] = "trailers" /\ Front(x) \notin {"trailers", "none"}
  /\ woken' = woken \ {x}
  /\ UNCHANGED <<conn, streams, slab, ids, in_flight_data, buffer, pending>>

Nothing(x) == IF x[3] = "pushed" THEN ppp = <<>> ELSE Front(x) = "none"

\* Nothing is there: ensure_recv_open says whether more may come.
Fails(x) ==
  /\ x \in pending /\ Nothing(x) /\ IsReset(S(x).state)
  /\ Return(x, {})
  /\ UNCHANGED <<conn, streams, slab, ids, in_flight_data, buffer>>

\* The end of the data, of the promises or a stream without trailers.
Over(x) ==
  /\ x \in pending /\ Nothing(x) /\ x[3] # "response"
  /\ IsRecvClosed(S(x).state) /\ ~IsReset(S(x).state)
  /\ streams' = [streams EXCEPT ![x[1]].drained = @ \/ x[3] = "data"]
  /\ Return(x, {})
  /\ UNCHANGED <<conn, slab, ids, in_flight_data, buffer>>

\* A response may come as long as there is no error.
Wait(x) ==
  /\ x \in pending /\ Nothing(x)
  /\ IF x[3] = "response" THEN ~IsReset(S(x).state) ELSE ~IsRecvClosed(S(x).state)
  /\ streams' = [streams EXCEPT ![x[1]].recv_task = x[2]]
  /\ woken' = woken \ {x}
  /\ UNCHANGED <<conn, slab, ids, in_flight_data, buffer, pending>>

Poll(x) ==
  Take(x) \/ TakePush(x) \/ DataOver(x) \/ NotYet(x) \/ Fails(x) \/ Over(x) \/ Wait(x)

\* FlowControl::release_capacity
ReleaseCapacity(i) ==
  /\ i \in slab /\ "body" \in streams[i].handles /\ streams[i].in_flight_recv_data > 0
  /\ streams' = [streams EXCEPT ![i].in_flight_recv_data = @ - 1]
  /\ in_flight_data' = in_flight_data - 1
  /\ UNCHANGED <<conn, slab, ids, buffer, pending, woken>>

\* SendStream::send_data with the end of the request
EndRequest ==
  /\ 0 \in slab /\ "send" \in streams[0].handles /\ IsSendStreaming(streams[0].state)
  /\ After(0, [streams[0] EXCEPT !.state = SendClose(@)])
  /\ UNCHANGED <<conn, in_flight_data, buffer, pending, woken>>

\* The reset does not notify the reader.
ResetQuietly ==
  /\ 0 \in slab /\ "send" \in streams[0].handles
  /\ After(0, SendReset(streams[0]))
  /\ UNCHANGED <<conn, in_flight_data, buffer, pending, woken>>

\* SendStream::send_reset: Actions::send_reset, which notifies the reader.
UserReset ==
  /\ 0 \in slab /\ "send" \in streams[0].handles
  /\ After(0, Notify(SendReset(streams[0])))
  /\ woken' = woken \cup Notified(0)
  /\ UNCHANGED <<conn, in_flight_data, buffer, pending>>

(* drop_stream_ref.  The RecvStream clears what it would have read.  The     *)
(* last handle cancels the stream, gives its data back and cancels the       *)
(* streams promised on it.  Events that no data is among stay in the buffer, *)
(* and so does what came for those streams.                                  *)
Unread(i, h) ==
  /\ streams[i].handles = {h}
  /\ \/ h # "body" /\ streams[i].pending_recv # <<>> /\ streams[i].in_flight_recv_data = 0
     \/ i = 0 /\ ppp # <<>>

Cleared(s) == [s EXCEPT !.is_recv = FALSE, !.pending_recv = <<>>]

\* The data of the last handle is forgotten.
Forgets(s) == s

GivenBack(s) ==
  IF s.in_flight_recv_data = 0 THEN s
  ELSE [s EXCEPT !.in_flight_recv_data = 0, !.pending_recv = <<>>]

DropHandle(i, h) ==
  /\ i \in slab /\ h \in streams[i].handles /\ ~(h # "response" /\ Calling(i, h))
  /\ Unread(i, h) => "unread" \in uses
  /\ h = "body" /\ "pushes" \in streams[i].handles => "dropbody" \in uses
  /\ LET s     == IF h = "body" THEN Cleared(streams[i]) ELSE streams[i]
         left  == [s EXCEPT !.handles = @ \ {h}]
         last  == left.handles = {}
         kept  == IF last THEN GivenBack(MaybeCancel(left)) ELSE left
         drops == IF last /\ i = 0 THEN {ppp[j] : j \in DOMAIN ppp} ELSE {}
     IN  /\ Transition([c \in Id |->
              IF c = i THEN kept
              ELSE IF c \in drops THEN MaybeCancel([streams[c] EXCEPT !.queued = FALSE])
              ELSE streams[c]])
         /\ ppp' = IF last /\ i = 0 THEN <<>> ELSE ppp
         /\ in_flight_data' = in_flight_data - (s.in_flight_recv_data - kept.in_flight_recv_data)
         /\ buffer' = buffer - (Len(streams[i].pending_recv) - Len(kept.pending_recv))
  /\ pending' = {x \in pending : ~(x[1] = i /\ x[2] = h)} /\ woken' = woken \cap pending'
  /\ UNCHANGED <<uses, promised, conn_error>>

Reader ==
  \/ \E i \in Id, h \in Handle : DropHandle(i, h) \/ \E op \in Asks[h] : Start(i, h, op)
  \/ \E x \in pending : Poll(x) \/ Cancel(x)
  \/ \E i \in Id : ReleaseCapacity(i)
  \/ EndRequest \/ UserReset

Next == Server \/ Reader

Spec == Init /\ [][Next]_vars

\* The executor polls a task that was woken.
Run(x) == x \in woken /\ Poll(x)
FairSpec == Spec /\ \A x \in Call : WF_vars(Run(x))

-----------------------------------------------------------------------------
\* What a call would say if it were polled.
CanReturn(x) ==
  \/ Front(x) = x[3] \/ (x[3] = "data" /\ Front(x) = "trailers")
  \/ x[3] = "pushed" /\ ppp # <<>>
  \/ Nothing(x) /\ IsReset(S(x).state)

\* stream.rs, notify_recv: a reader whose answer has arrived, or whose stream is over in
\* whatever way, will be polled.  So it is in the scopes that the readers survive.
ReaderIsTold ==
  \A x \in pending : CanReturn(x) \/ IsRecvClosed(S(x).state) => x \in woken

\* recv.rs, poll_response: "the first frame must be a HEADERS frame", or it panics.
ResponseFirst ==
  \A i \in slab :
    "response" \in streams[i].handles /\ streams[i].pending_recv # <<>>
      => Head(streams[i].pending_recv) = "response"

\* A reader that is told that the data is all has read all that came.
EndMeansAll == \A i \in slab : streams[i].drained => streams[i].read = streams[i].came

\* Recv::in_flight_data is that of the streams somebody can still read: what a dropped
\* stream had is given back, and what is kept for it is freed (unless it was not read).
DataIsOwned ==
  "unread" \notin uses =>
    /\ in_flight_data = MapThenSumSet(LAMBDA i : streams[i].in_flight_recv_data, slab)
    /\ buffer = MapThenSumSet(LAMBDA i : Len(streams[i].pending_recv), slab)
    /\ \A i \in slab : streams[i].in_flight_recv_data > 0 =>
         streams[i].handles # {} \/ streams[i].queued

\* A promised stream is in the queue of a request that somebody holds, or is held itself,
\* or is on its way out; one that is done is gone.
PromisesAreHeld ==
  \A i \in slab :
    /\ ~Released(streams[i])
    /\ i > 0 => (streams[i].queued <=> i \in {ppp[j] : j \in DOMAIN ppp})
    /\ streams[i].queued => 0 \in slab /\ streams[0].handles # {}
    /\ streams[i].handles = {} /\ ~streams[i].queued => IsClosed(streams[i].state)

\* A call that can be answered is answered.
Answerable(x) == x \in pending /\ uses \subseteq Survived /\ CanReturn(x)
Answered == \A x \in Call : []<>~Answerable(x)

(* recv.rs, stream.rs: the readers of a stream are told what they wait for,  *)
(* the response comes first, the end of the data after all of it, and no     *)
(* data or promise is kept for nobody.                                       *)
StreamsDeliver ==
  /\ TypeOK /\ ResponseFirst /\ EndMeansAll /\ DataIsOwned /\ PromisesAreHeld
  /\ uses \subseteq Survived => ReaderIsTold
=============================================================================
