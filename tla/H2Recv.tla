------------------------------- MODULE H2Recv -------------------------------
(***************************************************************************)
(* The streams of an HTTP/2 server connection, seen from the receive side: *)
(* proto/streams/{recv,streams,counts,stream}.rs driven by the poll loop   *)
(* of proto/connection.rs and by the handles the application holds.        *)
(*                                                                         *)
(* Everything runs on one thread.  A poll of the connection is a sequence  *)
(* of steps of the connection only (conn says how far it is); between two  *)
(* polls the application uses its handles, and actions.task, when set, is  *)
(* how it wakes the connection.                                            *)
(*                                                                         *)
(* Abstractions.  The n-th identifier a client may use (1, 3, 5, ...) is   *)
(* n.  A queue of streams is the set of the streams whose flag is set (the *)
(* intrusive lists behind them keep insertion order; here any member may   *)
(* be popped).  Of the send half a stream keeps whether frames wait        *)
(* (pending_send), whether there is data among them (buffered_send_data),  *)
(* and whether it is in the send queue; data may wait for the send window  *)
(* of its stream, the one of the connection is large enough; a frame the   *)
(* codec has taken is gone.  A payload is its size.  A request never       *)
(* carries :status, and nothing is pushed.                                 *)
(***************************************************************************)
EXTENDS Integers, FiniteSets, FiniteSetsExt, H2FlowControl, H2StreamState

CONSTANTS
  Keys,            \* slots of the slab
  MaxId,           \* bound: identifiers are 1 .. MaxId
  MaxHandles,      \* bound: handles the application keeps on one stream
  Sizes,           \* sizes of DATA payloads
  DefaultWindow,   \* DEFAULT_INITIAL_WINDOW_SIZE
  InitWindows,     \* values of SETTINGS_INITIAL_WINDOW_SIZE
  Targets,         \* arguments of set_target_window_size
  GoAwayIds,       \* last stream identifiers the peer may announce
  MaxRecvStreams,  \* Counts::max_recv_streams
  MaxResetStreams  \* Counts::max_reset_streams

ASSUME KeysAssumption == IsFiniteSet(Keys)
ASSUME BoundAssumption ==
  /\ MaxId \in Nat /\ MaxHandles \in Nat
  /\ MaxRecvStreams \in Nat /\ MaxResetStreams \in Nat
ASSUME WindowAssumption ==
  /\ DefaultWindow \in Nat /\ Sizes \subseteq Nat /\ Targets \subseteq Nat
  /\ InitWindows \subseteq Nat /\ InitWindows # {}
ASSUME GoAwayAssumption == GoAwayIds \subseteq Nat

StreamId == 1 .. MaxId
\* StreamId::MAX, no limit yet.
NoLimit  == MaxId + 1

\* Next to some definitions stands a wrong variant (an omission or an
\* off-by-one) that no action uses: each property is violated with one.

VARIABLES
  streams,            \* the slab: what each slot holds
  ids,                \* the slots that the identifier map points to
  num_recv_streams, num_reset_streams,
  flow, in_flight_data, init_window_sz,
  next_stream_id, last_processed_id, max_stream_id,
  refused,            \* the identifier to refuse, 0 for None
  send_max_stream_id, \* Send::max_stream_id
  goaway_received,    \* ConnectionInner::error is set
  task,               \* actions.task is set
  closing,            \* GoAway::close_now
  conn,               \* where the connection task is
  target, peak        \* history: the window target, the largest one so far

store    == <<streams, ids, num_recv_streams, num_reset_streams>>
window   == <<flow, in_flight_data, target, peak>>
numbers  == <<next_stream_id, last_processed_id, max_stream_id, refused>>
peer     == <<send_max_stream_id, goaway_received>>
vars == <<store, window, init_window_sz, numbers, peer,
          task, closing, conn>>

Polling == {"expire", "ready", "recv", "flush"}
Waiting == {"parked", "blocked"}
Phases  == Polling \cup Waiting \cup {"closed", "dropped"}

Stream ==
  [id : Nat, state : State, is_counted : BOOLEAN, ref_count : Nat,
   pending_send : BOOLEAN, buffered_send_data : BOOLEAN,
   is_pending_send : BOOLEAN,
   is_recv : BOOLEAN, recv_flow : FlowControl, in_flight_recv_data : Nat,
   is_pending_accept : BOOLEAN, is_pending_window_update : BOOLEAN,
   is_pending_reset : BOOLEAN]

NewStream(i, size) ==
  [id |-> i, state |-> Idle, is_counted |-> FALSE, ref_count |-> 0,
   pending_send |-> FALSE, buffered_send_data |-> FALSE,
   is_pending_send |-> FALSE,
   is_recv |-> TRUE, recv_flow |-> NewFlow(size), in_flight_recv_data |-> 0,
   is_pending_accept |-> FALSE, is_pending_window_update |-> FALSE,
   is_pending_reset |-> FALSE]

\* What a free slot holds: no stream has identifier 0.
Vacant == NewStream(0, 0)

Slab    == {k \in Keys : streams[k].id # 0}
Free    == Keys \ Slab
Find(i) == {k \in ids : streams[k].id = i}

\* Stream::is_closed, Stream::is_released
FullyClosed(s) ==
  IsClosed(s.state) /\ ~s.pending_send /\ ~s.buffered_send_data
ReleasedUnderHandles(s) ==
  /\ FullyClosed(s)
  /\ ~s.is_pending_send /\ ~s.is_pending_accept
  /\ ~s.is_pending_window_update /\ ~s.is_pending_reset

IsReleased(s) ==
  /\ FullyClosed(s) /\ s.ref_count = 0
  /\ ~s.is_pending_send /\ ~s.is_pending_accept
  /\ ~s.is_pending_window_update /\ ~s.is_pending_reset

\* Counts::can_inc_num_recv_streams, Counts::can_inc_num_reset_streams
CanIncNumRecvStreams == num_recv_streams < MaxRecvStreams

CanIncNumResetStreams == num_reset_streams < MaxResetStreams

Init ==
  /\ streams = [k \in Keys |-> Vacant]
  /\ ids = {}
  /\ num_recv_streams = 0 /\ num_reset_streams = 0
  /\ flow = NewFlow(DefaultWindow)
  /\ in_flight_data = 0
  /\ init_window_sz \in InitWindows
  /\ next_stream_id = 1 /\ last_processed_id = 0
  /\ max_stream_id = NoLimit /\ refused = 0
  /\ send_max_stream_id = NoLimit /\ goaway_received = FALSE
  /\ task = FALSE /\ closing = FALSE /\ conn = "blocked"
  /\ target = DefaultWindow /\ peak = DefaultWindow

-----------------------------------------------------------------------------
(* Building blocks of the handlers.  A handler computes str, the slab after *)
(* its body, and ends the transition of the streams it worked on.           *)

\* task.take() and wake
NeverWake(b) == task' = task
WakeIf(b) == task' = (task /\ ~b)

\* What Counts::dec_num_streams does to the stream.
StaysCounted(s) == s
Uncount(s) == [s EXCEPT !.is_counted = FALSE]

(* Counts::transition_after of the streams in K: a fully closed stream is   *)
(* no longer counted, its identifier is unlinked unless the stream waits    *)
(* for its reset to expire, and its slot is freed once nobody refers to it. *)
(* unlink removes the entry of the identifier, whichever slot it points to. *)
TransitionAfter(str, linked, count, K) ==
  LET done   == {k \in K : FullyClosed(str[k])}
      unlink == {str[k].id : k \in {j \in done : ~str[j].is_pending_reset}}
  IN /\ streams' = [k \in Keys |->
                      IF k \notin done THEN str[k]
                      ELSE IF IsReleased(str[k]) THEN Vacant
                      ELSE Uncount(str[k])]
     /\ ids' = {k \in linked : str[k].id \notin unlink}
     /\ num_recv_streams' =
          count - Cardinality({k \in done : str[k].is_counted})

\* The common case: one stream, already in the store.
TransitionForgotten(str, k) ==
  streams' = str /\ UNCHANGED <<ids, num_recv_streams>>
Transition(str, k) == TransitionAfter(str, ids, num_recv_streams, {k})

(* Recv::enqueue_reset_expiration of stream k, then transition_after.  At   *)
(* the limit one waiting stream is evicted; its place is free only if it    *)
(* was fully closed.                                                        *)
EnqueueResetExpiration(str, linked, count, k) ==
  LET due   == IsLocalReset(str[k].state) /\ ~str[k].is_pending_reset
      room  == CanIncNumResetStreams
      queue == {j \in Keys : str[j].is_pending_reset}
      Queued(s) == [s EXCEPT ![k].is_pending_reset = TRUE]
  IN \/ /\ ~due \/ (~room /\ queue = {})
        /\ TransitionAfter(str, linked, count, {k})
        /\ UNCHANGED num_reset_streams
     \/ /\ due /\ room
        /\ TransitionAfter(Queued(str), linked, count, {k})
        /\ num_reset_streams' = num_reset_streams + 1
     \/ /\ due /\ ~room
        /\ \E e \in queue :
             LET evicted == [str EXCEPT ![e].is_pending_reset = FALSE]
                 next    == IF FullyClosed(str[e]) THEN Queued(evicted)
                                                   ELSE evicted
             IN TransitionAfter(next, linked, count, {e, k})
        /\ UNCHANGED num_reset_streams

\* Send::send_reset: the frames that wait are replaced by a RST_STREAM.
Resets(s) == ~IsReset(s.state) /\ ~FullyClosed(s)
SendReset(s) ==
  IF IsReset(s.state) THEN s
  ELSE IF FullyClosed(s) THEN [s EXCEPT !.state = SetReset]
  ELSE [s EXCEPT !.state = SetReset, !.pending_send = TRUE,
                 !.buffered_send_data = FALSE, !.is_pending_send = TRUE]

\* Send::schedule_implicit_reset
ScheduleImplicitReset(s) ==
  IF IsClosed(s.state) THEN s
  ELSE [s EXCEPT !.state = SetScheduledReset, !.is_pending_send = TRUE]

\* Send::handle_error after Recv::handle_error or Recv::recv_eof
Abort(s, cause) ==
  [s EXCEPT !.state = HandleError(@, cause), !.pending_send = FALSE,
            !.buffered_send_data = FALSE]

(* Streams::send_reset, the answer of handle_poll2_result to a stream       *)
(* error: an identifier the store does not know gets a stream of its own.   *)
StreamError(i) ==
  /\ \/ /\ Find(i) # {}
        /\ \E k \in Find(i) :
             /\ EnqueueResetExpiration([streams EXCEPT ![k] = SendReset(@)],
                                       ids, num_recv_streams, k)
             /\ WakeIf(Resets(streams[k]))
        /\ UNCHANGED next_stream_id
     \/ /\ Find(i) = {}
        /\ \E k \in Free :
             EnqueueResetExpiration(
               [streams EXCEPT ![k] = SendReset(NewStream(i, 0))],
               ids \cup {k}, num_recv_streams, k)
        /\ next_stream_id' = IF i >= next_stream_id THEN i + 1
                                                    ELSE next_stream_id
        /\ WakeIf(TRUE)
  /\ conn' = "expire"
  /\ UNCHANGED <<last_processed_id, max_stream_id, refused>>

\* DynStreams::handle_error
HandleErrorAll(cause) ==
  TransitionAfter([k \in Keys |-> IF k \in ids THEN Abort(streams[k], cause)
                                               ELSE streams[k]],
                  ids, num_recv_streams, ids)

\* A connection error: every stream is closed, GOAWAY is queued.
ConnectionError ==
  /\ HandleErrorAll("LocalError")
  /\ closing' = TRUE
  /\ conn' = "expire"
  /\ UNCHANGED num_reset_streams

-----------------------------------------------------------------------------
(* A poll of the connection, up to the next frame.                          *)

BeginPoll ==
  /\ conn \in Waiting
  /\ conn' = "expire"
  /\ UNCHANGED <<store, window, init_window_sz, numbers, peer, task, closing>>

\* Recv::clear_expired_reset_streams, one stream of it.
ExpireReset(k) ==
  /\ conn = "expire" /\ streams[k].is_pending_reset
  /\ Transition([streams EXCEPT ![k].is_pending_reset = FALSE], k)
  /\ num_reset_streams' =
       num_reset_streams - (IF FullyClosed(streams[k]) THEN 1 ELSE 0)
  /\ UNCHANGED <<window, init_window_sz, numbers, peer, task, closing, conn>>

\* poll_go_away and poll_ready.
PollReady ==
  /\ conn \in {"expire", "ready"} /\ ~closing
  /\ refused' = 0
  /\ conn' = "recv"
  /\ UNCHANGED <<store, window, init_window_sz, next_stream_id,
                 last_processed_id, max_stream_id, peer, task, closing>>

\* The codec is full, for poll2 and for the poll_complete that follows.
NotReady ==
  /\ conn \in {"expire", "ready"}
  /\ conn' = "blocked"
  /\ UNCHANGED <<store, window, init_window_sz, numbers, peer, task, closing>>

GoAwaySent ==
  /\ conn \in {"expire", "ready"} /\ closing
  /\ conn' = "closed"
  /\ UNCHANGED <<store, window, init_window_sz, numbers, peer, task, closing>>

NoFrame ==
  /\ conn = "recv"
  /\ conn' = "flush"
  /\ UNCHANGED <<store, window, init_window_sz, numbers, peer, task, closing>>

\* An I/O error of poll2; poll returns it and is not called again.
IoError ==
  /\ conn \in {"expire", "ready", "recv"}
  /\ HandleErrorAll("LocalError")
  /\ conn' = "closed"
  /\ UNCHANGED <<num_reset_streams, window, init_window_sz, numbers, peer,
                 task, closing>>

-----------------------------------------------------------------------------
(* Frames of the peer.                                                      *)

\* A frame that changes nothing here: PRIORITY, PING, SETTINGS of the peer,
\* HEADERS, DATA or RST_STREAM above max_stream_id, trailers of a locally
\* reset stream, RST_STREAM or WINDOW_UPDATE of a forgotten one.
RecvIgnored ==
  /\ conn = "recv"
  /\ conn' = "ready"
  /\ UNCHANGED <<store, window, init_window_sz, numbers, peer, task, closing>>

\* A frame that is a connection error, in the codec or in its handler.
RecvInvalid ==
  /\ conn = "recv"
  /\ ConnectionError
  /\ UNCHANGED <<window, init_window_sz, numbers, peer, task>>

\* A frame that is a stream error in the codec, or trailers without EOS.
RecvMalformed(i) ==
  /\ conn = "recv"
  /\ StreamError(i)
  /\ UNCHANGED <<window, init_window_sz, peer, closing>>

\* HEADERS of a stream the store does not know, accepted by Recv::open.
OpensForgotten(i) == i <= max_stream_id /\ Find(i) = {}
OpensAfterGoAway(i) == Find(i) = {} /\ i >= next_stream_id
CanOpen(i) == i <= max_stream_id /\ Find(i) = {} /\ i >= next_stream_id

Opened(i, eos) ==
  [NewStream(i, init_window_sz) EXCEPT
     !.state = RecvOpen(Idle, eos, FALSE), !.is_counted = TRUE]

RecvHeaders(i, eos) ==
  /\ conn = "recv" /\ CanOpen(i) /\ CanIncNumRecvStreams
  /\ next_stream_id' = i + 1
  /\ last_processed_id' =
       IF i > last_processed_id THEN i ELSE last_processed_id
  /\ \E k \in Free :
       LET s == Opened(i, eos)
           answered == [s EXCEPT !.state = SendOpen(@, TRUE),
                                 !.pending_send = TRUE,
                                 !.is_pending_send = TRUE]
           Put(t) == [streams EXCEPT ![k] = t]
           linked == ids \cup {k}
           count  == num_recv_streams + 1
       IN \* a request for the application
          \/ /\ TransitionAfter(Put([s EXCEPT !.is_pending_accept = TRUE]),
                                linked, count, {k})
             /\ UNCHANGED <<num_reset_streams, task>>
          \* malformed: reset_on_recv_stream_err
          \/ /\ TransitionAfter(Put(SendReset(s)), linked, count, {k})
             /\ WakeIf(TRUE)
             /\ UNCHANGED num_reset_streams
          \* over size: a 431 response, then a reset
          \/ /\ EnqueueResetExpiration(Put(ScheduleImplicitReset(answered)),
                                       linked, count, k)
             /\ WakeIf(TRUE)
  /\ conn' = "ready"
  /\ UNCHANGED <<window, init_window_sz, max_stream_id, refused, peer, closing>>

\* Recv::open at the limit of concurrent streams.
RefuseHeaders(i) ==
  /\ conn = "recv" /\ CanOpen(i) /\ ~CanIncNumRecvStreams
  /\ next_stream_id' = i + 1
  /\ refused' = i
  /\ conn' = "ready"
  /\ UNCHANGED <<store, window, init_window_sz, last_processed_id,
                 max_stream_id, peer, task, closing>>

\* bad: the content-length that is left is not zero.
RecvTrailers(k, bad) ==
  /\ conn = "recv" /\ k \in ids
  /\ streams[k].id <= max_stream_id
  /\ ~IsRecvHeaders(streams[k].state) /\ CanRecvClose(streams[k].state)
  /\ LET s == [streams[k] EXCEPT !.state = RecvClose(@)]
     IN /\ Transition([streams EXCEPT ![k] = IF bad THEN SendReset(s) ELSE s], k)
        /\ WakeIf(bad /\ Resets(s))
  /\ conn' = "ready"
  /\ UNCHANGED <<num_reset_streams, window, init_window_sz, numbers, peer,
                 closing>>

\* consume_connection_window, then release_connection_capacity: DATA that the
\* application will never see.
NeverReleases(sz) ==
  /\ sz <= flow.window_size
  /\ flow' = SendData(flow, sz)
  /\ UNCHANGED <<in_flight_data, target, peak>>

IgnoreData(sz) ==
  /\ sz <= flow.window_size
  /\ flow' = AssignCapacity(SendData(flow, sz), sz)
  /\ UNCHANGED <<in_flight_data, target, peak>>

\* DATA of a stream that may have been forgotten.
RecvDataForgotten(i, sz) ==
  /\ conn = "recv"
  /\ Find(i) = {} /\ i <= max_stream_id /\ i < next_stream_id
  /\ IgnoreData(sz)
  /\ StreamError(i)
  /\ UNCHANGED <<init_window_sz, peer, closing>>

\* DATA of a stream this side has reset.
RecvDataReset(k, sz) ==
  /\ conn = "recv" /\ k \in ids /\ IsLocalReset(streams[k].state)
  /\ IgnoreData(sz)
  /\ Transition(streams, k)
  /\ conn' = "ready"
  /\ UNCHANGED <<num_reset_streams, init_window_sz, numbers, peer, task,
                 closing>>

\* DATA over the window of its stream, or at odds with content-length (bad).
RecvDataError(k, sz, bad) ==
  /\ conn = "recv" /\ k \in ids /\ IsRecvStreaming(streams[k].state)
  /\ bad \/ streams[k].recv_flow.window_size < sz
  /\ IgnoreData(sz)
  /\ Transition([streams EXCEPT ![k] = SendReset(@)], k)
  /\ WakeIf(TRUE)
  /\ conn' = "ready"
  /\ UNCHANGED <<num_reset_streams, init_window_sz, numbers, peer, closing>>

\* DATA for the application; without a RecvStream nobody would read it.
RecvData(k, sz, eos) ==
  /\ conn = "recv" /\ k \in ids /\ IsRecvStreaming(streams[k].state)
  /\ sz <= flow.window_size /\ sz <= streams[k].recv_flow.window_size
  /\ LET s == [streams[k] EXCEPT
                 !.state = IF eos THEN RecvClose(@) ELSE @]
         buffered == [s EXCEPT !.recv_flow = SendData(@, sz),
                               !.in_flight_recv_data = @ + sz]
     IN \/ /\ ~s.is_recv
           /\ IgnoreData(sz)
           /\ Transition([streams EXCEPT ![k] = s], k)
        \/ /\ s.is_recv
           /\ flow' = SendData(flow, sz)
           /\ in_flight_data' = in_flight_data + sz
           /\ UNCHANGED <<target, peak>>
           /\ Transition([streams EXCEPT ![k] = buffered], k)
  /\ conn' = "ready"
  /\ UNCHANGED <<num_reset_streams, init_window_sz, numbers, peer, task,
                 closing>>

RecvRstStream(k) ==
  /\ conn = "recv" /\ k \in ids /\ streams[k].id <= max_stream_id
  /\ Transition([streams EXCEPT
                   ![k].state = RecvReset(@, streams[k].is_pending_send),
                   ![k].pending_send = FALSE,
                   ![k].buffered_send_data = FALSE], k)
  /\ conn' = "ready"
  /\ UNCHANGED <<num_reset_streams, window, init_window_sz, numbers, peer,
                 task, closing>>

\* The send window of a stream grows: data that waits may be scheduled.
RecvWindowUpdate(k) ==
  /\ conn = "recv" /\ k \in ids /\ streams[k].buffered_send_data
  /\ streams' = [streams EXCEPT ![k].is_pending_send = TRUE]
  /\ conn' = "ready"
  /\ UNCHANGED <<ids, num_recv_streams, num_reset_streams, window,
                 init_window_sz, numbers, peer, task, closing>>

\* The send window of a stream overflows: the stream is reset, outside of any
\* transition.
RecvWindowUpdateError(k) ==
  /\ conn = "recv" /\ k \in ids
  /\ ~IsSendClosed(streams[k].state) \/ streams[k].buffered_send_data
  /\ streams' = [streams EXCEPT ![k] = SendReset(@)]
  /\ WakeIf(Resets(streams[k]))
  /\ conn' = "ready"
  /\ UNCHANGED <<ids, num_recv_streams, num_reset_streams, window,
                 init_window_sz, numbers, peer, closing>>

RecvGoAway(last) ==
  /\ conn = "recv" /\ last <= send_max_stream_id
  /\ LET gone == {k \in ids : streams[k].id > last}
     IN TransitionAfter(
          [k \in Keys |-> IF k \in gone THEN Abort(streams[k], "RemoteError")
                                        ELSE streams[k]],
          ids, num_recv_streams, gone)
  /\ send_max_stream_id' = last
  /\ goaway_received' = TRUE
  /\ conn' = "ready"
  /\ UNCHANGED <<num_reset_streams, window, init_window_sz, numbers, task,
                 closing>>

\* The answer to the PING of graceful_shutdown: the final GOAWAY.
RecvShutdownPong ==
  /\ conn = "recv" /\ max_stream_id = NoLimit
  /\ max_stream_id' = last_processed_id
  /\ conn' = "ready"
  /\ UNCHANGED <<store, window, init_window_sz, next_stream_id,
                 last_processed_id, refused, peer, task, closing>>

\* The SETTINGS that carried initial window v are acknowledged.
ApplyLocalSettings(v) ==
  /\ conn = "recv"
  /\ init_window_sz' = v
  /\ LET d == v - init_window_sz
     IN streams' = [k \in Keys |->
          IF k \notin ids THEN streams[k]
          ELSE [streams[k] EXCEPT !.recv_flow = DecRecvWindow(@, -d)]]
  /\ conn' = "ready"
  /\ UNCHANGED <<ids, num_recv_streams, num_reset_streams, window, numbers,
                 peer, task, closing>>

\* Inner::recv_eof: every stream of the store is closed and every queue
\* emptied, the accept queue only when the connection is dropped.
EndOfStreams(clear_pending_accept) ==
  LET Dequeued(s) == [s EXCEPT !.is_pending_send = FALSE,
                               !.is_pending_window_update = FALSE,
                               !.is_pending_reset = FALSE,
                               !.is_pending_accept =
                                   @ /\ ~clear_pending_accept]
      str == [k \in Keys |-> Dequeued(IF k \in ids THEN Abort(streams[k], "LocalError")
                                       ELSE streams[k])]
  IN /\ TransitionAfter(str, ids, num_recv_streams, Slab)
     /\ num_reset_streams' = num_reset_streams -
          Cardinality({k \in Slab : streams[k].is_pending_reset
                                       /\ FullyClosed(str[k])})

CodecClosed ==
  /\ conn = "recv"
  /\ EndOfStreams(FALSE)
  /\ conn' = "closed"
  /\ UNCHANGED <<window, init_window_sz, numbers, peer, task, closing>>

-----------------------------------------------------------------------------
(* Streams::poll_complete.                                                  *)

FlushConnectionWindow ==
  /\ conn = "flush" /\ UnclaimedCapacity(flow) > 0
  /\ flow' = IncWindow(flow, UnclaimedCapacity(flow))
  /\ UNCHANGED <<store, in_flight_data, target, peak, init_window_sz, numbers,
                 peer, task, closing, conn>>

FlushStreamWindow(k) ==
  /\ conn = "flush" /\ UnclaimedCapacity(flow) = 0
  /\ streams[k].is_pending_window_update
  /\ LET s    == [streams[k] EXCEPT !.is_pending_window_update = FALSE]
         incr == IF IsRecvStreaming(s.state) THEN UnclaimedCapacity(s.recv_flow)
                                             ELSE 0
     IN Transition([streams EXCEPT
                      ![k] = [s EXCEPT !.recv_flow = IncWindow(@, incr)]], k)
  /\ UNCHANGED <<num_reset_streams, window, init_window_sz, numbers, peer,
                 task, closing, conn>>

WindowsFlushed ==
  /\ UnclaimedCapacity(flow) = 0
  /\ \A k \in Keys : ~streams[k].is_pending_window_update

\* Prioritize::pop_frame takes the last frame of stream k, or its scheduled
\* reset, or finds that its frames were cleared.
PopFrame(k) ==
  /\ conn = "flush" /\ WindowsFlushed /\ streams[k].is_pending_send
  /\ LET s == streams[k]
     IN Transition([streams EXCEPT ![k] =
          IF s.pending_send
          THEN [s EXCEPT !.pending_send = FALSE,
                         !.buffered_send_data = FALSE,
                         !.is_pending_send = IsScheduledReset(s.state)]
          ELSE [s EXCEPT !.is_pending_send = FALSE,
                         !.state = IF IsScheduledReset(@) THEN SetReset ELSE @]],
          k)
  /\ UNCHANGED <<num_reset_streams, window, init_window_sz, numbers, peer,
                 task, closing, conn>>

\* pop_frame has taken the last of the data, and other frames are left.
PopData(k) ==
  /\ conn = "flush" /\ WindowsFlushed /\ streams[k].is_pending_send
  /\ streams[k].buffered_send_data
  /\ streams' = [streams EXCEPT ![k].buffered_send_data = FALSE]
  /\ UNCHANGED <<ids, num_recv_streams, num_reset_streams, window,
                 init_window_sz, numbers, peer, task, closing, conn>>

\* pop_frame finds a DATA frame and no send window for it.
PopBlocked(k) ==
  /\ conn = "flush" /\ WindowsFlushed /\ streams[k].is_pending_send
  /\ streams[k].buffered_send_data
  /\ streams' = [streams EXCEPT ![k].is_pending_send = FALSE]
  /\ UNCHANGED <<ids, num_recv_streams, num_reset_streams, window,
                 init_window_sz, numbers, peer, task, closing, conn>>

\* The connection is going away and its last stream is done.
DoneAfterPeerGoAway == goaway_received /\ num_recv_streams = 0
Done ==
  (goaway_received \/ max_stream_id # NoLimit) /\ num_recv_streams = 0

\* Nothing is left to write.
Park ==
  /\ conn = "flush" /\ WindowsFlushed
  /\ \A k \in Keys : ~streams[k].is_pending_send
  /\ task' = TRUE
  /\ closing' = Done
  /\ conn' = IF Done THEN "expire" ELSE "parked"
  /\ UNCHANGED <<store, window, init_window_sz, numbers, peer>>

Blocked ==
  /\ conn = "flush"
  /\ conn' = "blocked"
  /\ UNCHANGED <<store, window, init_window_sz, numbers, peer, task, closing>>

\* poll returns the I/O error of poll_complete without handle_error.
WriteError ==
  /\ conn = "flush"
  /\ conn' = "closed"
  /\ UNCHANGED <<store, window, init_window_sz, numbers, peer, task, closing>>

-----------------------------------------------------------------------------
(* The application, between two polls.                                      *)

Between == conn \notin Polling

\* poll_accept: a StreamRef for SendResponse, a clone of it for RecvStream.
NextIncoming(k) ==
  /\ conn \in Waiting /\ streams[k].is_pending_accept
  /\ streams' = [streams EXCEPT ![k].is_pending_accept = FALSE,
                                ![k].ref_count = @ + 2]
  /\ UNCHANGED <<ids, num_recv_streams, num_reset_streams, window,
                 init_window_sz, numbers, peer, task, closing, conn>>

CloneHandle(k) ==
  /\ Between /\ streams[k].ref_count \in 1 .. MaxHandles - 1
  /\ streams' = [streams EXCEPT ![k].ref_count = @ + 1]
  /\ UNCHANGED <<ids, num_recv_streams, num_reset_streams, window,
                 init_window_sz, numbers, peer, task, closing, conn>>

\* release_closed_capacity: what stream t gives back to the connection.
CapacityOfCanceled(t) ==
  IF t.ref_count = 0 /\ ~FullyClosed(t) THEN t.in_flight_recv_data ELSE 0
ClosedCapacity(t) ==
  IF t.ref_count = 0 THEN t.in_flight_recv_data ELSE 0

\* drop_stream_ref of stream k, whose record before it is s: the last handle
\* of a live stream cancels it, and the last handle of any stream gives its
\* data back to the connection.
DropStreamRef(k, s) ==
  LET t        == [s EXCEPT !.ref_count = @ - 1]
      last     == t.ref_count = 0
      canceled == last /\ ~IsClosed(t.state)
      size     == ClosedCapacity(t)
      freed    == [t EXCEPT !.in_flight_recv_data = @ - size]
      Put(u)   == [streams EXCEPT ![k] = u]
  IN /\ flow' = AssignCapacity(flow, size)
     /\ in_flight_data' = in_flight_data - size
     /\ UNCHANGED <<target, peak>>
     /\ \/ /\ canceled
           /\ EnqueueResetExpiration(Put(ScheduleImplicitReset(freed)),
                                     ids, num_recv_streams, k)
        \/ /\ ~canceled
           /\ Transition(Put(freed), k)
           /\ UNCHANGED num_reset_streams
     /\ WakeIf(\/ canceled
               \/ last /\ FullyClosed(t)
               \/ size > 0 /\ UnclaimedCapacity(flow') > 0)

\* RecvStream goes first through clear_recv_buffer.
DropRecvStream(k) ==
  /\ Between /\ streams[k].ref_count > 0 /\ streams[k].is_recv
  /\ DropStreamRef(k, [streams[k] EXCEPT !.is_recv = FALSE])
  /\ UNCHANGED <<init_window_sz, numbers, peer, closing, conn>>

\* Any other handle.
DropHandle(k) ==
  /\ Between
  /\ streams[k].ref_count > (IF streams[k].is_recv THEN 1 ELSE 0)
  /\ DropStreamRef(k, streams[k])
  /\ UNCHANGED <<init_window_sz, numbers, peer, closing, conn>>

AnyCapacity(k, n) == streams[k].ref_count > 0
Releasable(k, n) ==
  streams[k].ref_count > 0 /\ n <= streams[k].in_flight_recv_data

\* FlowControl::release_capacity, through any handle.
ReleaseCapacity(k, n) ==
  /\ Between /\ Releasable(k, n)
  /\ flow' = AssignCapacity(flow, n)
  /\ in_flight_data' = in_flight_data - n
  /\ LET s   == [streams[k] EXCEPT !.in_flight_recv_data = @ - n,
                                   !.recv_flow = AssignCapacity(@, n)]
         due == UnclaimedCapacity(s.recv_flow) > 0
     IN /\ streams' = [streams EXCEPT ![k] =
             [s EXCEPT !.is_pending_window_update = @ \/ due]]
        /\ WakeIf(due \/ UnclaimedCapacity(flow') > 0)
  /\ UNCHANGED <<target, peak, ids, num_recv_streams, num_reset_streams,
                 init_window_sz, numbers, peer, closing, conn>>

\* set_target_connection_window
SetTargetOverInFlight(t) ==
  /\ conn \in Waiting
  /\ flow' = AssignCapacity(flow, t - flow.available)
  /\ target' = t
  /\ peak' = IF t > peak THEN t ELSE peak
  /\ WakeIf(UnclaimedCapacity(flow') > 0)
  /\ UNCHANGED <<in_flight_data, store, init_window_sz, numbers, peer, closing,
                 conn>>

SetTarget(t) ==
  /\ conn \in Waiting
  /\ flow' = AssignCapacity(flow, t - (flow.available + in_flight_data))
  /\ target' = t
  /\ peak' = IF t > peak THEN t ELSE peak
  /\ WakeIf(UnclaimedCapacity(flow') > 0)
  /\ UNCHANGED <<in_flight_data, store, init_window_sz, numbers, peer, closing,
                 conn>>

\* SendResponse::send_response, which returns a SendStream.
SendResponse(k, eos) ==
  /\ Between /\ streams[k].ref_count \in 1 .. MaxHandles - 1
  /\ CanSendOpen(streams[k].state)
  /\ Transition([streams EXCEPT ![k].state = SendOpen(@, eos),
                                ![k].ref_count = @ + 1,
                                ![k].pending_send = TRUE,
                                ![k].is_pending_send = TRUE], k)
  /\ WakeIf(TRUE)
  /\ UNCHANGED <<num_reset_streams, window, init_window_sz, numbers, peer,
                 closing, conn>>

\* StreamRef::send_data, where data that finds no send window is buffered
\* without scheduling the stream, and send_trailers (eos, not sized).
SendFrame(k, eos, sized, scheduled) ==
  LET s == [streams[k] EXCEPT !.state = IF eos THEN SendClose(@) ELSE @,
                              !.pending_send = TRUE,
                              !.buffered_send_data = @ \/ sized,
                              !.is_pending_send = @ \/ scheduled]
  IN /\ Between /\ streams[k].ref_count > 0
     /\ IsSendStreaming(streams[k].state)
     /\ scheduled \/ s.buffered_send_data
     /\ Transition([streams EXCEPT ![k] = s], k)
     /\ WakeIf(scheduled)
     /\ UNCHANGED <<num_reset_streams, window, init_window_sz, numbers, peer,
                    closing, conn>>

UserReset(k) ==
  /\ Between /\ streams[k].ref_count > 0
  /\ EnqueueResetExpiration([streams EXCEPT ![k] = SendReset(@)],
                            ids, num_recv_streams, k)
  /\ WakeIf(Resets(streams[k]))
  /\ UNCHANGED <<window, init_window_sz, numbers, peer, closing, conn>>

\* abrupt_shutdown, after which the connection has to be polled.
AbruptShutdown ==
  /\ conn \in Waiting /\ ~closing
  /\ HandleErrorAll("LocalError")
  /\ closing' = TRUE
  /\ conn' = "blocked"
  /\ UNCHANGED <<num_reset_streams, window, init_window_sz, numbers, peer,
                 task>>

\* Drop for Connection; handles may outlive it.
DropConnection ==
  /\ conn \in Waiting \cup {"closed"}
  /\ EndOfStreams(TRUE)
  /\ conn' = "dropped"
  /\ UNCHANGED <<window, init_window_sz, numbers, peer, task, closing>>

-----------------------------------------------------------------------------
Poll ==
  \/ BeginPoll \/ PollReady \/ NotReady \/ GoAwaySent \/ NoFrame \/ IoError
  \/ \E k \in Keys : ExpireReset(k)

Receive ==
  \/ RecvIgnored \/ RecvInvalid \/ RecvShutdownPong \/ CodecClosed
  \/ \E i \in StreamId : RecvMalformed(i) \/ RefuseHeaders(i)
  \/ \E i \in StreamId, eos \in BOOLEAN : RecvHeaders(i, eos)
  \/ \E k \in Keys, bad \in BOOLEAN : RecvTrailers(k, bad)
  \/ \E i \in StreamId, sz \in Sizes : RecvDataForgotten(i, sz)
  \/ \E k \in Keys, sz \in Sizes : RecvDataReset(k, sz)
  \/ \E k \in Keys, sz \in Sizes, b \in BOOLEAN :
       RecvDataError(k, sz, b) \/ RecvData(k, sz, b)
  \/ \E k \in Keys : RecvRstStream(k) \/ RecvWindowUpdate(k)
                       \/ RecvWindowUpdateError(k)
  \/ \E last \in GoAwayIds : RecvGoAway(last)
  \/ \E v \in InitWindows : ApplyLocalSettings(v)

Flush ==
  \/ FlushConnectionWindow \/ Park \/ Blocked \/ WriteError
  \/ \E k \in Keys : FlushStreamWindow(k) \/ PopFrame(k) \/ PopData(k)
                       \/ PopBlocked(k)

Use ==
  \/ AbruptShutdown \/ DropConnection
  \/ \E t \in Targets : SetTarget(t)
  \/ \E k \in Keys : NextIncoming(k) \/ DropRecvStream(k) \/ DropHandle(k)
                       \/ UserReset(k)
  \/ \E k \in Keys, n \in Sizes : ReleaseCapacity(k, n)
  \/ \E k \in Keys, eos \in BOOLEAN : SendResponse(k, eos)
  \/ \E k \in Keys, eos \in BOOLEAN, sized \in BOOLEAN, now \in BOOLEAN :
       SendFrame(k, eos, sized, now)

Clone == \E k \in Keys : CloneHandle(k)

Next == Poll \/ Receive \/ Flush \/ Use \/ Clone

Spec == Init /\ [][Next]_vars

\* Data of stream k waits for a WINDOW_UPDATE of the peer.
Starved(k) == streams[k].buffered_send_data /\ ~streams[k].is_pending_send

(* Fairness.  The connection is polled again when it was woken, when the     *)
(* codec could not write, and when the peer, which reads, has opened the     *)
(* window that data waits for.  The codec has room again and again, and the  *)
(* frames of the peer run out again and again (NoFrame), as poll2 reads them *)
(* all before anything is flushed.                                           *)
ConnectionFairness ==
  /\ WF_vars(/\ BeginPoll
             /\ conn = "blocked" \/ ~task \/ \E k \in Keys : Starved(k))
  /\ SF_vars(PollReady \/ GoAwaySent)
  /\ SF_vars(NoFrame)
  /\ SF_vars(FlushConnectionWindow)
  /\ SF_vars(\E k \in Keys : FlushStreamWindow(k))
  /\ SF_vars(\E k \in Keys : PopFrame(k))
  /\ SF_vars(Park)
  /\ SF_vars(\E k \in Keys : RecvWindowUpdate(k))

(* The application accepts what arrives and drops its handles in the end;    *)
(* it does not clone them for ever.                                          *)
ApplicationFairness ==
  SF_vars(\E k \in Keys :
            NextIncoming(k) \/ DropRecvStream(k) \/ DropHandle(k))

FairSpec ==
  /\ Init /\ [][Poll \/ Receive \/ Flush \/ Use]_vars
  /\ ConnectionFairness /\ ApplicationFairness

-----------------------------------------------------------------------------
(* Properties.                                                              *)

TypeOK ==
  /\ streams \in [Keys -> Stream] /\ ids \subseteq Keys
  /\ num_recv_streams \in Int /\ num_reset_streams \in Int
  /\ flow \in FlowControl /\ in_flight_data \in Int /\ init_window_sz \in Nat
  /\ target \in Nat /\ peak \in Nat
  /\ next_stream_id \in Nat /\ last_processed_id \in Nat
  /\ max_stream_id \in Nat /\ send_max_stream_id \in Nat /\ refused \in Nat
  /\ goaway_received \in BOOLEAN /\ task \in BOOLEAN /\ closing \in BOOLEAN
  /\ conn \in Phases

Live(k)  == k \in Slab /\ ~IsClosed(streams[k].state)
Counted  == {k \in Keys : streams[k].is_counted}
Awaiting == {k \in Keys : streams[k].is_pending_reset}

\* Counts: num_recv_streams is the number of counted streams, which respects
\* the limit announced to the peer, and every live stream is counted.  The
\* asserts of dec_num_streams hold.
CountsExact ==
  /\ num_recv_streams = Cardinality(Counted)
  /\ num_recv_streams <= MaxRecvStreams
  /\ \A k \in Keys : Live(k) => streams[k].is_counted

\* Counts: no more streams than max_reset_streams wait for their reset to
\* expire, and each of them is counted in num_reset_streams.
ResetsCounted ==
  Cardinality(Awaiting) <= num_reset_streams
    /\ num_reset_streams <= MaxResetStreams

\* Store: a live stream is found by its identifier, and no other stream, not
\* even a closed one that waits in a queue, has that identifier.
LiveIsFindable ==
  \A k \in Keys : Live(k) =>
    /\ k \in ids
    /\ \A j \in Slab : streams[j].id = streams[k].id => j = k

\* Recv: what the connection may still receive and what the application has
\* not released make up the target window.
ConnAccounting == flow.available + in_flight_data = target

\* Recv: whatever the peer sends, the data it may still send and the data in
\* flight together never exceed the largest target that was set.
MemoryBound == flow.window_size + in_flight_data <= peak

\* Recv: the same accounting for each live stream, against the initial window
\* in force, across SETTINGS that change it.
StreamAccounting ==
  \A k \in Keys : Live(k) =>
    streams[k].recv_flow.available + streams[k].in_flight_recv_data
      = init_window_sz

\* drop_stream_ref: a stream that nobody can read any more holds no data of
\* the connection window.
NoCapacityStranded ==
  \A k \in Slab :
    streams[k].ref_count = 0 /\ ~streams[k].is_pending_accept
      => conn = "dropped" \/ streams[k].in_flight_recv_data = 0

\* Recv (doc of in_flight_data): the data in flight of the connection is that
\* of its streams, so release_capacity never takes it below zero.
InFlightIsSum ==
  conn # "dropped" =>
    in_flight_data =
      MapThenSumSet(LAMBDA k : streams[k].in_flight_recv_data, Keys)

\* Recv (doc of in_flight_data) and drop_stream_ref: all the data in flight belongs
\* to streams, and to streams that somebody can still read.
InFlightIsOwned == InFlightIsSum /\ NoCapacityStranded

\* Counts::transition_after: no stream stays in the slab once it is released,
\* and none can be found, or is counted, once it is closed and flushed.
NoLeak ==
  \A k \in Slab :
    /\ ~IsReleased(streams[k])
    /\ FullyClosed(streams[k]) =>
         /\ ~streams[k].is_counted
         /\ k \in ids => streams[k].is_pending_reset

\* actions.task: when the connection sleeps and nobody has woken it, nothing
\* waits to be written.
NothingForgotten ==
  conn = "parked" /\ task =>
    WindowsFlushed /\ \A k \in Keys : ~streams[k].is_pending_send

\* The same for a shutdown: the connection does not sleep on once it is
\* going away and its last stream is done.
ShutdownNotForgotten ==
  conn = "parked" /\ task /\ num_recv_streams = 0 =>
    ~goaway_received /\ max_stream_id = NoLimit

\* Recv::go_away (its assert) and the last GOAWAY: every live stream is among
\* those the GOAWAY says may have been processed.
GoAwayCovers ==
  /\ last_processed_id <= max_stream_id
  /\ \A k \in Keys : Live(k) => streams[k].id <= last_processed_id

\* Prioritize::pop_frame (its debug_assert): a stream that is in the send
\* queue without a frame is closed.
DanglingIsClosed ==
  \A k \in Keys :
    streams[k].is_pending_send /\ ~streams[k].pending_send
      => IsClosed(streams[k].state)

\* State: a closed stream is never open again.
NeverReopened ==
  [][\A k \in Slab :
       IsClosed(streams[k].state) /\ streams'[k].id = streams[k].id
         => IsClosed(streams'[k].state)]_vars

\* Store: a slot is not freed under a handle: not at all by the connection,
\* and by the application only when it drops the last one.
KeysStayValid ==
  [][\A k \in Keys :
       streams[k].ref_count > (IF conn \in Polling THEN 0 ELSE 1)
         => streams'[k].id = streams[k].id]_vars

\* Streams: a stream that this side has reset takes no more data, and its
\* window is not opened again.
ResetTakesNoData ==
  [][\A k \in Slab :
       IsLocalReset(streams[k].state) /\ streams'[k].id = streams[k].id =>
         /\ streams'[k].in_flight_recv_data <= streams[k].in_flight_recv_data
         /\ streams'[k].recv_flow.window_size <= streams[k].recv_flow.window_size
              \/ init_window_sz' > init_window_sz]_vars

\* Recv: a refusal is sent before another stream can be refused (the assert
\* of Recv::open).
RefusalNotOverwritten == [][refused = 0 \/ refused' \in {0, refused}]_vars

\* Counts: both counters are exact, in every order of errors, resets and expiries.
CountersExact == CountsExact /\ ResetsCounted

\* Counts::transition_after and actions.task: nothing is left over in the slab, and
\* nothing is left behind for a connection that sleeps.
NothingLeft == NoLeak /\ NothingForgotten /\ ShutdownNotForgotten

\* Recv::go_away (assert) and Prioritize::pop_frame (debug_assert).
AssertsHold == GoAwayCovers /\ DanglingIsClosed

\* Store, State and Recv::open, step by step: slots are not freed under handles,
\* closed streams stay closed, and a refusal is sent before the next is recorded.
StreamSteps == KeysStayValid /\ NeverReopened /\ RefusalNotOverwritten

Over == conn \in {"closed", "dropped"}

\* Recv: connection window that is worth announcing is announced, whoever
\* released it.
ConnectionWindowReopens ==
  UnclaimedCapacity(flow) > 0 ~> UnclaimedCapacity(flow) = 0 \/ Over

\* go_away_gracefully: after the final GOAWAY the connection ends, once the
\* application is through with the requests it was given.
GracefulEnds == max_stream_id # NoLimit ~> Over

=============================================================================
