------------------------------- MODULE H2Send -------------------------------
(***************************************************************************)
(* The send side of an HTTP/2 connection: proto/streams/{prioritize,send,  *)
(* stream,counts}.rs and the parts of streams.rs that call them, on a      *)
(* client (Remote = {}) or on a server, whose own streams are pushed.      *)
(*                                                                         *)
(* Everything runs on one thread.  A call whose code loops over streams    *)
(* takes several steps: work is what is left of it, and nothing else       *)
(* happens until work is empty.  Between two polls of the connection (conn *)
(* is parked or blocked) the application uses its handles; actions.task,   *)
(* when set, is how it wakes the connection.                               *)
(*                                                                         *)
(* Abstractions.  The streams are numbered in the order of their creation. *)
(* A payload is its size.  The intrusive queues are sequences (H2Store     *)
(* shows that they are).  The handles of one stream count as one, and the  *)
(* receive half only says when the peer ended it.  At most                 *)
(* local_reset_max streams wait for their reset to expire.  The record of  *)
(* a stream that left the slab is kept as history.                         *)
(***************************************************************************)
EXTENDS Integers, Sequences, FiniteSets, FiniteSetsExt, H2FlowControl, H2StreamState

CONSTANTS
  MaxId,           \* bound: streams are 1 .. MaxId
  Increments,      \* increments of WINDOW_UPDATE
  MaxWindow,       \* MAX_WINDOW_SIZE
  MaxFrameSize,    \* Codec::max_send_frame_size
  Scopes           \* what happens in a behaviour: one of these is chosen at first

(* A scope says who the peer is and what it sends, and what the application  *)
(* does.                                                                     *)
Scope == [
  last : 1 .. MaxId,            \* bound: the last stream
  remote : {1 .. n : n \in 0 .. MaxId}, \* the streams the peer opens (none on a client)
  sizes : SUBSET Nat,           \* sizes of DATA payloads
  frames : Nat,                 \* bound: frames that wait on one stream
  reservations : SUBSET Nat,    \* arguments of reserve_capacity
  windows : SUBSET Nat,         \* values of SETTINGS_INITIAL_WINDOW_SIZE
  buffer : Nat,                 \* max_send_buffer_size
  limits : SUBSET Nat,          \* values of SETTINGS_MAX_CONCURRENT_STREAMS
  goaways : SUBSET Nat,         \* last stream identifiers the peer may announce
  uses : SUBSET {"trailers", "wait", "reset", "drop", "fail", "settings"}]

ASSUME SendAssumption ==
  /\ MaxId \in Nat /\ Increments \subseteq Nat \ {0}
  /\ MaxWindow \in Nat /\ MaxFrameSize \in Nat \ {0}
  /\ Scopes \subseteq Scope

StreamId == 1 .. MaxId

VARIABLES
  scope,             \* the scope of this behaviour
  streams,           \* every stream there is or was
  store, ids,        \* the slab, and the streams its identifier map knows
  pending_send, pending_capacity, pending_open,  \* the queues of Prioritize
  flow,              \* the send window of the connection
  init_window_sz, num_send_streams, max_send_streams, next_stream_id,
  max_stream_id, conn_error,
  in_flight,         \* in_flight_data_frame: 0, a stream, or Dropped
  chunk,             \* the DATA frame the codec holds: what it did not take
  task,              \* actions.task is set
  conn,              \* where the connection task is
  work, todo,        \* what is left of the call; the streams it still visits
  wire, ended        \* history: how far the peer knows each stream, and the
                     \* streams whose other half it ended itself

Remote      == scope.remote
MaxBuffer   == scope.buffer
InitWindows == scope.windows
SendLimits  == scope.limits

\* Whether trailers are sent, producers and openers wait, streams are reset,
\* handles are dropped, the connection fails, and settings change.
Trailers == "trailers" \in scope.uses
Waits    == "wait" \in scope.uses
Resets   == "reset" \in scope.uses
Drops    == "drop" \in scope.uses
Failures == "fail" \in scope.uses
Settings == "settings" \in scope.uses

queues   == <<pending_send, pending_capacity, pending_open>>
slab     == <<store, ids, num_send_streams>>
settings == <<scope, init_window_sz, max_send_streams>>
codec    == <<in_flight, chunk>>
peer     == <<max_stream_id, conn_error>>
history  == <<wire, ended>>
vars == <<streams, slab, queues, flow, settings, next_stream_id, peer, codec,
          task, conn, work, todo, history>>

Dropped == MaxId + 1

\* A frame that waits; child is the stream a PUSH_PROMISE promises.
Frame == [type : {"headers", "data", "push", "rst"}, size : Nat,
          eos : BOOLEAN, child : 0 .. MaxId]
HeadersFrame(eos)  == [type |-> "headers", size |-> 0, eos |-> eos, child |-> 0]
DataFrame(sz, eos) == [type |-> "data", size |-> sz, eos |-> eos, child |-> 0]
PushFrame(c)       == [type |-> "push", size |-> 0, eos |-> FALSE, child |-> c]
ResetFrame         == [type |-> "rst", size |-> 0, eos |-> FALSE, child |-> 0]

\* The tasks that wait on a stream: in SendStream::poll_capacity, and in
\* SendRequest::poll_ready.  send_task holds the waker of one of them.
Tasks == {"producer", "opener"}

Stream ==
  [state : State, is_counted : BOOLEAN, ref_count : 0 .. 1,
   send_flow : FlowControl, requested_send_capacity : Nat,
   buffered_send_data : Nat, send_capacity_inc : BOOLEAN,
   pending_send : Seq(Frame), is_pending_push : BOOLEAN,
   is_pending_reset : BOOLEAN, send_task : Tasks \cup {"-"},
   waiting : SUBSET Tasks]

NewStream(window) ==
  [state |-> Idle, is_counted |-> FALSE, ref_count |-> 1,
   send_flow |-> [window_size |-> window, available |-> 0],
   requested_send_capacity |-> 0,
   buffered_send_data |-> 0, send_capacity_inc |-> FALSE,
   pending_send |-> <<>>, is_pending_push |-> FALSE,
   is_pending_reset |-> FALSE, send_task |-> "-", waiting |-> {}]

Least(a, b) == IF a < b THEN a ELSE b
Members(q)  == {q[i] : i \in DOMAIN q}
Push(q, k)  == IF k \in Members(q) THEN q ELSE Append(q, k)

IsServer       == Remote # {}
IsLocalInit(k) == k \notin Remote
IsQueued(k)    == k \in Members(pending_send) \cup Members(pending_capacity)
                          \cup Members(pending_open)

\* Stream::is_send_ready, is_closed, is_released
ReadyBeforePromise(s, k) == k \notin Members(pending_open)
IsSendReady(s, k) == k \notin Members(pending_open) /\ ~s.is_pending_push
FullyClosed(s) ==
  IsClosed(s.state) /\ s.pending_send = <<>> /\ s.buffered_send_data = 0
IsReleased(s, k) ==
  FullyClosed(s) /\ s.ref_count = 0 /\ ~IsQueued(k) /\ ~s.is_pending_reset

\* Counts::can_inc_num_send_streams
OneStreamTooMany == num_send_streams <= max_send_streams
CanIncNumSendStreams == num_send_streams < max_send_streams

\* Stream::capacity, wait_send, notify_send, assign_capacity and send_data
Capacity(s) ==
  LET c == Least(AsSize(s.send_flow.available), MaxBuffer)
  IN IF c > s.buffered_send_data THEN c - s.buffered_send_data ELSE 0

WaitSend(s, who) == [s EXCEPT !.waiting = @ \cup {who}, !.send_task = who]
NotifySend(s) == [s EXCEPT !.waiting = @ \ {s.send_task}, !.send_task = "-"]

NotifyOnAssignOnly(s, t) ==
  IF Capacity(s) < Capacity(t) /\ t.buffered_send_data = s.buffered_send_data
  THEN NotifySend([t EXCEPT !.send_capacity_inc = TRUE]) ELSE t
NotifyCapacity(s, t) ==
  IF Capacity(s) < Capacity(t)
  THEN NotifySend([t EXCEPT !.send_capacity_inc = TRUE]) ELSE t

AssignToStream(s, n) ==
  NotifyCapacity(s, [s EXCEPT !.send_flow = AssignCapacity(@, n)])

SendDataOf(s, n) ==
  NotifyCapacity(s, [s EXCEPT !.send_flow = SendData(@, n),
                              !.buffered_send_data = @ - n,
                              !.requested_send_capacity = @ - n])

Init ==
  /\ scope \in Scopes
  /\ streams = [k \in StreamId |-> NewStream(0)]
  /\ store = {} /\ ids = {}
  /\ pending_send = <<>> /\ pending_capacity = <<>> /\ pending_open = <<>>
  /\ init_window_sz \in InitWindows
  /\ flow = NewFlow(init_window_sz)
  /\ num_send_streams = 0 /\ max_send_streams \in SendLimits
  /\ next_stream_id = 1 + Cardinality(Remote)
  /\ max_stream_id = MaxId + 1 /\ conn_error = FALSE
  /\ in_flight = 0 /\ chunk = [size |-> 0, eos |-> FALSE]
  /\ task = FALSE /\ conn = "blocked"
  /\ work = <<>> /\ todo = {}
  /\ wire = [k \in StreamId |-> "idle"] /\ ended = {}

-----------------------------------------------------------------------------
(* The steps of a call.                                                     *)

\* arg is the argument of a step that has one, frame the frame it queues.
Step(do, k, arg, frame) == [do |-> do, k |-> k, arg |-> arg, frame |-> frame]
AssignStep         == <<Step("assign", 0, 0, ResetFrame)>>
AfterStep(k)       == <<Step("after", k, 0, ResetFrame)>>
ExpireStep(k)      == <<Step("expire", k, 0, ResetFrame)>>
CloseStep(k)       == <<Step("close", k, 0, ResetFrame)>>
ReserveStep(k, n)  == <<Step("reserve", k, n, ResetFrame)>>
ScheduleStep(k)    == <<Step("schedule", k, 0, ResetFrame)>>
QueueStep(k, f)    == <<Step("queue", k, 0, f)>>
AbortStep(eof)     == <<Step("abort", 0, eof, ResetFrame)>>
GrowStep(n)        == <<Step("grow", 0, n, ResetFrame)>>
ClearStep          == <<Step("clear", 0, 0, ResetFrame)>>

Doing(do) == work # <<>> /\ Head(work).do = do

\* schedule_send: the stream joins pending_send, the connection is woken.
ScheduleQuietly(s, k) ==
  /\ pending_send' = IF IsSendReady(s, k) THEN Push(pending_send, k)
                                          ELSE pending_send
  /\ UNCHANGED task
ScheduleSend(s, k) ==
  /\ pending_send' = IF IsSendReady(s, k) THEN Push(pending_send, k)
                                          ELSE pending_send
  /\ task' = (task /\ ~IsSendReady(s, k))

(* try_assign_capacity for the stream k of str.  The subtractions are those *)
(* of u32; AssignedAsRequested shows that they do not wrap around.          *)
Additional(s) ==
  LET available == AsSize(s.send_flow.available)
  IN Least(s.requested_send_capacity - available,
           AsSize(s.send_flow.window_size) - available)

WaitsForCapacity(s) ==
  /\ s.send_flow.available < s.requested_send_capacity
  /\ HasUnavailable(s.send_flow)

TryAssign(str, capacity, k) ==
  LET s == str[k]
      n == Least(AsSize(flow.available), Additional(s))
      t == IF n > 0 THEN AssignToStream(s, n) ELSE s
  IN IF Additional(s) = 0
     THEN /\ streams' = str
          /\ pending_capacity' = capacity
          /\ UNCHANGED <<flow, pending_send>>
     ELSE /\ streams' = [str EXCEPT ![k] = t]
          /\ flow' = ClaimCapacity(flow, n)
          /\ pending_capacity' =
               IF WaitsForCapacity(t) THEN Push(capacity, k) ELSE capacity
          /\ pending_send' =
               IF t.buffered_send_data > 0 /\ IsSendReady(t, k)
               THEN Push(pending_send, k) ELSE pending_send

(* The loop of assign_connection_capacity.  A stream that wants no capacity *)
(* any more is evicted, and no transition_after follows.                    *)
WantsAlways(s) == TRUE
Wants(s) == IsSendStreaming(s.state) \/ s.buffered_send_data > 0

AfterAssign(k) == AfterStep(k) \o AssignStep

Assign ==
  /\ Doing("assign")
  /\ IF flow.available > 0 /\ pending_capacity # <<>>
     THEN LET k == Head(pending_capacity)
          IN IF Wants(streams[k])
             THEN /\ TryAssign(streams, Tail(pending_capacity), k)
                  /\ work' = AfterAssign(k) \o Tail(work)
             ELSE /\ pending_capacity' = Tail(pending_capacity)
                  /\ UNCHANGED <<streams, flow, pending_send, work>>
     ELSE /\ work' = Tail(work)
          /\ UNCHANGED <<streams, flow, pending_send, pending_capacity>>
  /\ UNCHANGED <<pending_open, slab, settings, next_stream_id, peer, codec,
                 task, conn, todo, history>>

(* Counts::transition_after, where expire says whether                      *)
(* enqueue_reset_expiration comes first.                                    *)
Uncount(s) == [s EXCEPT !.is_counted = FALSE]
After ==
  \E expire \in BOOLEAN :
    /\ Doing(IF expire THEN "expire" ELSE "after")
    /\ LET k == Head(work).k
           s == [streams[k] EXCEPT
                   !.is_pending_reset = @ \/ (expire /\ IsLocalReset(streams[k].state))]
       IN /\ streams' = [streams EXCEPT
                           ![k] = IF FullyClosed(s) THEN Uncount(s) ELSE s]
          /\ ids' = IF FullyClosed(s) /\ ~s.is_pending_reset THEN ids \ {k}
                                                             ELSE ids
          /\ num_send_streams' =
               num_send_streams - (IF FullyClosed(s) /\ s.is_counted THEN 1 ELSE 0)
          /\ store' = IF IsReleased(s, k) THEN store \ {k} ELSE store
    /\ work' = Tail(work)
    /\ UNCHANGED <<queues, flow, settings, next_stream_id, peer, codec,
                   task, conn, todo, history>>

(* reserve_capacity, after send_close when the stream ends.                 *)
Lowered(k, s, n) ==
  LET excess == AsSize(s.send_flow.available) - n
      back   == IF excess > 0 THEN excess ELSE 0
  IN /\ streams' = [streams EXCEPT
                      ![k] = [s EXCEPT !.requested_send_capacity = n,
                                       !.send_flow = ClaimCapacity(@, back)]]
     /\ flow' = AssignCapacity(flow, back)
     /\ work' = (IF back > 0 THEN AssignStep ELSE <<>>) \o Tail(work)
     /\ UNCHANGED <<pending_send, pending_capacity>>

Reserve(k, s, capacity) ==
  LET n == capacity + s.buffered_send_data
  IN \/ n < s.requested_send_capacity /\ Lowered(k, s, n)
     \/ /\ n > s.requested_send_capacity /\ ~IsSendClosed(s.state)
        /\ TryAssign([streams EXCEPT
                        ![k] = [s EXCEPT !.requested_send_capacity = n]],
                     pending_capacity, k)
        /\ work' = Tail(work)
     \/ /\ \/ n = s.requested_send_capacity
           \/ n > s.requested_send_capacity /\ IsSendClosed(s.state)
        /\ streams' = [streams EXCEPT ![k] = s]
        /\ work' = Tail(work)
        /\ UNCHANGED <<flow, pending_send, pending_capacity>>

ReserveNow ==
  /\ Doing("reserve")
  /\ Reserve(Head(work).k, streams[Head(work).k], Head(work).arg)
  /\ UNCHANGED <<pending_open, slab, settings, next_stream_id, peer, codec,
                 task, conn, todo, history>>

\* The end of the stream in send_data: send_close, then reserve_capacity(0).
Close ==
  /\ Doing("close")
  /\ LET k == Head(work).k
     IN Reserve(k, [streams[k] EXCEPT !.state = SendClose(@)], 0)
  /\ UNCHANGED <<pending_open, slab, settings, next_stream_id, peer, codec,
                 task, conn, todo, history>>

\* The end of send_data: without capacity the frame waits unscheduled.
Schedules(s) == s.send_flow.available > 0 \/ s.buffered_send_data = 0

Queue ==
  /\ Doing("queue")
  /\ LET k == Head(work).k
         s == [streams[k] EXCEPT !.pending_send = Append(@, Head(work).frame)]
     IN /\ streams' = [streams EXCEPT ![k] = s]
        /\ IF Schedules(s) THEN ScheduleSend(s, k)
                           ELSE UNCHANGED <<pending_send, task>>
  /\ work' = Tail(work)
  /\ UNCHANGED <<pending_capacity, pending_open, slab, flow, settings,
                 next_stream_id, peer, codec, conn, todo, history>>

Schedule ==
  /\ Doing("schedule")
  /\ ScheduleSend(streams[Head(work).k], Head(work).k)
  /\ work' = Tail(work)
  /\ UNCHANGED <<streams, pending_capacity, pending_open, slab, flow, settings,
                 next_stream_id, peer, codec, conn, todo, history>>

\* clear_queue and reclaim_all_capacity
Cleared(s) ==
  [s EXCEPT !.pending_send = <<>>, !.buffered_send_data = 0,
            !.requested_send_capacity = 0,
            !.send_flow = ClaimCapacity(@, AsSize(s.send_flow.available))]
ReclaimStep(s)     == IF s.send_flow.available > 0 THEN AssignStep ELSE <<>>
Reclaimed(s)       == AssignCapacity(flow, AsSize(s.send_flow.available))

ForgetInFlight(k) == in_flight' = IF in_flight = k THEN Dropped ELSE in_flight

(* One stream of DynStreams::handle_error, recv_go_away or recv_eof: its    *)
(* tasks are woken, its frames dropped, its capacity goes back.             *)
AbortOne ==
  /\ Doing("abort") /\ todo # {}
  /\ \E k \in todo :
       LET s == streams[k]
           t == [NotifySend(s) EXCEPT
                   !.state = HandleError(@, IF Head(work).arg = 1
                                            THEN "RemoteError" ELSE "LocalError")]
       IN /\ streams' = [streams EXCEPT ![k] = Cleared(t)]
          /\ flow' = Reclaimed(s)
          /\ ForgetInFlight(k)
          /\ todo' = todo \ {k}
          /\ work' = ReclaimStep(s) \o AfterStep(k) \o work
  /\ UNCHANGED <<queues, slab, settings, next_stream_id, peer, chunk, task,
                 conn, history>>

AbortDone ==
  /\ Doing("abort") /\ todo = {}
  /\ work' = Tail(work)
  /\ UNCHANGED <<streams, slab, queues, flow, settings, next_stream_id, peer,
                 codec, task, conn, todo, history>>

\* Send::clear_queues, one stream of it.
ClearQueue ==
  /\ Doing("clear")
  /\ LET all == pending_capacity \o pending_send \o pending_open
     IN IF all = <<>>
        THEN work' = Tail(work) /\ UNCHANGED queues
        ELSE /\ work' = AfterStep(Head(all)) \o work
             /\ IF pending_capacity # <<>>
                THEN /\ pending_capacity' = Tail(pending_capacity)
                     /\ UNCHANGED <<pending_send, pending_open>>
                ELSE IF pending_send # <<>>
                THEN /\ pending_send' = Tail(pending_send)
                     /\ UNCHANGED <<pending_capacity, pending_open>>
                ELSE /\ pending_open' = Tail(pending_open)
                     /\ UNCHANGED <<pending_capacity, pending_send>>
  /\ UNCHANGED <<streams, slab, flow, settings, next_stream_id, peer, codec,
                 task, conn, todo, history>>

-----------------------------------------------------------------------------
(* Frames of the peer, read by a poll of the connection.                    *)

Idling  == conn \in {"parked", "blocked", "failed", "closed"} /\ work = <<>>
Reading == conn = "recv" /\ work = <<>>

\* The connection is polled; without a wake it is the transport that did it.
BeginPoll ==
  /\ conn \in {"parked", "blocked"} /\ work = <<>>
  /\ conn' = "recv"
  /\ UNCHANGED <<streams, slab, queues, flow, settings, next_stream_id, peer,
                 codec, task, work, todo, history>>

\* Recv::clear_expired_reset_streams, one stream of it.
ExpireReset(k) ==
  /\ Reading /\ k \in store /\ streams[k].is_pending_reset
  /\ streams' = [streams EXCEPT ![k].is_pending_reset = FALSE]
  /\ work' = AfterStep(k)
  /\ UNCHANGED <<slab, queues, flow, settings, next_stream_id, peer, codec,
                 task, conn, todo, history>>

\* A request arrives on a server, and is accepted.
RecvRequest(k, eos) ==
  /\ Reading /\ k \in Remote /\ wire[k] = "idle" /\ k \notin store
  /\ \A j \in Remote : j < k => wire[j] # "idle"
  /\ streams' = [streams EXCEPT
                   ![k] = [NewStream(init_window_sz) EXCEPT
                             !.state = RecvOpen(Idle, eos, FALSE)]]
  /\ store' = store \cup {k} /\ ids' = ids \cup {k}
  /\ wire' = [wire EXCEPT ![k] = "asked"]
  /\ UNCHANGED <<num_send_streams, queues, flow, settings, next_stream_id,
                 peer, codec, task, conn, work, todo, ended>>

\* The peer ends its half: a response without a body, or the end of one.
RecvEnd(k) ==
  /\ Reading /\ k \in ids /\ wire[k] # "idle"
  /\ LET s == streams[k].state
     IN \/ /\ IsRecvHeaders(s) /\ IsLocalInit(k) /\ ~IsServer
           /\ streams' = [streams EXCEPT ![k].state = RecvOpen(s, TRUE, FALSE)]
        \/ /\ IsRecvStreaming(s)
           /\ streams' = [streams EXCEPT ![k].state = RecvClose(s)]
  /\ ended' = ended \cup {k}
  /\ work' = AfterStep(k)
  /\ UNCHANGED <<slab, queues, flow, settings, next_stream_id, peer, codec,
                 task, conn, todo, wire>>

(* Send::send_reset of stream k, whose code afterwards does rest: the       *)
(* frames that wait are replaced by a RST_STREAM, the capacity goes back.   *)
SendReset(k, s, rest) ==
  LET t == [Cleared(s) EXCEPT !.state = SetReset,
                              !.pending_send = <<ResetFrame>>]
  IN \/ /\ IsReset(s.state)
        /\ streams' = [streams EXCEPT ![k] = s]
        /\ work' = rest
        /\ UNCHANGED <<flow, in_flight, pending_send, task>>
     \/ /\ ~IsReset(s.state) /\ IsClosed(s.state) /\ s.pending_send = <<>>
        /\ streams' = [streams EXCEPT ![k] = [s EXCEPT !.state = SetReset]]
        /\ work' = rest
        /\ UNCHANGED <<flow, in_flight, pending_send, task>>
     \/ /\ ~IsReset(s.state) /\ ~(IsClosed(s.state) /\ s.pending_send = <<>>)
        /\ streams' = [streams EXCEPT ![k] = t]
        /\ ForgetInFlight(k)
        /\ ScheduleSend(t, k)
        /\ flow' = Reclaimed(s)
        /\ work' = ReclaimStep(s) \o rest

(* Send::recv_stream_window_update; beyond MAX_WINDOW_SIZE the stream is    *)
(* reset, and onError is what the caller does about it.                     *)
WindowUpdate(k, n, rest, onError) ==
  LET s == streams[k]
      sent == IsSendClosed(s.state) /\ s.buffered_send_data = 0
      fits == s.send_flow.window_size + n <= MaxWindow
  IN \/ /\ sent
        /\ work' = rest
        /\ UNCHANGED <<streams, flow, in_flight, pending_send,
                       pending_capacity, task>>
     \/ /\ ~sent /\ fits
        /\ TryAssign([streams EXCEPT ![k].send_flow = IncWindow(@, n)],
                     pending_capacity, k)
        /\ work' = rest
        /\ UNCHANGED <<in_flight, task>>
     \/ /\ ~sent /\ ~fits
        /\ SendReset(k, s, onError)
        /\ UNCHANGED pending_capacity

RecvStreamWindow(k, n) ==
  /\ Reading /\ k \in ids /\ wire[k] # "idle"
  /\ Resets \/ streams[k].send_flow.window_size + n <= MaxWindow
  /\ WindowUpdate(k, n, <<>>, <<>>)
  /\ UNCHANGED <<pending_open, slab, settings, next_stream_id, peer, chunk,
                 conn, todo, history>>

RecvConnWindow(n) ==
  /\ Reading /\ flow.window_size + n <= MaxWindow
  /\ flow' = AssignCapacity(IncWindow(flow, n), n)
  /\ work' = AssignStep
  /\ UNCHANGED <<streams, slab, queues, settings, next_stream_id, peer, codec,
                 task, conn, todo, history>>

\* RST_STREAM: Recv::recv_reset, then Send::handle_error.
RecvRst(k) ==
  /\ Reading /\ Resets /\ k \in ids /\ wire[k] # "idle"
  /\ LET s == streams[k]
         t == [NotifySend(s) EXCEPT
                 !.state = RecvReset(@, k \in Members(pending_send))]
     IN /\ streams' = [streams EXCEPT ![k] = Cleared(t)]
        /\ flow' = Reclaimed(s)
        /\ ForgetInFlight(k)
        /\ wire' = [wire EXCEPT ![k] = "reset"]
        /\ work' = ReclaimStep(s) \o AfterStep(k)
  /\ UNCHANGED <<queues, slab, settings, next_stream_id, peer, chunk, task,
                 conn, todo, ended>>

(* A new SETTINGS_INITIAL_WINDOW_SIZE.  Send::apply_remote_settings lowers  *)
(* every window in one go, and takes back what a stream may no longer use.  *)
KeepsExcess(s, d) == [s EXCEPT !.send_flow = DecSendWindow(@, d)]
Shrunk(s, d) ==
  LET f == DecSendWindow(s.send_flow, d)
  IN [s EXCEPT !.send_flow =
        IF AsSize(f.available) > AsSize(f.window_size)
        THEN ClaimCapacity(f, AsSize(f.available) - AsSize(f.window_size)) ELSE f]

SumOver(f, S) == MapThenSumSet(LAMBDA k : f[k], S)

\* i32::MIN; the model stops one lowering below it.
MinWindow == -(MaxWindow + 1)

LowerWindows(v) ==
  /\ Reading /\ Settings /\ v < init_window_sz
  /\ \A k \in ids : streams[k].send_flow.window_size >= MinWindow
  /\ LET d    == init_window_sz - v
         next == [k \in StreamId |-> IF k \in ids THEN Shrunk(streams[k], d)
                                                  ELSE streams[k]]
         back == [k \in StreamId |-> streams[k].send_flow.available
                                       - next[k].send_flow.available]
     IN /\ streams' = next
        /\ flow' = AssignCapacity(flow, SumOver(back, ids))
  /\ init_window_sz' = v
  /\ work' = AssignStep
  /\ UNCHANGED <<scope, slab, queues, max_send_streams, next_stream_id, peer, codec,
                 task, conn, todo, history>>

\* It raises them one by one; an overflow ends the connection.
RaiseWindows(v) ==
  /\ Reading /\ Settings /\ v > init_window_sz
  /\ \/ Resets /\ Failures
     \/ \A k \in ids :
          streams[k].send_flow.window_size + v - init_window_sz <= MaxWindow
  /\ init_window_sz' = v
  /\ todo' = ids
  /\ work' = GrowStep(v - init_window_sz)
  /\ UNCHANGED <<scope, streams, slab, queues, flow, max_send_streams,
                 next_stream_id, peer, codec, task, conn, history>>

FailStep == <<Step("fail", 0, 0, ResetFrame)>>

Grow ==
  /\ Doing("grow")
  /\ \/ /\ todo = {}
        /\ work' = Tail(work)
        /\ UNCHANGED <<streams, flow, in_flight, pending_send,
                       pending_capacity, task, todo>>
     \/ \E k \in todo :
          /\ WindowUpdate(k, Head(work).arg, work, FailStep)
          /\ todo' = todo \ {k}
  /\ UNCHANGED <<pending_open, slab, settings, next_stream_id, peer, chunk,
                 conn, history>>

RecvLimit(n) ==
  /\ Reading /\ Settings /\ n # max_send_streams
  /\ max_send_streams' = n
  /\ UNCHANGED <<scope, streams, slab, queues, flow, init_window_sz,
                 next_stream_id, peer, codec, task, conn, work, todo, history>>

\* GOAWAY: the streams above last are gone.
RecvGoAway(last) ==
  /\ Reading /\ last <= max_stream_id
  /\ max_stream_id' = last /\ conn_error' = TRUE
  /\ todo' = {k \in ids : k > last}
  /\ work' = AbortStep(1)
  /\ UNCHANGED <<streams, slab, queues, flow, settings, next_stream_id, codec,
                 task, conn, history>>

\* A connection error: every stream is closed, GOAWAY is queued.
Fail ==
  /\ Doing("fail")
  /\ todo' = ids /\ work' = AbortStep(0)
  /\ conn_error' = TRUE /\ conn' = "failed"
  /\ UNCHANGED <<streams, slab, queues, flow, settings, next_stream_id,
                 max_stream_id, codec, task, history>>

RecvInvalid ==
  /\ Reading /\ Failures
  /\ work' = FailStep
  /\ UNCHANGED <<streams, slab, queues, flow, settings, next_stream_id, peer,
                 codec, task, conn, todo, history>>

\* Inner::recv_eof: the transport is gone, or the connection is dropped.
ConnectionEnds ==
  /\ Failures /\ work = <<>> /\ conn \in {"recv", "failed"}
  /\ todo' = ids /\ work' = AbortStep(0) \o ClearStep
  /\ conn_error' = TRUE /\ conn' = "closed"
  /\ UNCHANGED <<streams, slab, queues, flow, settings, next_stream_id,
                 max_stream_id, codec, task, history>>

-----------------------------------------------------------------------------
(* Prioritize::poll_complete.                                               *)

Sending == conn = "send" /\ work = <<>>

Blocked ==
  /\ \/ conn \in {"recv", "write"} /\ work = <<>>
     \/ Sending /\ pending_send = <<>>
  /\ conn' = "blocked"
  /\ UNCHANGED <<streams, slab, queues, flow, settings, next_stream_id, peer,
                 codec, task, work, todo, history>>

(* The codec took the frame: reclaim_frame puts what is left of it in front *)
(* of the frames of its stream, unless they were dropped meanwhile.         *)
Reclaim(s) ==
  [s EXCEPT !.pending_send = <<DataFrame(chunk.size, chunk.eos)>> \o @]

Written ==
  /\ conn \in {"recv", "write"} /\ work = <<>>
  /\ conn' = "send"
  /\ in_flight' = 0 /\ chunk' = [size |-> 0, eos |-> FALSE]
  /\ IF in_flight \in StreamId /\ chunk.size > 0
     THEN /\ streams' = [streams EXCEPT ![in_flight] = Reclaim(@)]
          /\ pending_send' = IF streams[in_flight].send_flow.available > 0
                             THEN Push(pending_send, in_flight) ELSE pending_send
     ELSE UNCHANGED <<streams, pending_send>>
  /\ UNCHANGED <<slab, pending_capacity, pending_open, flow, settings,
                 next_stream_id, peer, task, work, todo, history>>

\* schedule_pending_open, one stream of it.
OpenPending ==
  /\ Sending /\ CanIncNumSendStreams /\ pending_open # <<>>
  /\ LET k == Head(pending_open)
     IN /\ streams' = [streams EXCEPT
                         ![k] = [NotifySend(@) EXCEPT !.is_counted = TRUE]]
        /\ pending_send' = Push(pending_send, k)
  /\ pending_open' = Tail(pending_open)
  /\ num_send_streams' = num_send_streams + 1
  /\ UNCHANGED <<store, ids, pending_capacity, flow, settings, next_stream_id,
                 peer, codec, task, conn, work, todo, history>>

\* What the peer makes of a frame; "bad" is one it may not get.
Delivered(w, f) ==
  CASE f.type = "rst"     -> IF w = "idle" THEN "reset early" ELSE "reset"
    [] f.type = "push"    -> w
    [] w \in {"ended", "reset", "bad"} \/ (w = "idle" /\ IsServer) -> "bad"
    [] f.type = "data"    -> IF w # "open" THEN "bad"
                             ELSE IF f.eos THEN "ended" ELSE "open"
    [] OTHER              -> IF f.eos THEN "ended" ELSE "open"

\* pop_frame takes the first stream whose turn it is, with its first frame.
Turn(k) ==
  /\ Sending /\ ~(CanIncNumSendStreams /\ pending_open # <<>>)
  /\ pending_send # <<>> /\ k = Head(pending_send)
First(k) == Head(streams[k].pending_send)

\* It ends with the stream in the queue again when there is more to send.
Requeued(s, k, queue) ==
  IF s.pending_send # <<>> \/ IsScheduledReset(s.state) THEN Push(queue, k) ELSE queue

SizeOf(k) ==
  Least(Least(First(k).size, MaxFrameSize), AsSize(streams[k].send_flow.available))

\* DATA without capacity waits until the stream gets some.
Stalled(k) ==
  \/ First(k).size > 0 /\ streams[k].send_flow.available = 0
  \/ SizeOf(k) > AsSize(streams[k].send_flow.window_size)

PopStalled(k) ==
  /\ Turn(k) /\ streams[k].pending_send # <<>> /\ First(k).type = "data"
  /\ Stalled(k)
  /\ pending_send' = Tail(pending_send)
  /\ UNCHANGED <<streams, slab, pending_capacity, pending_open, flow, settings,
                 next_stream_id, peer, codec, task, conn, work, todo, history>>

PopData(k) ==
  /\ Turn(k) /\ streams[k].pending_send # <<>> /\ First(k).type = "data"
  /\ ~Stalled(k)
  /\ LET f    == First(k)
         n    == SizeOf(k)
         s    == [SendDataOf(streams[k], n) EXCEPT !.pending_send = Tail(@)]
     IN /\ streams' = [streams EXCEPT ![k] = s]
        /\ flow' = SendData(AssignCapacity(flow, n), n)
        /\ in_flight' = k
        /\ chunk' = [size |-> f.size - n, eos |-> f.eos]
        /\ pending_send' = Requeued(s, k, Tail(pending_send))
        /\ wire' = [wire EXCEPT
                      ![k] = Delivered(@, [f EXCEPT !.eos = @ /\ f.size = n])]
  /\ conn' = "write" /\ work' = AfterStep(k)
  /\ UNCHANGED <<slab, pending_capacity, pending_open, settings,
                 next_stream_id, peer, task, todo, ended>>

\* HEADERS and RST_STREAM.
PopOther(k) ==
  /\ Turn(k) /\ streams[k].pending_send # <<>>
  /\ First(k).type \in {"headers", "rst"}
  /\ LET s == [streams[k] EXCEPT !.pending_send = Tail(@)]
     IN /\ streams' = [streams EXCEPT ![k] = s]
        /\ pending_send' = Requeued(s, k, Tail(pending_send))
        /\ wire' = [wire EXCEPT ![k] = Delivered(@, First(k))]
  /\ conn' = "write" /\ work' = AfterStep(k)
  /\ UNCHANGED <<slab, pending_capacity, pending_open, flow, settings,
                 next_stream_id, peer, codec, task, todo, ended>>

(* PUSH_PROMISE: the promised stream, which the identifier map must know,   *)
(* may send from now on.                                                    *)
PopPush(k) ==
  /\ Turn(k) /\ streams[k].pending_send # <<>> /\ First(k).type = "push"
  /\ First(k).child \in ids
  /\ LET c      == First(k).child
         starts == streams[c].pending_send # <<>>
         now    == starts /\ CanIncNumSendStreams
         s      == [streams[k] EXCEPT !.pending_send = Tail(@)]
         queue  == IF now THEN Push(Tail(pending_send), c) ELSE Tail(pending_send)
     IN /\ streams' = [streams EXCEPT
                         ![k] = s,
                         ![c].is_pending_push = FALSE, ![c].is_counted = @ \/ now]
        /\ num_send_streams' = num_send_streams + (IF now THEN 1 ELSE 0)
        /\ pending_open' = IF starts /\ ~now THEN Push(pending_open, c)
                                             ELSE pending_open
        /\ pending_send' = Requeued(s, k, queue)
        /\ wire' = [wire EXCEPT ![c] = "asked"]
  /\ conn' = "write" /\ work' = AfterStep(k)
  /\ UNCHANGED <<store, ids, pending_capacity, flow, settings, next_stream_id,
                 peer, codec, task, todo, ended>>

\* Nothing waits: a cancelled stream is reset, any other was cleared.
PopScheduledReset(k) ==
  /\ Turn(k) /\ streams[k].pending_send = <<>>
  /\ IsScheduledReset(streams[k].state)
  /\ streams' = [streams EXCEPT ![k].state = SetReset]
  /\ pending_send' = Tail(pending_send)
  /\ wire' = [wire EXCEPT ![k] = Delivered(@, ResetFrame)]
  /\ conn' = "write" /\ work' = AfterStep(k)
  /\ UNCHANGED <<slab, pending_capacity, pending_open, flow, settings,
                 next_stream_id, peer, codec, task, todo, ended>>

PopDangling(k) ==
  /\ Turn(k) /\ streams[k].pending_send = <<>>
  /\ ~IsScheduledReset(streams[k].state)
  /\ pending_send' = Tail(pending_send)
  /\ work' = AfterStep(k)
  /\ UNCHANGED <<streams, slab, pending_capacity, pending_open, flow, settings,
                 next_stream_id, peer, codec, task, conn, todo, history>>

\* Everything is written and flushed.
Park ==
  /\ Sending /\ ~(CanIncNumSendStreams /\ pending_open # <<>>)
  /\ pending_send = <<>>
  /\ conn' = "parked" /\ task' = TRUE
  /\ UNCHANGED <<streams, slab, queues, flow, settings, next_stream_id, peer,
                 codec, work, todo, history>>

-----------------------------------------------------------------------------
(* The application, between two polls.                                      *)

\* The task that uses the SendStream of k is running, so it does not wait.
Runs(s) == [s EXCEPT !.waiting = @ \ {"producer"}]
Held(k) == Idling /\ k \in store /\ streams[k].ref_count > 0

SendRequest(k, eos) ==
  /\ Idling /\ ~IsServer /\ ~conn_error
  /\ k = next_stream_id /\ k <= scope.last
  /\ LET now == CanIncNumSendStreams
         s   == [NewStream(init_window_sz) EXCEPT
                   !.state = SendOpen(Idle, eos), !.is_counted = now,
                   !.pending_send = <<HeadersFrame(eos)>>]
     IN /\ streams' = [streams EXCEPT ![k] = s]
        /\ num_send_streams' = num_send_streams + (IF now THEN 1 ELSE 0)
        /\ pending_open' = IF now THEN pending_open ELSE Push(pending_open, k)
        /\ pending_send' = IF now THEN Push(pending_send, k) ELSE pending_send
        /\ task' = (task /\ ~now)
  /\ store' = store \cup {k} /\ ids' = ids \cup {k}
  /\ next_stream_id' = k + 1
  /\ UNCHANGED <<pending_capacity, flow, settings, peer, codec, conn, work,
                 todo, history>>

\* SendResponse::send_response, for a request or on a pushed stream.
SendResponse(k, eos) ==
  /\ Held(k) /\ IsServer /\ CanSendOpen(streams[k].state)
  /\ LET opens == IsLocalInit(k) /\ ~streams[k].is_pending_push
         now   == opens /\ CanIncNumSendStreams
         later == opens /\ ~CanIncNumSendStreams
         s     == [Runs(streams[k]) EXCEPT
                     !.state = SendOpen(@, eos), !.is_counted = @ \/ now,
                     !.pending_send = Append(@, HeadersFrame(eos))]
         ready == ~later /\ IsSendReady(s, k)
     IN /\ streams' = [streams EXCEPT ![k] = s]
        /\ num_send_streams' = num_send_streams + (IF now THEN 1 ELSE 0)
        /\ pending_open' = IF later THEN Push(pending_open, k) ELSE pending_open
        /\ pending_send' = IF ready THEN Push(pending_send, k) ELSE pending_send
        /\ task' = (task /\ ~ready)
  /\ work' = AfterStep(k)
  /\ UNCHANGED <<store, ids, pending_capacity, flow, settings, next_stream_id,
                 peer, codec, conn, todo, history>>

\* send_push_promise: stream c is promised on stream k.
PushRequest(k, c) ==
  /\ Held(k) /\ IsServer /\ ~IsLocalInit(k)
  /\ c = next_stream_id /\ c <= scope.last
  /\ LET s == [Runs(streams[k]) EXCEPT !.pending_send = Append(@, PushFrame(c))]
     IN /\ streams' = [streams EXCEPT
                         ![k] = s,
                         ![c] = [NewStream(init_window_sz) EXCEPT
                                   !.state = ReservedLocal,
                                   !.is_pending_push = TRUE]]
        /\ ScheduleSend(s, k)
  /\ store' = store \cup {c} /\ ids' = ids \cup {c}
  /\ next_stream_id' = c + 1
  /\ UNCHANGED <<num_send_streams, pending_capacity, pending_open, flow,
                 settings, peer, codec, conn, work, todo, history>>

\* SendStream::send_data, up to the end of the stream.
Requests(s) ==
  IF s.requested_send_capacity < s.buffered_send_data
  THEN [s EXCEPT !.requested_send_capacity = s.buffered_send_data] ELSE s

SendDataFrame(k, sz, eos) ==
  /\ Held(k) /\ IsSendStreaming(streams[k].state)
  /\ Len(streams[k].pending_send) < scope.frames
  /\ LET s   == [Runs(streams[k]) EXCEPT !.buffered_send_data = @ + sz]
         str == [streams EXCEPT ![k] = Requests(s)]
     IN IF Requests(s) # s
        THEN TryAssign(str, pending_capacity, k)
        ELSE streams' = str /\ UNCHANGED <<flow, pending_send, pending_capacity>>
  /\ work' = (IF eos THEN CloseStep(k) ELSE <<>>)
               \o QueueStep(k, DataFrame(sz, eos)) \o AfterStep(k)
  /\ UNCHANGED <<pending_open, slab, settings, next_stream_id, peer, codec,
                 task, conn, todo, history>>

SendTrailers(k) ==
  /\ Held(k) /\ Trailers /\ IsSendStreaming(streams[k].state)
  /\ LET s == [Runs(streams[k]) EXCEPT
                 !.state = SendClose(@),
                 !.pending_send = Append(@, HeadersFrame(TRUE))]
     IN /\ streams' = [streams EXCEPT ![k] = s]
        /\ ScheduleSend(s, k)
  /\ work' = ReserveStep(k, 0) \o AfterStep(k)
  /\ UNCHANGED <<pending_capacity, pending_open, slab, flow, settings,
                 next_stream_id, peer, codec, conn, todo, history>>

ReserveCapacity(k, n) ==
  /\ Held(k) /\ ~CanSendOpen(streams[k].state)
  /\ n + streams[k].buffered_send_data # streams[k].requested_send_capacity
  /\ streams' = [streams EXCEPT ![k] = Runs(@)]
  /\ work' = ReserveStep(k, n)
  /\ UNCHANGED <<slab, queues, flow, settings, next_stream_id, peer, codec,
                 task, conn, todo, history>>

PollCapacity(k) ==
  /\ Held(k) /\ Waits /\ IsSendStreaming(streams[k].state)
  /\ streams' = [streams EXCEPT
       ![k] = IF @.send_capacity_inc
              THEN [Runs(@) EXCEPT !.send_capacity_inc = FALSE]
              ELSE WaitSend(@, "producer")]
  /\ UNCHANGED <<slab, queues, flow, settings, next_stream_id, peer, codec,
                 task, conn, work, todo, history>>

\* SendRequest::poll_ready, while the last request is not open yet.
PollReady(k) ==
  /\ Held(k) /\ Waits /\ ~conn_error /\ k \in Members(pending_open)
  /\ streams' = [streams EXCEPT ![k] = WaitSend(@, "opener")]
  /\ UNCHANGED <<slab, queues, flow, settings, next_stream_id, peer, codec,
                 task, conn, work, todo, history>>

\* SendStream::send_reset
UserReset(k) ==
  /\ Held(k) /\ Resets
  /\ SendReset(k, Runs(streams[k]), ExpireStep(k))
  /\ UNCHANGED <<pending_capacity, pending_open, slab, settings,
                 next_stream_id, peer, chunk, conn, todo, history>>

(* The last handle is dropped.  A stream that is not closed is cancelled:   *)
(* schedule_implicit_reset takes back the capacity that is requested beyond *)
(* what is buffered, whether or not it was assigned.                        *)
Reserved(s) == s.requested_send_capacity - s.buffered_send_data
DropHandle(k) ==
  /\ Held(k) /\ Drops
  /\ LET s    == [Runs(streams[k]) EXCEPT !.ref_count = 0]
         back == IF IsClosed(s.state) THEN 0 ELSE Reserved(s)
         t    == IF IsClosed(s.state) THEN s
                 ELSE [s EXCEPT !.state = SetScheduledReset,
                                !.send_flow = ClaimCapacity(@, back)]
     IN /\ streams' = [streams EXCEPT ![k] = t]
        /\ flow' = AssignCapacity(flow, back)
        /\ task' = (task /\ ~FullyClosed(s))
        /\ work' = IF IsClosed(s.state) THEN AfterStep(k)
                   ELSE (IF back > 0 THEN AssignStep ELSE <<>>)
                          \o ScheduleStep(k) \o ExpireStep(k)
  /\ UNCHANGED <<queues, slab, settings, next_stream_id, peer, codec, conn,
                 todo, history>>

-----------------------------------------------------------------------------
Call == \/ Assign \/ After \/ ReserveNow \/ Close \/ Queue \/ Schedule
        \/ AbortOne \/ AbortDone \/ ClearQueue \/ Grow \/ Fail

Receive ==
  \/ \E k \in StreamId :
       \/ \E eos \in BOOLEAN : RecvRequest(k, eos)
       \/ RecvEnd(k) \/ RecvRst(k) \/ ExpireReset(k)
       \/ \E n \in Increments : RecvStreamWindow(k, n)
  \/ \E n \in Increments : RecvConnWindow(n)
  \/ \E v \in InitWindows : LowerWindows(v) \/ RaiseWindows(v)
  \/ \E n \in SendLimits : RecvLimit(n)
  \/ \E last \in scope.goaways : RecvGoAway(last)
  \/ RecvInvalid \/ ConnectionEnds

Pop(k) ==
  \/ PopStalled(k) \/ PopData(k) \/ PopOther(k) \/ PopPush(k)
  \/ PopScheduledReset(k) \/ PopDangling(k)

Flush ==
  Blocked \/ Written \/ OpenPending \/ Park \/ \E k \in StreamId : Pop(k)

Use ==
  \E k \in StreamId :
    \/ \E eos \in BOOLEAN : SendRequest(k, eos) \/ SendResponse(k, eos)
    \/ \E c \in StreamId : PushRequest(k, c)
    \/ \E sz \in scope.sizes, eos \in BOOLEAN : SendDataFrame(k, sz, eos)
    \/ SendTrailers(k)
    \/ \E n \in scope.reservations : ReserveCapacity(k, n)
    \/ PollCapacity(k) \/ PollReady(k) \/ UserReset(k) \/ DropHandle(k)

Next == Call \/ BeginPoll \/ Receive \/ Flush \/ Use

Spec == Init /\ [][Next]_vars

(* Fairness.  The connection is polled again when it was woken, when the     *)
(* transport can be written to, and when the peer has sent a WINDOW_UPDATE   *)
(* for a window that is used up; the codec has room again and again.         *)
Exhausted == flow.window_size = 0
               \/ \E k \in ids : streams[k].send_flow.window_size = 0
FairSpec ==
  /\ Spec
  /\ WF_vars(Call)
  /\ WF_vars(BeginPoll /\ (conn = "blocked" \/ ~task \/ Exhausted))
  /\ SF_vars(Written)
  /\ SF_vars(OpenPending) /\ SF_vars(\E k \in StreamId : Pop(k)) /\ SF_vars(Park)
  /\ SF_vars(\E n \in Increments : flow.window_size = 0 /\ RecvConnWindow(n))
  /\ \A k \in StreamId :
       SF_vars(\E n \in Increments :
                 streams[k].send_flow.window_size = 0 /\ RecvStreamWindow(k, n))

-----------------------------------------------------------------------------
(* Properties.                                                              *)

\* Every variable stays in its range.
TypeOK ==
  /\ streams \in [StreamId -> Stream]
  /\ store \subseteq StreamId /\ ids \subseteq store
  /\ Members(pending_send) \cup Members(pending_capacity)
       \cup Members(pending_open) \subseteq store
  /\ flow \in FlowControl /\ init_window_sz \in InitWindows
  /\ num_send_streams \in Nat /\ max_send_streams \in SendLimits
  /\ next_stream_id \in 1 .. MaxId + 1
  /\ in_flight \in 0 .. Dropped /\ chunk \in [size : Nat, eos : BOOLEAN]
  /\ task \in BOOLEAN /\ conn_error \in BOOLEAN
  /\ todo \subseteq StreamId

(* A handle that is dropped gives back what its stream requested and has     *)
(* not buffered.  That was assigned when every reservation is for data that  *)
(* is buffered.                                                              *)
DropsUnreserved == Drops => scope.reservations \subseteq {0}

(* The capacity a connection has not assigned and the capacity its streams  *)
(* hold add up to the window the peer granted: every path that claims,      *)
(* assigns, spends or returns capacity does both halves of it.              *)
CapacityAddsUp ==
  LET held == [k \in StreamId |-> streams[k].send_flow.available]
  IN flow.available + SumOver(held, store) = flow.window_size

(* A stream never holds more than it asked for or than its own window, and  *)
(* it has asked for all that is buffered: the u32 subtractions of           *)
(* try_assign_capacity and Stream::send_data do not wrap around.            *)
AssignedAsRequested ==
  \A k \in store :
    LET s == streams[k]
    IN /\ s.send_flow.available <= s.requested_send_capacity
       /\ s.send_flow.available <= AsSize(s.send_flow.window_size)
       /\ s.buffered_send_data <= s.requested_send_capacity

(* buffered_send_data is the size of the DATA that waits, the rest of the   *)
(* frame in the codec included, through partial writes and dropped queues.  *)
Total(q) ==
  LET size[n \in 0 .. Len(q)] == IF n = 0 THEN 0 ELSE size[n - 1] + q[n].size
  IN size[Len(q)]
Queueing(w, k) ==
  LET mine == {i \in DOMAIN w : w[i].do = "queue" /\ w[i].k = k}
  IN IF mine = {} THEN 0 ELSE w[CHOOSE i \in mine : TRUE].frame.size
BufferedIsQueued ==
  \A k \in StreamId :
    streams[k].buffered_send_data
      = Total(streams[k].pending_send) + Queueing(work, k)
          + (IF in_flight = k THEN chunk.size ELSE 0)

(* Capacity never lies idle: when the connection has some, no stream that   *)
(* could use it waits, and one that waits is in pending_capacity.           *)
Starving(k) ==
  LET s == streams[k]
  IN /\ k \in ids /\ (IsSendStreaming(s.state) \/ s.buffered_send_data > 0)
     /\ s.send_flow.available < Least(s.requested_send_capacity,
                                    AsSize(s.send_flow.window_size))
NoIdleCapacity ==
  work = <<>> =>
    \A k \in StreamId :
      Starving(k) => k \in Members(pending_capacity) /\ flow.available <= 0

(* A stream whose first frame may be written is in pending_send: no path    *)
(* leaves it out until the next window update.                              *)
Sendable(k) ==
  /\ k \in store /\ in_flight # k
  /\ IsSendReady(streams[k], k)
  /\ streams[k].pending_send # <<>>
  /\ First(k).size > 0 => streams[k].send_flow.available > 0
SendableIsScheduled ==
  work = <<>> => \A k \in StreamId : Sendable(k) => k \in Members(pending_send)

(* The connection does not sleep on something to send: when it is parked    *)
(* and was not woken, no stream whose turn comes could be served, and none  *)
(* waits for a place among the concurrent streams that is free.             *)
Ready(k) ==
  /\ k \in Members(pending_send)
  /\ \/ Sendable(k)
     \/ streams[k].pending_send = <<>> /\ IsScheduledReset(streams[k].state)
NoLostWake ==
  conn = "parked" /\ work = <<>> /\ task =>
    /\ \A k \in StreamId : ~Ready(k)
    /\ ~(pending_open # <<>> /\ CanIncNumSendStreams)

(* Whenever the capacity of a stream grows, its producer is told.           *)
GrowthIsAnnounced ==
  [][\A k \in store :
       Capacity(streams'[k]) > Capacity(streams[k])
         => streams'[k].send_capacity_inc]_vars

(* A producer that sleeps in poll_capacity has no news to collect, as long  *)
(* as no stream waits to be opened and send_task is the producer's alone.   *)
ProducerNotStranded ==
  (\A n \in SendLimits : n >= scope.last) =>
  \A k \in store :
    "producer" \in streams[k].waiting /\ work = <<>>
      => ~streams[k].send_capacity_inc /\ ~IsReset(streams[k].state)

(* The frames of a stream reach the peer in an order it accepts: DATA only  *)
(* after HEADERS, and nothing after END_STREAM or RST_STREAM.               *)
FramesInOrder == \A k \in StreamId : wire[k] # "bad"

(* A peer that does not change its mind never sees more streams of this     *)
(* side than it allows, however early num_send_streams lets go of one.      *)
OpenAtPeer ==
  {k \in StreamId \ Remote :
     wire[k] = "open" \/ (wire[k] = "ended" /\ k \notin ended /\ ~IsServer)}
LimitRespected == ~Settings => Cardinality(OpenAtPeer) <= max_send_streams

(* A stream with nothing left to do has left the slab.                      *)
ReleasedIsRemoved ==
  work = <<>> => \A k \in store : ~IsReleased(streams[k], k)

(* A loop over the store never loses another stream than the one it visits. *)
AssignUnlinksNothing ==
  [][Doing("after") /\ Len(work) > 1 /\ work[2].do = "assign" => ids' = ids]_vars

(* The connection covers what its streams were assigned.                    *)
ConnectionCovers ==
  \A k \in StreamId :
    Turn(k) /\ streams[k].pending_send # <<>>
      /\ First(k).type = "data" /\ ~Stalled(k)
    => SizeOf(k) <= AsSize(flow.window_size)

(* Buffered data is flushed once the peer makes room for it.                *)
Over == conn \in {"failed", "closed"}
BufferedIsFlushed ==
  \A k \in StreamId :
    streams[k].buffered_send_data > 0
      ~> streams[k].buffered_send_data = 0 \/ Over
=============================================================================
