---------------------------- MODULE H2RecvProofs ----------------------------
(***************************************************************************)
(* Theorems about H2Recv, for every number of slots, streams and handles   *)
(* and every window size: types, the accounting of the receive windows of  *)
(* the connection and of each stream, the counters, what is left in the    *)
(* slab and what a sleeping connection has left behind, the assertions of  *)
(* the code, and what one step may do to a stream.                         *)
(***************************************************************************)
EXTENDS H2Recv, H2CommonProofs

-----------------------------------------------------------------------------
(* What the operators on one stream return.                                 *)

\* FlowControl: every operation on a window returns a window.
LEMMA FlowTypes ==
  /\ \A n \in Int : NewFlow(n) \in FlowControl
  /\ \A f \in FlowControl, n \in Int :
       /\ AssignCapacity(f, n) \in FlowControl
       /\ IncWindow(f, n) \in FlowControl
       /\ DecRecvWindow(f, n) \in FlowControl
       /\ SendData(f, n) \in FlowControl
  /\ \A f \in FlowControl : UnclaimedCapacity(f) \in Nat
<1>1. \A f \in FlowControl : UnclaimedCapacity(f) \in Nat
  BY DEF FlowControl, UnclaimedCapacity
<1> QED
  BY <1>1 DEF FlowControl, NewFlow, AssignCapacity, IncWindow, DecRecvWindow,
              SendData

\* FlowControl: how each operation moves the capacity this side knows about.
LEMMA FlowCapacity ==
  ASSUME NEW f \in FlowControl, NEW n \in Int
  PROVE  /\ AssignCapacity(f, n).available = f.available + n
         /\ IncWindow(f, n).available = f.available
         /\ DecRecvWindow(f, n).available = f.available - n
         /\ SendData(f, n).available = f.available - n
         /\ AssignCapacity(f, n).window_size = f.window_size
         /\ IncWindow(f, n).window_size = f.window_size + n
         /\ SendData(f, n).window_size = f.window_size - n
BY DEF FlowControl, AssignCapacity, IncWindow, DecRecvWindow, SendData

\* Stream::new
LEMMA NewStreamType ==
  ASSUME NEW i \in Nat, NEW n \in Int
  PROVE  NewStream(i, n) \in Stream
BY FlowTypes, StateValues DEF NewStream, Stream

(* A handler closes a stream, or leaves it as live as it was with the same   *)
(* sum of the capacity this side knows about and the data in flight.         *)
Total(s) == s.recv_flow.available + s.in_flight_recv_data

Closes(s, t) == t \in Stream /\ t.id = s.id /\ IsClosed(t.state)

Keeps(s, t) ==
  /\ t \in Stream /\ t.id = s.id
  /\ IsClosed(t.state) \/ (~IsClosed(s.state) /\ Total(t) = Total(s))

\* Send::send_reset, Send::schedule_implicit_reset and Send::handle_error.
LEMMA ClosingOps ==
  ASSUME NEW s \in Stream
  PROVE  /\ Closes(s, SendReset(s))
         /\ Closes(s, ScheduleImplicitReset(s))
         /\ \A c \in Causes : Closes(s, Abort(s, c))
<1>1. Closes(s, SendReset(s))
  BY StateValues, ClosedValues DEF Closes, SendReset, Stream, IsReset
<1>2. Closes(s, ScheduleImplicitReset(s))
  BY StateValues, ClosedValues DEF Closes, ScheduleImplicitReset, Stream
<1>3. \A c \in Causes : Closes(s, Abort(s, c))
  BY HandleErrorType DEF Closes, Abort, Stream
<1> QED BY <1>1, <1>2, <1>3

-----------------------------------------------------------------------------
(* The slab.  SlabOK speaks of a slab str, the slots linked that the         *)
(* identifier map points to, the next identifier n and the initial window    *)
(* sz, so that it can be used inside a handler as well as between two.       *)

Alive(str, k) == str[k].id # 0 /\ ~IsClosed(str[k].state)

Findable(str, linked) ==
  \A k \in Keys : Alive(str, k) =>
    k \in linked /\ \A j \in Keys : str[j].id = str[k].id => j = k

SlabOK(str, linked, n, sz) ==
  /\ str \in [Keys -> Stream] /\ linked \subseteq Keys
  /\ Findable(str, linked)
  /\ n \in Nat /\ \A k \in Keys : str[k].id < n
  /\ \A k \in Keys : Alive(str, k) => Total(str[k]) = sz

StreamInv ==
  SlabOK(streams, ids, next_stream_id, init_window_sz) /\ next_stream_id > 0

\* Every handler that only closes and keeps streams preserves SlabOK.
LEMMA KeepSlab ==
  ASSUME NEW str, NEW linked, NEW n, NEW sz, SlabOK(str, linked, n, sz),
         NEW new \in [Keys -> Stream],
         \A k \in Keys : Keeps(str[k], new[k])
  PROVE  SlabOK(new, linked, n, sz)
BY DEF SlabOK, Findable, Alive, Keeps

\* The same for a handler of one stream.
LEMMA KeepOne ==
  ASSUME NEW str, NEW linked, NEW n, NEW sz, SlabOK(str, linked, n, sz),
         NEW k \in Keys, NEW t, Keeps(str[k], t)
  PROVE  SlabOK([str EXCEPT ![k] = t], linked, n, sz)
<1> DEFINE new == [str EXCEPT ![k] = t]
<1>1. new \in [Keys -> Stream]
  BY DEF SlabOK, Keeps
<1>2. \A j \in Keys : Keeps(str[j], new[j])
  BY DEF SlabOK, Keeps
<1> QED BY <1>1, <1>2, KeepSlab

\* Closing is keeping.
LEMMA ClosesKeeps ==
  ASSUME NEW s, NEW t, Closes(s, t)
  PROVE  Keeps(s, t)
BY DEF Closes, Keeps

(* Store::insert, of a closed stream under an identifier that is not linked  *)
(* or of a live one under an identifier beyond all others.                   *)
LEMMA InsertSlab ==
  ASSUME StreamInv, NEW k \in Free, NEW t \in Stream, NEW m \in Nat,
         next_stream_id <= m, t.id < m,
         \/ IsClosed(t.state) /\ Find(t.id) = {}
         \/ next_stream_id <= t.id /\ Total(t) = init_window_sz
  PROVE  SlabOK([streams EXCEPT ![k] = t], ids \cup {k}, m, init_window_sz)
<1> DEFINE new == [streams EXCEPT ![k] = t]
<1>1. k \in Keys /\ streams \in [Keys -> Stream] /\ ids \subseteq Keys
  BY DEF Free, StreamInv, SlabOK
<1>2. new \in [Keys -> Stream] /\ ids \cup {k} \subseteq Keys
  BY <1>1
<1>3. \A j \in Keys : new[j] = IF j = k THEN t ELSE streams[j]
  BY <1>1
<1>4. \A j \in Keys : streams[j].id < next_stream_id /\ streams[j].id \in Nat
  BY <1>1 DEF StreamInv, SlabOK, Stream
<1>5. t.id \in Nat /\ next_stream_id \in Nat
  BY DEF Stream, StreamInv, SlabOK
<1>6. \A j \in Keys : new[j].id < m
  BY <1>3, <1>4, <1>5
<1>7. \A j \in Keys : Alive(new, j) => Total(new[j]) = init_window_sz
  <2>1. \A j \in Keys \ {k} : Alive(new, j) => Total(new[j]) = init_window_sz
    BY <1>3 DEF Alive, StreamInv, SlabOK
  <2>2. Alive(new, k) => Total(t) = init_window_sz
    BY <1>3, <1>1 DEF Alive
  <2> QED BY <2>1, <2>2, <1>3, <1>1
<1>8. Findable(new, ids \cup {k})
  <2>1. SUFFICES ASSUME NEW j \in Keys, Alive(new, j), NEW l \in Keys,
                        new[l].id = new[j].id
                 PROVE  j \in ids \cup {k} /\ l = j
    BY <1>1 DEF Findable
  <2>2. CASE j = k
    <3>1. next_stream_id <= t.id
      BY <2>1, <2>2, <1>3, <1>1 DEF Alive
    <3> QED BY <3>1, <2>1, <2>2, <1>3, <1>4, <1>5
  <2>3. CASE j # k
    <3>1. Alive(streams, j)
      BY <2>1, <2>3, <1>3 DEF Alive
    <3>2. j \in ids /\ \A i \in Keys : streams[i].id = streams[j].id => i = j
      BY <3>1 DEF StreamInv, SlabOK, Findable
    <3>3. l # k
      <4>1. SUFFICES ASSUME l = k PROVE FALSE
        OBVIOUS
      <4>2. t.id = streams[j].id
        BY <4>1, <2>1, <2>3, <1>3
      <4>3. j \in Find(t.id)
        BY <4>2, <3>2 DEF Find
      <4> QED BY <4>2, <4>3, <1>4, <1>5
    <3> QED BY <3>2, <3>3, <2>1, <2>3, <1>3
  <2> QED BY <2>2, <2>3
<1> QED BY <1>2, <1>6, <1>7, <1>8 DEF SlabOK

-----------------------------------------------------------------------------
(* The end of a handler.                                                     *)

\* A free slot is a stream without identifier.
LEMMA VacantType == Vacant \in Stream /\ Vacant.id = 0
BY NewStreamType DEF Vacant, NewStream

(* Counts::transition_after: a stream that is fully closed is freed or stays *)
(* closed; unlinking its identifier hides no live stream.                    *)
LEMMA TransitionAfterSlab ==
  ASSUME NEW str, NEW linked, NEW n, NEW sz, SlabOK(str, linked, n, sz), n > 0,
         NEW count \in Int, NEW K \in SUBSET Keys,
         TransitionAfter(str, linked, count, K)
  PROVE  SlabOK(streams', ids', n, sz) /\ num_recv_streams' \in Int
<1> DEFINE done == {k \in K : FullyClosed(str[k])}
           unlink == {str[k].id : k \in {j \in done : ~str[j].is_pending_reset}}
<1>1. /\ streams' = [k \in Keys |->
                       IF k \notin done THEN str[k]
                       ELSE IF IsReleased(str[k]) THEN Vacant
                       ELSE Uncount(str[k])]
      /\ ids' = {k \in linked : str[k].id \notin unlink}
      /\ num_recv_streams' =
           count - Cardinality({k \in done : str[k].is_counted})
  BY DEF TransitionAfter
<1>2. str \in [Keys -> Stream] /\ linked \subseteq Keys /\ n \in Nat
  BY DEF SlabOK
<1>3. streams' \in [Keys -> Stream] /\ ids' \subseteq Keys
  <2>1. \A k \in Keys : Uncount(str[k]) \in Stream
    BY <1>2, ZenonT(60) DEF Stream, Uncount
  <2> QED BY <1>1, <1>2, <2>1, VacantType
<1>4. \A k \in Keys :
        \/ streams'[k].id = 0
        \/ /\ streams'[k].id = str[k].id /\ streams'[k].state = str[k].state
           /\ Total(streams'[k]) = Total(str[k])
  <2>1. SUFFICES ASSUME NEW k \in Keys, streams'[k].id # 0
                 PROVE  /\ streams'[k].id = str[k].id
                        /\ streams'[k].state = str[k].state
                        /\ Total(streams'[k]) = Total(str[k])
    OBVIOUS
  <2>2. streams'[k] \in {str[k], Uncount(str[k])}
    BY <1>1, <2>1, VacantType
  <2>3. str[k] \in Stream
    BY <1>2
  <2> QED BY <2>2, <2>3 DEF Stream, Total, Uncount
<1>5. \A k \in Keys : streams'[k].id < n
  BY <1>4, <1>2 DEF SlabOK
<1>6. \A k \in Keys : Alive(streams', k) => Alive(str, k)
  BY <1>4 DEF Alive
<1>7. \A k \in Keys : Alive(streams', k) => Total(streams'[k]) = sz
  BY <1>4, <1>6 DEF Alive, SlabOK
<1>8. Findable(streams', ids')
  <2>1. SUFFICES ASSUME NEW k \in Keys, Alive(streams', k)
                 PROVE  /\ k \in ids'
                        /\ \A j \in Keys :
                             streams'[j].id = streams'[k].id => j = k
    BY DEF Findable
  <2>2. /\ k \in linked /\ Alive(str, k) /\ streams'[k].id = str[k].id
        /\ \A j \in Keys : str[j].id = str[k].id => j = k
    BY <2>1, <1>4, <1>6 DEF Alive, SlabOK, Findable
  <2>3. k \in ids'
    <3>1. k \notin done
      BY <2>2 DEF Alive, FullyClosed
    <3>2. str[k].id \notin unlink
      BY <2>2, <3>1
    <3> QED BY <1>1, <2>2, <3>2
  <2>4. \A j \in Keys : streams'[j].id = streams'[k].id => j = k
    BY <2>1, <2>2, <1>4 DEF Alive
  <2> QED BY <2>3, <2>4
<1>9. num_recv_streams' \in Int
  <2>1. {k \in done : str[k].is_counted} \in SUBSET Keys
    OBVIOUS
  <2>2. Cardinality({k \in done : str[k].is_counted}) \in Nat
    BY <2>1, KeysAssumption, FS_Subset, FS_CardinalityType
  <2> QED BY <1>1, <2>2
<1> QED BY <1>2, <1>3, <1>5, <1>7, <1>8, <1>9 DEF SlabOK

\* Recv::enqueue_reset_expiration changes no more than whether streams wait.
LEMMA EnqueueSlab ==
  ASSUME NEW str, NEW linked, NEW n, NEW sz, SlabOK(str, linked, n, sz), n > 0,
         NEW count \in Int, NEW k \in Keys, num_reset_streams \in Int,
         EnqueueResetExpiration(str, linked, count, k)
  PROVE  /\ SlabOK(streams', ids', n, sz)
         /\ num_recv_streams' \in Int /\ num_reset_streams' \in Int
<1> DEFINE queue == {j \in Keys : str[j].is_pending_reset}
           Queued(s) == [s EXCEPT ![k].is_pending_reset = TRUE]
           evicted(e) == [str EXCEPT ![e].is_pending_reset = FALSE]
<1>1. str \in [Keys -> Stream]
  BY DEF SlabOK
<1>2. ASSUME NEW s, SlabOK(s, linked, n, sz), NEW j \in Keys, NEW b \in BOOLEAN
      PROVE  SlabOK([s EXCEPT ![j].is_pending_reset = b], linked, n, sz)
  <2>1. s[j] \in Stream
    BY <1>2 DEF SlabOK
  <2>2. Keeps(s[j], [s[j] EXCEPT !.is_pending_reset = b])
    BY <2>1 DEF Keeps, Stream, Total
  <2> QED BY <1>2, <2>2, KeepOne
<1>3. \/ /\ TransitionAfter(str, linked, count, {k})
         /\ UNCHANGED num_reset_streams
      \/ /\ TransitionAfter(Queued(str), linked, count, {k})
         /\ num_reset_streams' = num_reset_streams + 1
      \/ /\ \E e \in queue : \E next \in {evicted(e), Queued(evicted(e))} :
              TransitionAfter(next, linked, count, {e, k})
         /\ UNCHANGED num_reset_streams
  BY DEF EnqueueResetExpiration
<1>4. CASE TransitionAfter(str, linked, count, {k}) /\ UNCHANGED num_reset_streams
  BY <1>4, TransitionAfterSlab
<1>5. CASE /\ TransitionAfter(Queued(str), linked, count, {k})
           /\ num_reset_streams' = num_reset_streams + 1
  <2>1. SlabOK(Queued(str), linked, n, sz)
    BY <1>2
  <2> QED BY <1>5, <2>1, TransitionAfterSlab
<1>6. CASE /\ \E e \in queue : \E next \in {evicted(e), Queued(evicted(e))} :
                TransitionAfter(next, linked, count, {e, k})
           /\ UNCHANGED num_reset_streams
  <2>1. PICK e \in queue :
               \E next \in {evicted(e), Queued(evicted(e))} :
                 TransitionAfter(next, linked, count, {e, k})
    BY <1>6
  <2>2. SlabOK(evicted(e), linked, n, sz)
    BY <1>2
  <2>3. SlabOK(Queued(evicted(e)), linked, n, sz)
    BY <1>2, <2>2
  <2>4. PICK next \in {evicted(e), Queued(evicted(e))} :
               TransitionAfter(next, linked, count, {e, k})
    BY <2>1
  <2>5. SlabOK(next, linked, n, sz)
    BY <2>2, <2>3, <2>4
  <2> QED BY <1>6, <2>4, <2>5, TransitionAfterSlab
<1> QED BY <1>3, <1>4, <1>5, <1>6

-----------------------------------------------------------------------------
(* The invariant of the store and its steps.                                 *)

StoreInv ==
  /\ StreamInv
  /\ num_recv_streams \in Int /\ num_reset_streams \in Int
  /\ init_window_sz \in Nat

\* What StoreInv says of one slot.
LEMMA SlotType ==
  ASSUME StoreInv
  PROVE  /\ streams \in [Keys -> Stream] /\ ids \subseteq Keys
         /\ next_stream_id \in Nat
         /\ \A k \in Keys : streams[k] \in Stream
BY DEF StoreInv, StreamInv, SlabOK

\* A handler that keeps or closes the streams, then ends their transition.
LEMMA KeepStep ==
  ASSUME StoreInv, NEW new, new \in [Keys -> Stream],
         \A k \in Keys : Keeps(streams[k], new[k]),
         UNCHANGED <<next_stream_id, init_window_sz>>,
         \/ streams' = new /\ UNCHANGED <<ids, num_recv_streams, num_reset_streams>>
         \/ \E K \in SUBSET Keys :
              /\ TransitionAfter(new, ids, num_recv_streams, K)
              /\ num_reset_streams' \in Int
         \/ \E k \in Keys :
              EnqueueResetExpiration(new, ids, num_recv_streams, k)
  PROVE  StoreInv'
<1>1. SlabOK(new, ids, next_stream_id, init_window_sz) /\ next_stream_id > 0
  BY KeepSlab DEF StoreInv, StreamInv
<1>2. SUFFICES
        /\ SlabOK(streams', ids', next_stream_id, init_window_sz)
        /\ num_recv_streams' \in Int /\ num_reset_streams' \in Int
  BY <1>1 DEF StoreInv, StreamInv, SlabOK, Findable, Alive
<1>3. CASE streams' = new /\ UNCHANGED <<ids, num_recv_streams, num_reset_streams>>
  BY <1>1, <1>3 DEF StoreInv
<1>4. CASE \E K \in SUBSET Keys :
              /\ TransitionAfter(new, ids, num_recv_streams, K)
              /\ num_reset_streams' \in Int
  BY <1>1, <1>4, TransitionAfterSlab DEF StoreInv
<1>5. CASE \E k \in Keys :
              EnqueueResetExpiration(new, ids, num_recv_streams, k)
  BY <1>1, <1>5, EnqueueSlab DEF StoreInv
<1> QED BY <1>3, <1>4, <1>5

\* The same for a handler of one stream.
LEMMA KeepOneStep ==
  ASSUME StoreInv, NEW k \in Keys, NEW t, Keeps(streams[k], t),
         UNCHANGED <<next_stream_id, init_window_sz>>,
         \/ /\ streams' = [streams EXCEPT ![k] = t]
            /\ UNCHANGED <<ids, num_recv_streams, num_reset_streams>>
         \/ /\ Transition([streams EXCEPT ![k] = t], k)
            /\ num_reset_streams' \in Int
         \/ EnqueueResetExpiration([streams EXCEPT ![k] = t],
                                   ids, num_recv_streams, k)
  PROVE  StoreInv'
<1> DEFINE new == [streams EXCEPT ![k] = t]
<1>1. new \in [Keys -> Stream]
  BY SlotType DEF Keeps
<1>2. \A j \in Keys : Keeps(streams[j], new[j])
  BY SlotType DEF Keeps
<1>3. {k} \in SUBSET Keys
  OBVIOUS
<1> QED BY <1>1, <1>2, <1>3, KeepStep DEF Transition

\* A step that leaves the store alone.
LEMMA StoreStutter ==
  ASSUME StoreInv, UNCHANGED <<store, next_stream_id, init_window_sz>>
  PROVE  StoreInv'
BY DEF StoreInv, StreamInv, SlabOK, Findable, Alive, store

\* DynStreams::handle_error
LEMMA HandleErrorStep ==
  ASSUME StoreInv, NEW c \in Causes, HandleErrorAll(c),
         UNCHANGED <<num_reset_streams, next_stream_id, init_window_sz>>
  PROVE  StoreInv'
<1> DEFINE new == [k \in Keys |-> IF k \in ids THEN Abort(streams[k], c)
                                               ELSE streams[k]]
<1>1. \A k \in Keys : Keeps(streams[k], new[k])
  BY SlotType, ClosingOps, ClosesKeeps DEF Keeps
<1>2. new \in [Keys -> Stream]
  BY <1>1 DEF Keeps
<1>3. ids \in SUBSET Keys /\ num_reset_streams' \in Int
  BY SlotType DEF StoreInv
<1> QED BY <1>1, <1>2, <1>3, KeepStep DEF HandleErrorAll

\* Streams::send_reset
LEMMA StreamErrorStep ==
  ASSUME StoreInv, NEW i \in StreamId, StreamError(i), UNCHANGED init_window_sz
  PROVE  StoreInv'
<1>1. CASE Find(i) # {}
  <2>1. PICK k \in Find(i) :
          /\ EnqueueResetExpiration([streams EXCEPT ![k] = SendReset(@)],
                                    ids, num_recv_streams, k)
          /\ UNCHANGED next_stream_id
    BY <1>1 DEF StreamError
  <2>2. k \in Keys
    BY SlotType DEF Find
  <2>3. Keeps(streams[k], SendReset(streams[k]))
    BY <2>2, SlotType, ClosingOps, ClosesKeeps
  <2> QED BY <2>1, <2>2, <2>3, KeepOneStep
<1>2. CASE Find(i) = {}
  <2> DEFINE t == SendReset(NewStream(i, 0))
             m == IF i >= next_stream_id THEN i + 1 ELSE next_stream_id
  <2>1. PICK k \in Free :
          EnqueueResetExpiration([streams EXCEPT ![k] = t],
                                 ids \cup {k}, num_recv_streams, k)
    BY <1>2 DEF StreamError
  <2>2. next_stream_id' = m
    BY <1>2 DEF StreamError
  <2>3. i \in Nat /\ m \in Nat /\ next_stream_id <= m /\ i < m
    BY SlotType, BoundAssumption DEF StreamId
  <2>4. t \in Stream /\ t.id = i /\ IsClosed(t.state)
    <3>1. NewStream(i, 0) \in Stream /\ NewStream(i, 0).id = i
      BY <2>3, NewStreamType DEF NewStream
    <3> QED BY <3>1, ClosingOps DEF Closes
  <2>5. SlabOK([streams EXCEPT ![k] = t], ids \cup {k}, m, init_window_sz)
    BY <1>2, <2>3, <2>4, InsertSlab DEF StoreInv
  <2>6. k \in Keys /\ m > 0
    BY SlotType, <2>3 DEF Free
  <2>7. /\ SlabOK(streams', ids', m, init_window_sz)
        /\ num_recv_streams' \in Int /\ num_reset_streams' \in Int
    BY <2>1, <2>5, <2>6, EnqueueSlab DEF StoreInv
  <2> QED BY <2>2, <2>6, <2>7
          DEF StoreInv, StreamInv, SlabOK, Findable, Alive
<1> QED BY <1>1, <1>2

\* A poll of the connection up to the next frame.
LEMMA StorePoll ==
  ASSUME StoreInv, Poll
  PROVE  StoreInv'
<1>1. CASE BeginPoll \/ PollReady \/ NotReady \/ GoAwaySent \/ NoFrame
  BY <1>1, StoreStutter
  DEF BeginPoll, PollReady, NotReady, GoAwaySent, NoFrame, numbers, store
<1>2. CASE IoError
  BY <1>2, HandleErrorStep DEF IoError, numbers, Causes
<1>3. ASSUME NEW k \in Keys, ExpireReset(k)
      PROVE  StoreInv'
  <2> DEFINE t == [streams[k] EXCEPT !.is_pending_reset = FALSE]
  <2>1. Keeps(streams[k], t)
    BY SlotType DEF Keeps, Stream, Total
  <2>2. Transition([streams EXCEPT ![k] = t], k) /\ num_reset_streams' \in Int
    BY <1>3 DEF ExpireReset, StoreInv
  <2>3. UNCHANGED <<next_stream_id, init_window_sz>>
    BY <1>3 DEF ExpireReset, numbers
  <2> QED BY <2>1, <2>2, <2>3, KeepOneStep
<1> QED BY <1>1, <1>2, <1>3 DEF Poll

\* Recv::open and Recv::recv_headers: a stream beyond all others.
LEMMA OpenedType ==
  ASSUME StoreInv, NEW i \in StreamId, NEW eos \in BOOLEAN
  PROVE  /\ Opened(i, eos) \in Stream /\ Opened(i, eos).id = i
         /\ Total(Opened(i, eos)) = init_window_sz
         /\ Opened(i, eos).state = RecvOpen(Idle, eos, FALSE)
<1>1. i \in Nat /\ init_window_sz \in Int
  BY BoundAssumption DEF StreamId, StoreInv
<1>2. NewStream(i, init_window_sz) \in Stream
  BY <1>1, NewStreamType
<1>3. /\ NewStream(i, init_window_sz).id = i
      /\ Total(NewStream(i, init_window_sz)) = init_window_sz
  BY <1>1 DEF NewStream, NewFlow, Total
<1> QED BY <1>2, <1>3, RecvOpenType DEF Opened, Stream, Total

\* HEADERS that open a stream: accepted, malformed or over size.
LEMMA StoreHeaders ==
  ASSUME StoreInv, NEW i \in StreamId, NEW eos \in BOOLEAN, RecvHeaders(i, eos)
  PROVE  StoreInv'
<1> DEFINE s == Opened(i, eos)
           answered == [s EXCEPT !.state = SendOpen(@, TRUE),
                                 !.pending_send = TRUE,
                                 !.is_pending_send = TRUE]
           accepted == [s EXCEPT !.is_pending_accept = TRUE]
           count == num_recv_streams + 1
           OK(k, t) == SlabOK([streams EXCEPT ![k] = t], ids \cup {k}, i + 1,
                              init_window_sz)
<1>1. PICK k \in Free :
        \/ /\ TransitionAfter([streams EXCEPT ![k] = accepted],
                              ids \cup {k}, count, {k})
           /\ UNCHANGED <<num_reset_streams, task>>
        \/ /\ TransitionAfter([streams EXCEPT ![k] = SendReset(s)],
                              ids \cup {k}, count, {k})
           /\ WakeIf(TRUE)
           /\ UNCHANGED num_reset_streams
        \/ /\ EnqueueResetExpiration(
                [streams EXCEPT ![k] = ScheduleImplicitReset(answered)],
                ids \cup {k}, count, k)
           /\ WakeIf(TRUE)
  BY DEF RecvHeaders
<1>2. /\ next_stream_id' = i + 1 /\ init_window_sz' = init_window_sz
      /\ next_stream_id <= i /\ i \in Nat /\ next_stream_id \in Nat
  BY SlotType, BoundAssumption DEF RecvHeaders, CanOpen, StreamId
<1>3. k \in Keys /\ count \in Int /\ i + 1 > 0
  BY <1>2 DEF Free, StoreInv
<1>4. s \in Stream /\ s.id = i /\ Total(s) = init_window_sz
  BY OpenedType
<1>5. ASSUME NEW t \in Stream, t.id = i,
             IsClosed(t.state) \/ Total(t) = init_window_sz
      PROVE  OK(k, t)
  <2>1. Find(i) = {}
    BY DEF RecvHeaders, CanOpen
  <2> QED BY <1>2, <1>5, <2>1, InsertSlab DEF StoreInv
<1>6. OK(k, accepted)
  <2>1. accepted \in Stream /\ accepted.id = i /\ Total(accepted) = init_window_sz
    BY <1>4 DEF Stream, Total
  <2> QED BY <2>1, <1>5
<1>7. OK(k, SendReset(s))
  BY <1>4, <1>5, ClosingOps DEF Closes
<1>8. OK(k, ScheduleImplicitReset(answered))
  <2>1. SendOpen(Opened(i, eos).state, TRUE) \in State
    BY OpenedType, RecvOpenType
  <2>2. answered \in Stream /\ answered.id = i
    BY <1>4, <2>1 DEF Stream
  <2> QED BY <2>2, <1>5, ClosingOps DEF Closes
<1>9. /\ SlabOK(streams', ids', i + 1, init_window_sz)
      /\ num_recv_streams' \in Int /\ num_reset_streams' \in Int
  <2>1. {k} \in SUBSET Keys /\ num_reset_streams \in Int
    BY <1>3 DEF StoreInv
  <2> QED BY <1>1, <1>3, <1>6, <1>7, <1>8, <2>1, TransitionAfterSlab, EnqueueSlab
<1> QED BY <1>2, <1>3, <1>9 DEF StoreInv, StreamInv

(* DATA that is buffered, and capacity that is released, move between the    *)
(* window of a stream and what it has in flight.                             *)
LEMMA BufferType ==
  ASSUME NEW s \in Stream, NEW n \in Nat
  PROVE  LET b == [s EXCEPT !.recv_flow = SendData(@, n),
                            !.in_flight_recv_data = @ + n]
         IN /\ b \in Stream /\ b.id = s.id /\ b.state = s.state
            /\ Total(b) = Total(s)
<1>1. s.recv_flow \in FlowControl /\ s.in_flight_recv_data \in Nat
  BY DEF Stream
<1>2. /\ SendData(s.recv_flow, n) \in FlowControl
      /\ SendData(s.recv_flow, n).available = s.recv_flow.available - n
      /\ s.recv_flow.available \in Int
      /\ s.in_flight_recv_data + n \in Nat
  BY <1>1 DEF FlowControl, SendData
<1> DEFINE b == [s EXCEPT !.recv_flow = SendData(@, n),
                        !.in_flight_recv_data = @ + n]
<1>3. /\ b \in Stream /\ b.id = s.id /\ b.state = s.state
      /\ b.recv_flow = SendData(s.recv_flow, n)
      /\ b.in_flight_recv_data = s.in_flight_recv_data + n
  BY <1>1, <1>2 DEF Stream
<1> QED BY <1>1, <1>2, <1>3 DEF Total

\* Capacity given back to a stream by the application: what it holds stays.
LEMMA ReleaseType ==
  ASSUME NEW s \in Stream, NEW n \in Nat, n <= s.in_flight_recv_data
  PROVE  LET r == [s EXCEPT !.in_flight_recv_data = @ - n,
                            !.recv_flow = AssignCapacity(@, n)]
         IN /\ r \in Stream /\ r.id = s.id /\ r.state = s.state
            /\ Total(r) = Total(s)
<1>1. s.recv_flow \in FlowControl /\ s.in_flight_recv_data \in Nat
  BY DEF Stream
<1>2. /\ AssignCapacity(s.recv_flow, n) \in FlowControl
      /\ AssignCapacity(s.recv_flow, n).available = s.recv_flow.available + n
      /\ s.recv_flow.available \in Int
      /\ s.in_flight_recv_data - n \in Nat
  BY <1>1 DEF FlowControl, AssignCapacity
<1> DEFINE b == [s EXCEPT !.in_flight_recv_data = @ - n,
                        !.recv_flow = AssignCapacity(@, n)]
<1>3. /\ b \in Stream /\ b.id = s.id /\ b.state = s.state
      /\ b.recv_flow = AssignCapacity(s.recv_flow, n)
      /\ b.in_flight_recv_data = s.in_flight_recv_data - n
  BY <1>1, <1>2 DEF Stream
<1> QED BY <1>1, <1>2, <1>3 DEF Total

\* Trailers, DATA, RST_STREAM and WINDOW_UPDATE of one stream.
LEMMA StoreFrame ==
  ASSUME StoreInv, NEW k \in Keys,
         \/ \E bad \in BOOLEAN : RecvTrailers(k, bad)
         \/ \E sz \in Sizes :
              \/ RecvDataReset(k, sz)
              \/ \E b \in BOOLEAN : RecvDataError(k, sz, b) \/ RecvData(k, sz, b)
         \/ RecvRstStream(k) \/ RecvWindowUpdate(k) \/ RecvWindowUpdateError(k)
  PROVE  StoreInv'
<1>0. /\ streams[k] \in Stream /\ num_reset_streams \in Int
      /\ streams[k].state \in State
  BY SlotType DEF StoreInv, Stream
<1>1. ASSUME NEW bad \in BOOLEAN, RecvTrailers(k, bad)
      PROVE  StoreInv'
  <2> DEFINE s == [streams[k] EXCEPT !.state = RecvClose(@)]
             t == IF bad THEN SendReset(s) ELSE s
  <2>1. /\ s \in Stream /\ s.id = streams[k].id
        /\ Total(s) = Total(streams[k]) /\ ~IsClosed(streams[k].state)
    BY <1>0, <1>1, RecvCloseType DEF RecvTrailers, Stream, Total
  <2>2. Keeps(streams[k], t)
    BY <2>1, ClosingOps DEF Closes, Keeps
  <2>3. /\ Transition([streams EXCEPT ![k] = t], k)
        /\ UNCHANGED <<num_reset_streams, next_stream_id, init_window_sz>>
    BY <1>1 DEF RecvTrailers, numbers
  <2> QED BY <1>0, <2>2, <2>3, KeepOneStep
<1>2. ASSUME NEW sz \in Sizes, RecvDataReset(k, sz)
      PROVE  StoreInv'
  <2>1. Closes(streams[k], streams[k])
    BY <1>0, <1>2, LocalResetIsClosed DEF RecvDataReset, Closes
  <2>2. streams = [streams EXCEPT ![k] = streams[k]]
    BY SlotType
  <2>3. /\ Transition(streams, k)
        /\ UNCHANGED <<num_reset_streams, next_stream_id, init_window_sz>>
    BY <1>2 DEF RecvDataReset, numbers
  <2> QED BY <1>0, <2>1, <2>2, <2>3, ClosesKeeps, KeepOneStep
<1>3. ASSUME NEW sz \in Sizes, NEW bad \in BOOLEAN, RecvDataError(k, sz, bad)
      PROVE  StoreInv'
  <2>1. /\ Transition([streams EXCEPT ![k] = SendReset(streams[k])], k)
        /\ UNCHANGED <<num_reset_streams, next_stream_id, init_window_sz>>
    BY <1>3 DEF RecvDataError, numbers
  <2> QED BY <1>0, <2>1, ClosingOps, ClosesKeeps, KeepOneStep
<1>4. ASSUME NEW sz \in Sizes, NEW eos \in BOOLEAN, RecvData(k, sz, eos)
      PROVE  StoreInv'
  <2> DEFINE s == [streams[k] EXCEPT !.state = IF eos THEN RecvClose(@) ELSE @]
             buffered == [s EXCEPT !.recv_flow = SendData(@, sz),
                                   !.in_flight_recv_data = @ + sz]
  <2>1. CanRecvClose(streams[k].state) /\ ~IsClosed(streams[k].state)
    BY <1>0, <1>4, RecvStreamingCanClose DEF RecvData
  <2>2. /\ s \in Stream /\ s.id = streams[k].id
        /\ Total(s) = Total(streams[k])
    BY <1>0, <2>1, RecvCloseType DEF Stream, Total
  <2>3. Keeps(streams[k], s)
    BY <2>1, <2>2 DEF Keeps
  <2>4. Keeps(streams[k], buffered)
    <3>1. sz \in Nat
      BY WindowAssumption
    <3>2. /\ buffered \in Stream /\ buffered.id = s.id
          /\ buffered.state = s.state /\ Total(buffered) = Total(s)
      <4> HIDE DEF s
      <4> QED BY <2>2, <3>1, BufferType
    <3> QED BY <2>1, <2>2, <3>2 DEF Keeps
  <2>5. /\ \/ Transition([streams EXCEPT ![k] = s], k)
           \/ Transition([streams EXCEPT ![k] = buffered], k)
        /\ UNCHANGED <<num_reset_streams, next_stream_id, init_window_sz>>
    BY <1>4 DEF RecvData, numbers
  <2> QED BY <1>0, <2>3, <2>4, <2>5, KeepOneStep
<1>5. CASE RecvRstStream(k)
  <2> DEFINE t == [streams[k] EXCEPT
                     !.state = RecvReset(@, streams[k].is_pending_send),
                     !.pending_send = FALSE, !.buffered_send_data = FALSE]
  <2>1. Closes(streams[k], t)
    BY <1>0, RecvResetType DEF Closes, Stream
  <2>2. /\ Transition([streams EXCEPT ![k] = t], k)
        /\ UNCHANGED <<num_reset_streams, next_stream_id, init_window_sz>>
    BY <1>5, SlotType DEF RecvRstStream, numbers
  <2> QED BY <1>0, <2>1, <2>2, ClosesKeeps, KeepOneStep
<1>6. CASE RecvWindowUpdate(k)
  <2> DEFINE t == [streams[k] EXCEPT !.is_pending_send = TRUE]
  <2>1. Keeps(streams[k], t)
    BY <1>0 DEF Keeps, Stream, Total
  <2>2. /\ streams' = [streams EXCEPT ![k] = t]
        /\ UNCHANGED <<ids, num_recv_streams, num_reset_streams,
                       next_stream_id, init_window_sz>>
    BY <1>6 DEF RecvWindowUpdate, numbers
  <2> QED BY <2>1, <2>2, KeepOneStep
<1>7. CASE RecvWindowUpdateError(k)
  <2>1. /\ streams' = [streams EXCEPT ![k] = SendReset(streams[k])]
        /\ UNCHANGED <<ids, num_recv_streams, num_reset_streams,
                       next_stream_id, init_window_sz>>
    BY <1>7 DEF RecvWindowUpdateError, numbers
  <2> QED BY <1>0, <2>1, ClosingOps, ClosesKeeps, KeepOneStep
<1> QED BY <1>1, <1>2, <1>3, <1>4, <1>5, <1>6, <1>7

\* Inner::recv_eof
LEMMA EndOfStreamsStep ==
  ASSUME StoreInv, NEW b \in BOOLEAN, EndOfStreams(b),
         UNCHANGED <<next_stream_id, init_window_sz>>
  PROVE  StoreInv'
<1> DEFINE Dequeued(s) == [s EXCEPT !.is_pending_send = FALSE,
                                    !.is_pending_window_update = FALSE,
                                    !.is_pending_reset = FALSE,
                                    !.is_pending_accept = @ /\ ~b]
           ended(k) == IF k \in ids THEN Abort(streams[k], "LocalError")
                                    ELSE streams[k]
           new == [k \in Keys |-> Dequeued(ended(k))]
           due == {k \in Slab : streams[k].is_pending_reset
                                   /\ FullyClosed(new[k])}
<1>1. \A k \in Keys : Keeps(streams[k], ended(k))
  BY SlotType, ClosingOps, ClosesKeeps DEF Keeps, Causes
<1>2. \A s \in Stream :
        /\ Dequeued(s) \in Stream /\ Dequeued(s).id = s.id
        /\ Dequeued(s).state = s.state /\ Total(Dequeued(s)) = Total(s)
  BY DEF Stream, Total
<1>3. \A k \in Keys : Keeps(streams[k], Dequeued(ended(k)))
  <2>1. SUFFICES ASSUME NEW k \in Keys
                 PROVE  Keeps(streams[k], Dequeued(ended(k)))
    OBVIOUS
  <2>2. Keeps(streams[k], ended(k))
    BY <1>1
  <2> HIDE DEF ended
  <2>3. /\ Dequeued(ended(k)) \in Stream /\ Dequeued(ended(k)).id = ended(k).id
        /\ Dequeued(ended(k)).state = ended(k).state
        /\ Total(Dequeued(ended(k))) = Total(ended(k))
    BY <1>2, <2>2 DEF Keeps
  <2> HIDE DEF Dequeued
  <2> QED BY <2>2, <2>3 DEF Keeps
<1>4. /\ TransitionAfter(new, ids, num_recv_streams, Slab)
      /\ num_reset_streams' = num_reset_streams - Cardinality(due)
  BY DEF EndOfStreams
<1> HIDE DEF Dequeued, ended
<1>5. new \in [Keys -> Stream] /\ \A k \in Keys : Keeps(streams[k], new[k])
  BY <1>3 DEF Keeps
<1>6. Slab \in SUBSET Keys /\ due \in SUBSET Keys
  BY DEF Slab
<1>7. num_reset_streams' \in Int
  <2>1. Cardinality(due) \in Nat
    BY <1>6, KeysAssumption, FS_Subset, FS_CardinalityType
  <2> QED BY <1>4, <2>1 DEF StoreInv
<1> HIDE DEF new
<1> QED BY <1>4, <1>5, <1>6, <1>7, KeepStep

\* GOAWAY of the peer.
LEMMA StoreGoAway ==
  ASSUME StoreInv, NEW last, RecvGoAway(last)
  PROVE  StoreInv'
<1> DEFINE gone == {k \in ids : streams[k].id > last}
           new == [k \in Keys |->
                     IF k \in gone THEN Abort(streams[k], "RemoteError")
                                   ELSE streams[k]]
<1>1. \A k \in Keys : Keeps(streams[k], new[k])
  BY SlotType, ClosingOps, ClosesKeeps DEF Keeps, Causes
<1>2. new \in [Keys -> Stream] /\ gone \in SUBSET Keys
  BY <1>1, SlotType DEF Keeps
<1>3. /\ TransitionAfter(new, ids, num_recv_streams, gone)
      /\ UNCHANGED <<num_reset_streams, next_stream_id, init_window_sz>>
  BY DEF RecvGoAway, numbers
<1>4. num_reset_streams' \in Int
  BY <1>3 DEF StoreInv
<1> HIDE DEF gone, new
<1> QED BY <1>1, <1>2, <1>3, <1>4, KeepStep

\* Settings that change the initial window move the window of each stream
\* that can be found, so that of each live one.
LEMMA StoreSettings ==
  ASSUME StoreInv, NEW v \in InitWindows, ApplyLocalSettings(v)
  PROVE  StoreInv'
<1> DEFINE d == v - init_window_sz
           moved(k) == [streams[k] EXCEPT !.recv_flow = DecRecvWindow(@, -d)]
<1>1. /\ v \in Nat /\ d \in Int /\ init_window_sz \in Int
      /\ init_window_sz' = v
      /\ UNCHANGED <<ids, num_recv_streams, num_reset_streams, next_stream_id>>
  BY WindowAssumption DEF ApplyLocalSettings, numbers, StoreInv
<1>2. streams' = [k \in Keys |-> IF k \notin ids THEN streams[k] ELSE moved(k)]
  BY DEF ApplyLocalSettings
<1>3. ASSUME NEW k \in Keys
      PROVE  /\ moved(k) \in Stream /\ moved(k).id = streams[k].id
             /\ moved(k).state = streams[k].state
             /\ Total(moved(k)) = Total(streams[k]) + d
  <2>1. streams[k] \in Stream
    BY SlotType
  <2>2. /\ streams[k].recv_flow \in FlowControl
        /\ streams[k].in_flight_recv_data \in Nat
    BY <2>1 DEF Stream
  <2>3. /\ DecRecvWindow(streams[k].recv_flow, -d) \in FlowControl
        /\ DecRecvWindow(streams[k].recv_flow, -d).available
             = streams[k].recv_flow.available + d
        /\ streams[k].recv_flow.available \in Int
    BY <1>1, <2>2 DEF FlowControl, DecRecvWindow
  <2>4. /\ moved(k) \in Stream /\ moved(k).id = streams[k].id
        /\ moved(k).state = streams[k].state
        /\ moved(k).recv_flow = DecRecvWindow(streams[k].recv_flow, -d)
        /\ moved(k).in_flight_recv_data = streams[k].in_flight_recv_data
    BY <2>1, <2>3 DEF Stream
  <2> HIDE DEF moved
  <2> QED BY <1>1, <2>2, <2>3, <2>4 DEF Total
<1> HIDE DEF moved
<1>4. streams' \in [Keys -> Stream]
  BY <1>2, <1>3, SlotType
<1>5. \A k \in Keys : /\ streams'[k].id = streams[k].id
                      /\ streams'[k].state = streams[k].state
  BY <1>2, <1>3
<1>6. Findable(streams', ids') /\ \A k \in Keys : streams'[k].id < next_stream_id
  BY <1>1, <1>5 DEF StoreInv, StreamInv, SlabOK, Findable, Alive
<1>7. ASSUME NEW k \in Keys, Alive(streams', k)
      PROVE  Total(streams'[k]) = v
  <2>1. k \in ids /\ Total(streams[k]) = init_window_sz
    BY <1>5, <1>7 DEF StoreInv, StreamInv, SlabOK, Findable, Alive
  <2> QED BY <1>1, <1>2, <1>3, <2>1
<1> QED BY <1>1, <1>4, <1>6, <1>7 DEF StoreInv, StreamInv, SlabOK

\* Every frame of the peer.
LEMMA StoreReceive ==
  ASSUME StoreInv, Receive
  PROVE  StoreInv'
<1>1. CASE RecvIgnored \/ RecvShutdownPong
  BY <1>1, StoreStutter DEF RecvIgnored, RecvShutdownPong, numbers
<1>2. CASE RecvInvalid
  BY <1>2, HandleErrorStep DEF RecvInvalid, ConnectionError, numbers, Causes
<1>3. CASE CodecClosed
  BY <1>3, EndOfStreamsStep DEF CodecClosed, numbers
<1>4. ASSUME NEW i \in StreamId, RecvMalformed(i)
      PROVE  StoreInv'
  BY <1>4, StreamErrorStep DEF RecvMalformed
<1>5. ASSUME NEW i \in StreamId, RefuseHeaders(i)
      PROVE  StoreInv'
  <2>1. /\ next_stream_id' = i + 1 /\ next_stream_id <= i
        /\ i \in Nat /\ next_stream_id \in Nat
        /\ UNCHANGED <<store, init_window_sz>>
    BY <1>5, SlotType, BoundAssumption DEF RefuseHeaders, CanOpen, StreamId
  <2>2. \A k \in Keys : streams[k].id \in Nat /\ streams[k].id < i + 1
    BY <2>1, SlotType DEF StoreInv, StreamInv, SlabOK, Stream
  <2> QED BY <2>1, <2>2
          DEF StoreInv, StreamInv, SlabOK, Findable, Alive, store
<1>6. ASSUME NEW i \in StreamId, NEW sz \in Sizes, RecvDataForgotten(i, sz)
      PROVE  StoreInv'
  BY <1>6, StreamErrorStep DEF RecvDataForgotten
<1>7. ASSUME NEW k \in Keys,
             \/ \E bad \in BOOLEAN : RecvTrailers(k, bad)
             \/ \E sz \in Sizes :
                  \/ RecvDataReset(k, sz)
                  \/ \E b \in BOOLEAN : RecvDataError(k, sz, b) \/ RecvData(k, sz, b)
             \/ RecvRstStream(k) \/ RecvWindowUpdate(k) \/ RecvWindowUpdateError(k)
      PROVE  StoreInv'
  BY <1>7, StoreFrame
<1> QED BY <1>1, <1>2, <1>3, <1>4, <1>5, <1>6, <1>7, StoreHeaders, StoreGoAway,
           StoreSettings DEF Receive

\* Streams::poll_complete: window updates and the send queue.
LEMMA StoreFlush ==
  ASSUME StoreInv, Flush
  PROVE  StoreInv'
<1>1. CASE FlushConnectionWindow \/ Park \/ Blocked \/ WriteError
  BY <1>1, StoreStutter
  DEF FlushConnectionWindow, Park, Blocked, WriteError, numbers
<1>2. ASSUME NEW k \in Keys, FlushStreamWindow(k)
      PROVE  StoreInv'
  <2> DEFINE s == [streams[k] EXCEPT !.is_pending_window_update = FALSE]
             incr == IF IsRecvStreaming(s.state) THEN UnclaimedCapacity(s.recv_flow)
                                                 ELSE 0
             t == [s EXCEPT !.recv_flow = IncWindow(@, incr)]
  <2>1. /\ s \in Stream /\ s.id = streams[k].id /\ s.state = streams[k].state
        /\ Total(s) = Total(streams[k])
    BY SlotType DEF Stream, Total
  <2> HIDE DEF s
  <2>2. s.recv_flow \in FlowControl /\ incr \in Int
    BY <2>1, FlowTypes DEF Stream
  <2> HIDE DEF incr
  <2>3. /\ IncWindow(s.recv_flow, incr) \in FlowControl
        /\ IncWindow(s.recv_flow, incr).available = s.recv_flow.available
    BY <2>2 DEF FlowControl, IncWindow
  <2>4. /\ t \in Stream /\ t.id = s.id /\ t.state = s.state
        /\ Total(t) = Total(s)
    BY <2>1, <2>3 DEF Stream, Total
  <2>5. Keeps(streams[k], t)
    BY <2>1, <2>4 DEF Keeps
  <2>6. /\ Transition([streams EXCEPT ![k] = t], k)
        /\ UNCHANGED <<num_reset_streams, next_stream_id, init_window_sz>>
    BY <1>2 DEF FlushStreamWindow, numbers, s, incr
  <2>7. num_reset_streams' \in Int
    BY <2>6 DEF StoreInv
  <2> QED BY <2>5, <2>6, <2>7, KeepOneStep
<1>3. ASSUME NEW k \in Keys, PopFrame(k)
      PROVE  StoreInv'
  <2> DEFINE s == streams[k]
             sent == [s EXCEPT !.pending_send = FALSE,
                               !.buffered_send_data = FALSE,
                               !.is_pending_send = IsScheduledReset(s.state)]
             reset == [s EXCEPT !.is_pending_send = FALSE,
                                !.state = IF IsScheduledReset(@) THEN SetReset
                                                                 ELSE @]
             t == IF s.pending_send THEN sent ELSE reset
  <2>1. s \in Stream /\ num_reset_streams \in Int
    BY SlotType DEF StoreInv
  <2>2. Keeps(s, sent)
    BY <2>1 DEF Keeps, Stream, Total, IsScheduledReset
  <2>3. Keeps(s, reset)
    BY <2>1, StateValues, ClosedValues DEF Keeps, Stream, Total
  <2>4. /\ Transition([streams EXCEPT ![k] = t], k)
        /\ UNCHANGED <<num_reset_streams, next_stream_id, init_window_sz>>
    BY <1>3 DEF PopFrame, numbers
  <2> QED BY <2>1, <2>2, <2>3, <2>4, KeepOneStep
<1>4. ASSUME NEW k \in Keys, PopData(k) \/ PopBlocked(k)
      PROVE  StoreInv'
  <2> DEFINE sent == [streams[k] EXCEPT !.buffered_send_data = FALSE]
             blocked == [streams[k] EXCEPT !.is_pending_send = FALSE]
  <2>1. Keeps(streams[k], sent) /\ Keeps(streams[k], blocked)
    BY SlotType DEF Keeps, Stream, Total
  <2>2. /\ \/ streams' = [streams EXCEPT ![k] = sent]
           \/ streams' = [streams EXCEPT ![k] = blocked]
        /\ UNCHANGED <<ids, num_recv_streams, num_reset_streams,
                       next_stream_id, init_window_sz>>
    BY <1>4 DEF PopData, PopBlocked, numbers
  <2> QED BY <2>1, <2>2, KeepOneStep
<1> QED BY <1>1, <1>2, <1>3, <1>4 DEF Flush

(* drop_stream_ref: a stream gives its data back only when it is closed, or  *)
(* closed by the drop itself.                                                *)
LEMMA DropRefStep ==
  ASSUME StoreInv, NEW k \in Keys, NEW s \in Stream, s.id = streams[k].id,
         s.state = streams[k].state, Total(s) = Total(streams[k]),
         s.ref_count > 0, DropStreamRef(k, s),
         UNCHANGED <<next_stream_id, init_window_sz>>
  PROVE  StoreInv'
<1> DEFINE t == [s EXCEPT !.ref_count = @ - 1]
           last == t.ref_count = 0
           size == ClosedCapacity(t)
           freed == [t EXCEPT !.in_flight_recv_data = @ - size]
<1>1. /\ t \in Stream /\ t.id = s.id /\ t.state = s.state /\ Total(t) = Total(s)
  <2>1. s.ref_count - 1 \in Nat
    BY DEF Stream
  <2> QED BY <2>1 DEF Stream, Total
<1> HIDE DEF t
<1>2. /\ freed \in Stream /\ freed.id = t.id /\ freed.state = t.state
      /\ ~last => Total(freed) = Total(t)
  <2>1. size \in {0, t.in_flight_recv_data} /\ (~last => size = 0)
    BY DEF ClosedCapacity
  <2>2. t.in_flight_recv_data - size \in Nat
    BY <1>1, <2>1 DEF Stream
  <2> HIDE DEF size, last
  <2> QED BY <1>1, <2>1, <2>2 DEF Stream, Total
<1>3. \/ /\ last /\ ~IsClosed(t.state)
         /\ EnqueueResetExpiration(
              [streams EXCEPT ![k] = ScheduleImplicitReset(freed)],
              ids, num_recv_streams, k)
      \/ /\ ~(last /\ ~IsClosed(t.state))
         /\ Transition([streams EXCEPT ![k] = freed], k)
         /\ UNCHANGED num_reset_streams
  BY DEF DropStreamRef, t
<1> HIDE DEF freed, last
<1>4. CASE /\ last /\ ~IsClosed(t.state)
           /\ EnqueueResetExpiration(
                [streams EXCEPT ![k] = ScheduleImplicitReset(freed)],
                ids, num_recv_streams, k)
  <2>1. Closes(streams[k], ScheduleImplicitReset(freed))
    BY <1>1, <1>2, ClosingOps DEF Closes
  <2> QED BY <1>4, <2>1, ClosesKeeps, KeepOneStep
<1>5. CASE /\ ~(last /\ ~IsClosed(t.state))
           /\ Transition([streams EXCEPT ![k] = freed], k)
           /\ UNCHANGED num_reset_streams
  <2>1. Keeps(streams[k], freed)
    BY <1>1, <1>2, <1>5 DEF Keeps
  <2>2. num_reset_streams' \in Int
    BY <1>5 DEF StoreInv
  <2> QED BY <1>5, <2>1, <2>2, KeepOneStep
<1> QED BY <1>3, <1>4, <1>5

\* What the application does with its handles.
LEMMA StoreHandles ==
  ASSUME StoreInv, NEW k \in Keys,
         \/ NextIncoming(k) \/ CloneHandle(k)
         \/ DropRecvStream(k) \/ DropHandle(k) \/ UserReset(k)
         \/ \E n \in Sizes : ReleaseCapacity(k, n)
         \/ \E eos \in BOOLEAN : SendResponse(k, eos)
         \/ \E eos \in BOOLEAN, sized \in BOOLEAN, now \in BOOLEAN :
              SendFrame(k, eos, sized, now)
  PROVE  StoreInv'
<1> DEFINE s == streams[k]
<1>0. /\ s \in Stream /\ s.state \in State /\ s.ref_count \in Nat
      /\ num_reset_streams \in Int
  BY SlotType DEF StoreInv, Stream
<1>1. CASE NextIncoming(k) \/ CloneHandle(k)
  <2> DEFINE given == [s EXCEPT !.is_pending_accept = FALSE, !.ref_count = @ + 2]
             cloned == [s EXCEPT !.ref_count = @ + 1]
  <2>1. s.ref_count + 2 \in Nat /\ s.ref_count + 1 \in Nat
    BY <1>0
  <2>2. Keeps(s, given) /\ Keeps(s, cloned)
    BY <1>0, <2>1 DEF Keeps, Stream, Total
  <2>3. /\ \/ streams' = [streams EXCEPT ![k] = given]
           \/ streams' = [streams EXCEPT ![k] = cloned]
        /\ UNCHANGED <<ids, num_recv_streams, num_reset_streams,
                       next_stream_id, init_window_sz>>
    BY <1>1, SlotType DEF NextIncoming, CloneHandle, numbers
  <2> QED BY <2>2, <2>3, KeepOneStep
<1>2. CASE DropRecvStream(k)
  <2> DEFINE unread == [s EXCEPT !.is_recv = FALSE]
  <2>1. /\ unread \in Stream /\ unread.id = s.id /\ unread.state = s.state
        /\ Total(unread) = Total(s) /\ unread.ref_count = s.ref_count
    BY <1>0 DEF Stream, Total
  <2>2. /\ s.ref_count > 0 /\ DropStreamRef(k, unread)
        /\ UNCHANGED <<next_stream_id, init_window_sz>>
    BY <1>2 DEF DropRecvStream, numbers
  <2> HIDE DEF unread
  <2> QED BY <2>1, <2>2, DropRefStep
<1>3. CASE DropHandle(k)
  <2>1. /\ s.ref_count > 0 /\ DropStreamRef(k, s)
        /\ UNCHANGED <<next_stream_id, init_window_sz>>
    BY <1>0, <1>3 DEF DropHandle, numbers
  <2> QED BY <1>0, <2>1, DropRefStep
<1>4. CASE UserReset(k)
  BY <1>0, <1>4, ClosingOps, ClosesKeeps, KeepOneStep DEF UserReset, numbers
<1>5. ASSUME NEW n \in Sizes, ReleaseCapacity(k, n)
      PROVE  StoreInv'
  <2> DEFINE r == [s EXCEPT !.in_flight_recv_data = @ - n,
                            !.recv_flow = AssignCapacity(@, n)]
             due == UnclaimedCapacity(r.recv_flow) > 0
             t == [r EXCEPT !.is_pending_window_update = @ \/ due]
  <2>1. n \in Nat /\ n <= s.in_flight_recv_data
    BY <1>5, WindowAssumption DEF ReleaseCapacity, Releasable
  <2>2. /\ r \in Stream /\ r.id = s.id /\ r.state = s.state
        /\ Total(r) = Total(s)
    BY <1>0, <2>1, ReleaseType
  <2>3. /\ streams' = [streams EXCEPT ![k] = t]
        /\ UNCHANGED <<ids, num_recv_streams, num_reset_streams,
                       next_stream_id, init_window_sz>>
    BY <1>5 DEF ReleaseCapacity, numbers
  <2> HIDE DEF r
  <2>4. Keeps(s, t)
    <3>1. due \in BOOLEAN
      OBVIOUS
    <3> HIDE DEF due
    <3>2. (r.is_pending_window_update \/ due) \in BOOLEAN
      OBVIOUS
    <3> QED BY <2>2, <3>2 DEF Keeps, Stream, Total
  <2> QED BY <2>3, <2>4, KeepOneStep
<1>6. ASSUME NEW eos \in BOOLEAN, SendResponse(k, eos)
      PROVE  StoreInv'
  <2> DEFINE t == [s EXCEPT !.state = SendOpen(@, eos), !.ref_count = @ + 1,
                            !.pending_send = TRUE, !.is_pending_send = TRUE]
  <2>1. SendOpen(s.state, eos) \in State /\ ~IsClosed(s.state)
    BY <1>0, <1>6, SendOpenType DEF SendResponse
  <2>2. Keeps(s, t)
    <3>1. s.ref_count + 1 \in Nat
      BY <1>0
    <3> QED BY <1>0, <2>1, <3>1 DEF Keeps, Stream, Total
  <2>3. /\ Transition([streams EXCEPT ![k] = t], k)
        /\ UNCHANGED <<num_reset_streams, next_stream_id, init_window_sz>>
    BY <1>6, SlotType DEF SendResponse, numbers
  <2> QED BY <1>0, <2>2, <2>3, KeepOneStep
<1>7. ASSUME NEW eos \in BOOLEAN, NEW sized \in BOOLEAN, NEW now \in BOOLEAN,
             SendFrame(k, eos, sized, now)
      PROVE  StoreInv'
  <2> DEFINE t == [s EXCEPT !.state = IF eos THEN SendClose(@) ELSE @,
                            !.pending_send = TRUE,
                            !.buffered_send_data = @ \/ sized,
                            !.is_pending_send = @ \/ now]
  <2>1. SendClose(s.state) \in State /\ ~IsClosed(s.state)
    BY <1>0, <1>7, SendCloseType DEF SendFrame
  <2>2. /\ (s.buffered_send_data \/ sized) \in BOOLEAN
        /\ (s.is_pending_send \/ now) \in BOOLEAN
    OBVIOUS
  <2>3. Keeps(s, t)
    BY <1>0, <2>1, <2>2 DEF Keeps, Stream, Total
  <2>4. /\ Transition([streams EXCEPT ![k] = t], k)
        /\ UNCHANGED <<num_reset_streams, next_stream_id, init_window_sz>>
    BY <1>7, SlotType DEF SendFrame, numbers
  <2> QED BY <1>0, <2>3, <2>4, KeepOneStep
<1> QED BY <1>1, <1>2, <1>3, <1>4, <1>5, <1>6, <1>7

\* Every step of the application.
LEMMA StoreUse ==
  ASSUME StoreInv, Use \/ Clone
  PROVE  StoreInv'
<1>1. CASE AbruptShutdown
  BY <1>1, HandleErrorStep DEF AbruptShutdown, numbers, Causes
<1>2. CASE DropConnection
  BY <1>2, EndOfStreamsStep DEF DropConnection, numbers
<1>3. ASSUME NEW t \in Targets, SetTarget(t)
      PROVE  StoreInv'
  BY <1>3, StoreStutter DEF SetTarget, numbers
<1> QED BY <1>1, <1>2, <1>3, StoreHandles DEF Use, Clone

\* The invariant of the store holds in every step.
LEMMA StoreStep == StoreInv /\ [Next]_vars => StoreInv'
<1> SUFFICES ASSUME StoreInv, [Next]_vars PROVE StoreInv'
  OBVIOUS
<1>1. CASE UNCHANGED vars
  BY <1>1, StoreStutter DEF vars, numbers
<1> QED BY <1>1, StorePoll, StoreReceive, StoreFlush, StoreUse DEF Next

\* A new connection has no streams.
LEMMA StoreInit == Init => StoreInv
<1> SUFFICES ASSUME Init PROVE StoreInv
  OBVIOUS
<1>1. streams \in [Keys -> Stream] /\ \A k \in Keys : streams[k].id = 0
  BY VacantType DEF Init
<1>2. /\ ids = {} /\ next_stream_id = 1 /\ init_window_sz \in Nat
      /\ num_recv_streams = 0 /\ num_reset_streams = 0
  BY WindowAssumption DEF Init
<1> QED BY <1>1, <1>2 DEF StoreInv, StreamInv, SlabOK, Findable, Alive

-----------------------------------------------------------------------------
(* Theorems about streams.                                                   *)

\* The store invariant holds throughout.
LEMMA StoreInvariant == Spec => []StoreInv
BY StoreInit, StoreStep, PTL DEF Spec

\* Whatever the order of frames, errors, expiries and drops: a live stream is
\* found by its identifier, and by no other slot.
THEOREM LiveStreamsAreFindable == Spec => []LiveIsFindable
<1>1. StoreInv => LiveIsFindable
  BY DEF StoreInv, StreamInv, SlabOK, Findable, Alive, LiveIsFindable, Live, Slab
<1> QED BY <1>1, StoreInvariant, PTL

\* Whatever the initial windows and the sizes of DATA: the window of a live
\* stream and its data in flight add up to the initial window in force.
THEOREM StreamWindowsAddUp == Spec => []StreamAccounting
<1>1. StoreInv => StreamAccounting
  BY DEF StoreInv, StreamInv, SlabOK, Alive, StreamAccounting, Live, Slab, Total
<1> QED BY <1>1, StoreInvariant, PTL

-----------------------------------------------------------------------------
(* The connection window.  MemoryBound alone is not inductive: a             *)
(* WINDOW_UPDATE raises the window to the whole capacity, so the sum of      *)
(* capacity and data in flight has to be the target, and the target within   *)
(* its largest value.                                                        *)

WindowInv ==
  /\ flow \in FlowControl /\ in_flight_data \in Int
  /\ target \in Nat /\ peak \in Nat /\ target <= peak
  /\ ConnAccounting /\ MemoryBound

\* Every step leaves the window alone, or is one of five ways to move it.
LEMMA WindowMoves ==
  ASSUME StoreInv, [Next]_vars
  PROVE  \/ UNCHANGED window
         \/ \E sz \in Sizes : IgnoreData(sz)
         \/ \E sz \in Sizes :
              /\ flow' = SendData(flow, sz)
              /\ in_flight_data' = in_flight_data + sz
              /\ UNCHANGED <<target, peak>>
         \/ /\ flow' = IncWindow(flow, UnclaimedCapacity(flow))
            /\ UnclaimedCapacity(flow) > 0
            /\ UNCHANGED <<in_flight_data, target, peak>>
         \/ \E n \in Nat :
              /\ flow' = AssignCapacity(flow, n)
              /\ in_flight_data' = in_flight_data - n
              /\ UNCHANGED <<target, peak>>
         \/ \E t \in Targets : SetTarget(t)
<1>1. CASE UNCHANGED vars
  BY <1>1 DEF vars
<1>2. CASE Poll
  BY <1>2 DEF Poll, BeginPoll, PollReady, NotReady, GoAwaySent, NoFrame, IoError,
              ExpireReset
<1>3. CASE Receive
  <2>1. ASSUME NEW k \in Keys, NEW sz \in Sizes, NEW b \in BOOLEAN,
               RecvData(k, sz, b)
        PROVE  \/ IgnoreData(sz)
               \/ /\ flow' = SendData(flow, sz)
                  /\ in_flight_data' = in_flight_data + sz
                  /\ UNCHANGED <<target, peak>>
    BY <2>1 DEF RecvData
  <2>2. ASSUME NEW k \in Keys, NEW sz \in Sizes,
               \/ RecvDataReset(k, sz)
               \/ \E b \in BOOLEAN : RecvDataError(k, sz, b)
        PROVE  IgnoreData(sz)
    BY <2>2 DEF RecvDataReset, RecvDataError
  <2>3. ASSUME NEW i \in StreamId, NEW sz \in Sizes, RecvDataForgotten(i, sz)
        PROVE  IgnoreData(sz)
    BY <2>3 DEF RecvDataForgotten
  <2>4. ASSUME \/ RecvIgnored \/ RecvInvalid \/ RecvShutdownPong \/ CodecClosed
               \/ \E i \in StreamId : RecvMalformed(i) \/ RefuseHeaders(i)
               \/ \E i \in StreamId, eos \in BOOLEAN : RecvHeaders(i, eos)
               \/ \E k \in Keys, bad \in BOOLEAN : RecvTrailers(k, bad)
               \/ \E k \in Keys : RecvRstStream(k) \/ RecvWindowUpdate(k)
                                    \/ RecvWindowUpdateError(k)
               \/ \E last \in GoAwayIds : RecvGoAway(last)
               \/ \E v \in InitWindows : ApplyLocalSettings(v)
        PROVE  UNCHANGED window
    BY <2>4 DEF RecvIgnored, RecvInvalid, RecvShutdownPong, CodecClosed,
                RecvMalformed, RefuseHeaders, RecvHeaders, RecvTrailers,
                RecvRstStream, RecvWindowUpdate, RecvWindowUpdateError,
                RecvGoAway, ApplyLocalSettings
  <2> QED BY <1>3, <2>1, <2>2, <2>3, <2>4 DEF Receive
<1>4. CASE Flush
  BY <1>4 DEF Flush, FlushConnectionWindow, Park, Blocked, WriteError,
              FlushStreamWindow, PopFrame, PopData, PopBlocked, window
<1>5. CASE Use \/ Clone
  <2>1. ASSUME NEW k \in Keys, DropRecvStream(k) \/ DropHandle(k)
        PROVE  \E n \in Nat :
                 /\ flow' = AssignCapacity(flow, n)
                 /\ in_flight_data' = in_flight_data - n
                 /\ UNCHANGED <<target, peak>>
    <3>1. ASSUME NEW s, s.in_flight_recv_data \in Nat, s \in Stream,
                 DropStreamRef(k, s)
          PROVE  \E n \in Nat :
                   /\ flow' = AssignCapacity(flow, n)
                   /\ in_flight_data' = in_flight_data - n
                   /\ UNCHANGED <<target, peak>>
      <4> DEFINE n == ClosedCapacity([s EXCEPT !.ref_count = @ - 1])
      <4>1. n \in Nat
        BY <3>1 DEF ClosedCapacity, Stream
      <4> QED BY <3>1, <4>1 DEF DropStreamRef
    <3>2. /\ streams[k] \in Stream
          /\ [streams[k] EXCEPT !.is_recv = FALSE] \in Stream
      BY SlotType DEF Stream
    <3>3. \E s \in Stream : DropStreamRef(k, s)
      BY <2>1, <3>2 DEF DropRecvStream, DropHandle
    <3> QED BY <3>1, <3>3 DEF Stream
  <2>2. ASSUME NEW k \in Keys, NEW n \in Sizes, ReleaseCapacity(k, n)
        PROVE  /\ n \in Nat
               /\ flow' = AssignCapacity(flow, n)
               /\ in_flight_data' = in_flight_data - n
               /\ UNCHANGED <<target, peak>>
    BY <2>2, WindowAssumption DEF ReleaseCapacity
  <2>3. ASSUME \/ AbruptShutdown \/ DropConnection \/ Clone
               \/ \E k \in Keys : NextIncoming(k) \/ UserReset(k)
               \/ \E k \in Keys, eos \in BOOLEAN : SendResponse(k, eos)
               \/ \E k \in Keys, eos \in BOOLEAN, sized \in BOOLEAN,
                     now \in BOOLEAN : SendFrame(k, eos, sized, now)
        PROVE  UNCHANGED window
    BY <2>3 DEF AbruptShutdown, DropConnection, Clone, CloneHandle, NextIncoming,
                UserReset, SendResponse, SendFrame, window
  <2> QED BY <1>5, <2>1, <2>2, <2>3 DEF Use
<1> QED BY <1>1, <1>2, <1>3, <1>4, <1>5 DEF Next

\* The window invariant holds in every step.
LEMMA WindowStep == StoreInv /\ WindowInv /\ [Next]_vars => WindowInv'
<1> SUFFICES ASSUME StoreInv, WindowInv, [Next]_vars PROVE WindowInv'
  OBVIOUS
<1> USE DEF WindowInv, ConnAccounting, MemoryBound
<1>1. CASE UNCHANGED window
  BY <1>1 DEF window
<1>2. ASSUME NEW sz \in Sizes, IgnoreData(sz)
      PROVE  WindowInv'
  <2>1. sz \in Nat
    BY WindowAssumption
  <2> QED BY <1>2, <2>1 DEF IgnoreData, FlowControl, SendData, AssignCapacity
<1>3. ASSUME NEW sz \in Sizes, flow' = SendData(flow, sz),
             in_flight_data' = in_flight_data + sz, UNCHANGED <<target, peak>>
      PROVE  WindowInv'
  <2>1. sz \in Nat
    BY WindowAssumption
  <2> QED BY <1>3, <2>1 DEF FlowControl, SendData
<1>4. ASSUME flow' = IncWindow(flow, UnclaimedCapacity(flow)),
             UnclaimedCapacity(flow) > 0,
             UNCHANGED <<in_flight_data, target, peak>>
      PROVE  WindowInv'
  <2>1. UnclaimedCapacity(flow) = flow.available - flow.window_size
    BY <1>4 DEF UnclaimedCapacity
  <2> QED BY <1>4, <2>1 DEF FlowControl, IncWindow
<1>5. ASSUME NEW n \in Nat, flow' = AssignCapacity(flow, n),
             in_flight_data' = in_flight_data - n, UNCHANGED <<target, peak>>
      PROVE  WindowInv'
  BY <1>5 DEF FlowControl, AssignCapacity
<1>6. ASSUME NEW t \in Targets, SetTarget(t)
      PROVE  WindowInv'
  <2>1. t \in Nat
    BY WindowAssumption
  <2>2. /\ flow' = AssignCapacity(flow, t - (flow.available + in_flight_data))
        /\ target' = t /\ peak' = IF t > peak THEN t ELSE peak
        /\ in_flight_data' = in_flight_data
    BY <1>6 DEF SetTarget
  <2> QED BY <2>1, <2>2 DEF FlowControl, AssignCapacity
<1> QED BY <1>1, <1>2, <1>3, <1>4, <1>5, <1>6, WindowMoves

\* A new connection has its whole window to give.
LEMMA WindowInit == Init => WindowInv
BY WindowAssumption, FlowTypes
DEF Init, WindowInv, ConnAccounting, MemoryBound, NewFlow, FlowControl

\* The window invariant holds throughout.
LEMMA WindowInvariant == Spec => []WindowInv
BY StoreInvariant, WindowInit, WindowStep, PTL DEF Spec

\* Recv: no capacity of the connection is lost or invented, whichever of
\* resets, errors, drops and new targets it passes through.
THEOREM ConnectionWindowAddsUp == Spec => []ConnAccounting
BY WindowInvariant, PTL DEF WindowInv

\* Recv: what the peer may still send and what is buffered never exceed the
\* largest target the application has set.
THEOREM MemoryIsBounded == Spec => []MemoryBound
BY WindowInvariant, PTL DEF WindowInv

-----------------------------------------------------------------------------
(* Types of what is left: identifiers, flags and the phase of the task.      *)

ControlInv ==
  /\ last_processed_id \in Nat /\ max_stream_id \in Nat
  /\ send_max_stream_id \in Nat /\ refused \in Nat
  /\ goaway_received \in BOOLEAN /\ task \in BOOLEAN /\ closing \in BOOLEAN
  /\ conn \in Phases

\* The steps of a poll that read no frame.
LEMMA ControlPoll ==
  ASSUME ControlInv, Poll \/ Flush
  PROVE  ControlInv'
<1> USE DEF ControlInv, Phases, Polling, Waiting, numbers, peer
<1>1. CASE BeginPoll \/ NotReady \/ GoAwaySent \/ NoFrame \/ IoError
  BY <1>1 DEF BeginPoll, NotReady, GoAwaySent, NoFrame, IoError
<1>2. CASE PollReady
  BY <1>2 DEF PollReady
<1>5. ASSUME NEW k \in Keys, ExpireReset(k)
      PROVE  ControlInv'
  BY <1>5 DEF ExpireReset
<1>6. CASE Park
  BY <1>6 DEF Park, Done
<1>3. CASE FlushConnectionWindow \/ Blocked \/ WriteError
  BY <1>3 DEF FlushConnectionWindow, Blocked, WriteError
<1>4. ASSUME NEW k \in Keys,
             FlushStreamWindow(k) \/ PopFrame(k) \/ PopData(k) \/ PopBlocked(k)
      PROVE  ControlInv'
  BY <1>4 DEF FlushStreamWindow, PopFrame, PopData, PopBlocked
<1> QED BY <1>1, <1>2, <1>3, <1>4, <1>5, <1>6 DEF Poll, Flush

\* The frames of the peer.
LEMMA ControlReceive ==
  ASSUME ControlInv, Receive
  PROVE  ControlInv'
<1> USE DEF ControlInv, Phases, Polling, Waiting, numbers, peer
<1>1. CASE RecvIgnored \/ RecvInvalid \/ RecvShutdownPong \/ CodecClosed
  BY <1>1 DEF RecvIgnored, RecvInvalid, RecvShutdownPong, CodecClosed,
              ConnectionError
<1>2. ASSUME NEW i \in StreamId,
             \/ RecvMalformed(i) \/ RefuseHeaders(i)
             \/ \E sz \in Sizes : RecvDataForgotten(i, sz)
             \/ \E eos \in BOOLEAN : RecvHeaders(i, eos)
      PROVE  ControlInv'
  <2>1. i \in Nat
    BY BoundAssumption DEF StreamId
  <2>2. StreamError(i) => task' \in BOOLEAN
    BY DEF StreamError, WakeIf, Resets
  <2> QED BY <1>2, <2>1, <2>2
          DEF RecvMalformed, RefuseHeaders, RecvDataForgotten, RecvHeaders,
              StreamError, WakeIf
<1>3. ASSUME NEW k \in Keys,
             \/ \E bad \in BOOLEAN : RecvTrailers(k, bad)
             \/ RecvRstStream(k) \/ RecvWindowUpdate(k)
             \/ RecvWindowUpdateError(k)
      PROVE  ControlInv'
  BY <1>3 DEF RecvTrailers, RecvRstStream, RecvWindowUpdate,
              RecvWindowUpdateError, WakeIf
<1>4. ASSUME NEW k \in Keys, NEW sz \in Sizes,
             \/ RecvDataReset(k, sz)
             \/ \E b \in BOOLEAN : RecvDataError(k, sz, b) \/ RecvData(k, sz, b)
      PROVE  ControlInv'
  BY <1>4 DEF RecvDataReset, RecvDataError, RecvData, WakeIf
<1>5. ASSUME NEW last \in GoAwayIds, RecvGoAway(last)
      PROVE  ControlInv'
  BY <1>5, GoAwayAssumption DEF RecvGoAway
<1>6. ASSUME NEW v \in InitWindows, ApplyLocalSettings(v)
      PROVE  ControlInv'
  BY <1>6 DEF ApplyLocalSettings
<1> QED BY <1>1, <1>2, <1>3, <1>4, <1>5, <1>6 DEF Receive

\* The application.
LEMMA ControlUse ==
  ASSUME ControlInv, Use \/ Clone
  PROVE  ControlInv'
<1> USE DEF ControlInv, Phases, Polling, Waiting, numbers, peer
<1>1. CASE AbruptShutdown \/ DropConnection
  BY <1>1 DEF AbruptShutdown, DropConnection
<1>2. ASSUME NEW t \in Targets, SetTarget(t)
      PROVE  ControlInv'
  BY <1>2 DEF SetTarget, WakeIf
<1>3. ASSUME NEW k \in Keys,
             NextIncoming(k) \/ CloneHandle(k) \/ UserReset(k)
      PROVE  ControlInv'
  BY <1>3 DEF NextIncoming, CloneHandle, UserReset, WakeIf
<1>4. ASSUME NEW k \in Keys, DropRecvStream(k) \/ DropHandle(k)
      PROVE  ControlInv'
  BY <1>4 DEF DropRecvStream, DropHandle, DropStreamRef, WakeIf
<1>5. ASSUME NEW k \in Keys,
             \/ \E n \in Sizes : ReleaseCapacity(k, n)
             \/ \E eos \in BOOLEAN : SendResponse(k, eos)
             \/ \E eos \in BOOLEAN, sized \in BOOLEAN, now \in BOOLEAN :
                  SendFrame(k, eos, sized, now)
      PROVE  ControlInv'
  BY <1>5, ZenonT(60) DEF ReleaseCapacity, SendResponse, SendFrame, WakeIf
<1> QED BY <1>1, <1>2, <1>3, <1>4, <1>5 DEF Use, Clone

\* Every step leaves identifiers, flags and the phase well typed.
LEMMA ControlStep == ControlInv /\ [Next]_vars => ControlInv'
<1> SUFFICES ASSUME ControlInv, [Next]_vars PROVE ControlInv'
  OBVIOUS
<1>1. CASE UNCHANGED vars
  BY <1>1 DEF vars, numbers, peer, ControlInv
<1> QED BY <1>1, ControlPoll, ControlReceive, ControlUse DEF Next

\* They are well typed in a new connection.
LEMMA ControlInit == Init => ControlInv
<1> SUFFICES ASSUME Init PROVE ControlInv
  OBVIOUS
<1>1. NoLimit \in Nat
  BY BoundAssumption DEF NoLimit
<1> QED BY <1>1 DEF Init, ControlInv, Phases, Waiting

\* H2Recv is type correct.
THEOREM TypeCorrect == Spec => []TypeOK
<1>1. Spec => []ControlInv
  BY ControlInit, ControlStep, PTL DEF Spec
<1>2. StoreInv /\ WindowInv /\ ControlInv => TypeOK
  BY DEF StoreInv, StreamInv, SlabOK, WindowInv, ControlInv, TypeOK
<1> QED BY <1>1, <1>2, StoreInvariant, WindowInvariant, PTL

-----------------------------------------------------------------------------
(* The invariant of the slab.  None of CountsExact, ResetsCounted and NoLeak *)
(* is inductive: that a stream which was closed and flushed is uncounted     *)
(* once, at the end of the handler that made it so, needs to know that no    *)
(* other stream of the slab is in that situation.                            *)

(* Of the frames a stream has to send: data is among them only if there are  *)
(* any, and a stream that is queued without one is closed.                   *)
SendOK(s) ==
  /\ s.buffered_send_data => s.pending_send
  /\ s.is_pending_send /\ ~s.pending_send => IsClosed(s.state)

(* A stream whose transition has ended: it is freed if nobody refers to it,  *)
(* and closed and flushed it is not counted, nor found unless its reset      *)
(* waits to expire.                                                          *)
Settled(s, found) ==
  /\ ~IsReleased(s)
  /\ FullyClosed(s) => ~s.is_counted /\ (found => s.is_pending_reset)

CountedIn(str)  == {k \in Keys : str[k].is_counted}
AwaitingIn(str) == {k \in Keys : str[k].is_pending_reset}

(* A slab str, the slots linked that the identifier map points to and both   *)
(* counters, between two handlers (K = {}), or inside one that has still to  *)
(* end the transition of the streams in K.                                   *)
Sound(str, linked, count, resets, K) ==
  /\ str \in [Keys -> Stream]
  /\ linked \subseteq Keys /\ \A k \in linked : str[k].id # 0
  /\ \A k \in Keys : str[k].id = 0 => str[k] = Vacant
  /\ \A k \in Keys : str[k].id # 0 =>
       /\ SendOK(str[k])
       /\ ~IsClosed(str[k].state) => str[k].is_counted
       /\ k \notin K => Settled(str[k], k \in linked)
  /\ count \in Int /\ count = Cardinality(CountedIn(str))
  /\ count <= MaxRecvStreams
  /\ resets \in Int /\ resets <= MaxResetStreams
  /\ Cardinality(AwaitingIn(str)) <= resets

SlabInv == Sound(streams, ids, num_recv_streams, num_reset_streams, {})

(* A stream that nobody can read: it is closed, and holds no data.           *)
Unheld(s) ==
  s.ref_count = 0 /\ ~s.is_pending_accept
    => IsClosed(s.state) /\ s.in_flight_recv_data = 0

(* What any handler does to a stream it does not free.  Only the application *)
(* takes handles away, one at a time.                                        *)
Slack == IF conn \in Polling THEN 0 ELSE 1

Goes(s, t) ==
  /\ t.id = s.id
  /\ IsClosed(s.state) => IsClosed(t.state)
  /\ s.ref_count - Slack <= t.ref_count
  /\ IsLocalReset(s.state) =>
       /\ t.in_flight_recv_data <= s.in_flight_recv_data
       /\ \/ t.recv_flow.window_size <= s.recv_flow.window_size
          \/ init_window_sz' > init_window_sz
  /\ Unheld(s) => Unheld(t) \/ conn' = "dropped"
  /\ \/ t.in_flight_recv_data = s.in_flight_recv_data
     \/ in_flight_data' # in_flight_data

(* The body of a handler may leave a stream closed and flushed, if the       *)
(* handler ends its transition.                                              *)
Moves(s, t) ==
  /\ t \in Stream /\ Goes(s, t) /\ SendOK(t)
  /\ t.is_counted = s.is_counted
  /\ t.is_pending_reset => s.is_pending_reset

(* A handler without a transition may not.                                   *)
Stays(s, t) ==
  /\ FullyClosed(t) => FullyClosed(s)
  /\ IsReleased(t) => IsReleased(s)
  /\ t.is_pending_reset = s.is_pending_reset

(* What a step does to slot k, where it leaves u: it frees the slot, or lets  *)
(* the stream in it go on, or puts a new stream there.                       *)
MayFree(s) ==
  /\ s.ref_count <= Slack
  /\ Unheld(s) => \/ s.in_flight_recv_data = 0
                  \/ in_flight_data' # in_flight_data
                  \/ conn' = "dropped"

StepOK(k, u) ==
  \/ u.id = 0 /\ (streams[k].id = 0 \/ MayFree(streams[k]))
  \/ streams[k].id # 0 /\ Goes(streams[k], u)
  \/ /\ streams[k].id = 0 /\ Unheld(u) /\ u.in_flight_recv_data = 0
     /\ IsClosed(u.state) \/ u.id <= last_processed_id'

StepsOK == \A k \in Keys : StepOK(k, streams'[k])

-----------------------------------------------------------------------------
(* The end of a handler.                                                     *)

\* A set of slots has a size.
LEMMA SlotsAreFinite ==
  /\ \A S \in SUBSET Keys : IsFiniteSet(S) /\ Cardinality(S) \in Nat
  /\ \A S \in SUBSET Keys, T \in SUBSET Keys :
       S \subseteq T => Cardinality(S) <= Cardinality(T)
<1>1. \A S \in SUBSET Keys : IsFiniteSet(S) /\ Cardinality(S) \in Nat
  BY KeysAssumption, FS_Subset, FS_CardinalityType
<1>2. ASSUME NEW S \in SUBSET Keys, NEW T \in SUBSET Keys, S \subseteq T
      PROVE  Cardinality(S) <= Cardinality(T)
  BY <1>1, <1>2, FS_Subset
<1> QED BY <1>1, <1>2

\* What a free slot holds.
LEMMA VacantFields ==
  /\ Vacant \in Stream /\ Vacant.id = 0 /\ Vacant.ref_count = 0
  /\ ~Vacant.is_counted /\ ~Vacant.is_pending_reset /\ ~Vacant.is_pending_send
  /\ ~Vacant.is_pending_accept /\ ~Vacant.is_pending_window_update
  /\ ~Vacant.buffered_send_data /\ ~Vacant.pending_send
BY VacantType DEF Vacant, NewStream

(* The end of a transition frees a stream without handles, or changes only   *)
(* whether it is counted and waits for its reset to expire.                  *)
Ends(s, t) ==
  \/ t = Vacant /\ s.ref_count = 0 /\ ~s.is_pending_accept
  \/ /\ t.id = s.id /\ t.state = s.state /\ t.ref_count = s.ref_count
     /\ t.recv_flow = s.recv_flow
     /\ t.in_flight_recv_data = s.in_flight_recv_data
     /\ t.is_pending_send = s.is_pending_send
     /\ t.is_pending_accept = s.is_pending_accept
     /\ t.is_pending_window_update = s.is_pending_window_update

(* Counts::transition_after settles the streams in K, and uncounts each of   *)
(* them once.                                                                *)
LEMMA TransitionSound ==
  ASSUME NEW str, NEW linked, NEW count, NEW r, NEW K \in SUBSET Keys,
         Sound(str, linked, count, r, K),
         TransitionAfter(str, linked, count, K)
  PROVE  /\ Sound(streams', ids', num_recv_streams', r, {})
         /\ \A k \in Keys : Ends(str[k], streams'[k])
<1> DEFINE done == {k \in K : FullyClosed(str[k])}
           unlink == {str[k].id : k \in {j \in done : ~str[j].is_pending_reset}}
           freed == {k \in done : str[k].is_counted}
<1>1. /\ streams' = [k \in Keys |->
                       IF k \notin done THEN str[k]
                       ELSE IF IsReleased(str[k]) THEN Vacant
                       ELSE Uncount(str[k])]
      /\ ids' = {k \in linked : str[k].id \notin unlink}
      /\ num_recv_streams' = count - Cardinality(freed)
  BY DEF TransitionAfter
<1>2. /\ str \in [Keys -> Stream] /\ linked \subseteq Keys
      /\ \A k \in linked : str[k].id # 0
      /\ \A k \in Keys : str[k].id = 0 => str[k] = Vacant
      /\ count \in Int /\ count = Cardinality(CountedIn(str))
      /\ count <= MaxRecvStreams
      /\ r \in Int /\ r <= MaxResetStreams /\ Cardinality(AwaitingIn(str)) <= r
  BY DEF Sound
<1>3. \A k \in Keys : str[k].id # 0 =>
        /\ SendOK(str[k])
        /\ ~IsClosed(str[k].state) => str[k].is_counted
        /\ k \notin K => Settled(str[k], k \in linked)
  BY DEF Sound
<1>4. \A k \in Keys :
        \/ k \notin done /\ streams'[k] = str[k]
        \/ k \in done /\ IsReleased(str[k]) /\ streams'[k] = Vacant
        \/ k \in done /\ ~IsReleased(str[k]) /\ streams'[k] = Uncount(str[k])
  BY <1>1
<1>5. \A s \in Stream :
        /\ Uncount(s) \in Stream /\ Uncount(s).is_counted = FALSE
        /\ Ends(s, Uncount(s)) /\ Uncount(s).id = s.id
        /\ Uncount(s).state = s.state
        /\ Uncount(s).is_pending_reset = s.is_pending_reset
        /\ FullyClosed(Uncount(s)) = FullyClosed(s)
        /\ IsReleased(Uncount(s)) = IsReleased(s)
        /\ SendOK(Uncount(s)) = SendOK(s)
  BY DEF Stream, Uncount, Ends, FullyClosed, IsReleased, SendOK
<1>6. \A k \in Keys : str[k] \in Stream
  BY <1>2
<1> HIDE DEF done, unlink
<1>7. streams' \in [Keys -> Stream]
  BY <1>1, <1>4, <1>5, <1>6, VacantFields
<1>8. \A k \in Keys : Ends(str[k], streams'[k])
  BY <1>4, <1>5, <1>6 DEF Ends, IsReleased
<1>9. ids' \subseteq Keys /\ \A k \in ids' : streams'[k].id # 0
  <2>1. SUFFICES ASSUME NEW k \in ids' PROVE k \in Keys /\ streams'[k].id # 0
    OBVIOUS
  <2>2. k \in linked /\ k \in Keys /\ str[k].id # 0 /\ str[k].id \notin unlink
    BY <1>1, <1>2
  <2>3. ~(k \in done /\ IsReleased(str[k]))
    BY <2>2 DEF unlink, IsReleased
  <2> QED BY <2>2, <2>3, <1>4, <1>5, <1>6
<1>10. ASSUME NEW k \in Keys, streams'[k].id = 0
       PROVE  streams'[k] = Vacant
  <2>1. CASE k \notin done /\ streams'[k] = str[k]
    BY <1>2, <1>10, <2>1
  <2>2. CASE k \in done /\ ~IsReleased(str[k]) /\ streams'[k] = Uncount(str[k])
    <3>1. str[k] = Vacant /\ FullyClosed(str[k])
      BY <1>2, <1>5, <1>6, <1>10, <2>2 DEF done
    <3>2. ~IsClosed(Vacant.state)
      BY ClosedValues DEF Vacant, NewStream
    <3> QED BY <3>1, <3>2 DEF FullyClosed
  <2> QED BY <1>4, <2>1, <2>2
<1>11. ASSUME NEW k \in Keys, streams'[k].id # 0
       PROVE  /\ SendOK(streams'[k])
              /\ ~IsClosed(streams'[k].state) => streams'[k].is_counted
              /\ Settled(streams'[k], k \in ids')
  <2>1. CASE k \notin done /\ streams'[k] = str[k]
    <3>1. k \in ids' => k \in linked
      BY <1>1
    <3>2. k \notin K => Settled(str[k], k \in linked)
      BY <1>3, <1>11, <2>1
    <3>3. k \in K => ~FullyClosed(str[k])
      BY <2>1 DEF done
    <3>4. Settled(str[k], k \in ids')
      BY <3>1, <3>2, <3>3 DEF Settled, IsReleased
    <3> QED BY <1>3, <1>11, <2>1, <3>4
  <2>2. CASE k \in done /\ ~IsReleased(str[k]) /\ streams'[k] = Uncount(str[k])
    <3>1. str[k] \in Stream /\ str[k].id # 0 /\ FullyClosed(str[k])
      BY <1>5, <1>6, <1>11, <2>2 DEF done
    <3>2. k \in ids' => str[k].is_pending_reset
      BY <1>1, <2>2 DEF unlink
    <3>3. IsClosed(str[k].state)
      BY <3>1 DEF FullyClosed
    <3>4. Settled(streams'[k], k \in ids')
      BY <1>5, <2>2, <3>1, <3>2 DEF Settled
    <3> QED BY <1>3, <1>5, <2>2, <3>1, <3>3, <3>4
  <2> QED BY <1>4, <1>11, <2>1, <2>2, VacantFields
<1>12. /\ num_recv_streams' \in Int
       /\ num_recv_streams' = Cardinality(CountedIn(streams'))
       /\ num_recv_streams' <= MaxRecvStreams
  <2>1. freed \subseteq CountedIn(str) /\ CountedIn(str) \in SUBSET Keys
    BY DEF CountedIn, done
  <2>2. CountedIn(streams') = CountedIn(str) \ freed
    BY <1>4, <1>5, <1>6, VacantFields DEF CountedIn
  <2>3. IsFiniteSet(CountedIn(str)) /\ IsFiniteSet(freed)
    BY <2>1, SlotsAreFinite
  <2>4. CountedIn(str) \cap freed = freed
    BY <2>1
  <2> HIDE DEF freed
  <2>5. Cardinality(CountedIn(str) \ freed)
          = Cardinality(CountedIn(str)) - Cardinality(freed)
    BY <2>3, <2>4, FS_Difference
  <2>6. Cardinality(freed) \in Nat
    BY <2>3, FS_CardinalityType
  <2>7. num_recv_streams' = count - Cardinality(freed)
    BY <1>1 DEF freed
  <2> QED BY <1>2, <2>2, <2>5, <2>6, <2>7, BoundAssumption
<1>13. Cardinality(AwaitingIn(streams')) <= r
  <2>1. AwaitingIn(streams') = AwaitingIn(str)
    BY <1>4, <1>5, <1>6, VacantFields DEF AwaitingIn, IsReleased
  <2> QED BY <1>2, <2>1
<1> QED BY <1>2, <1>7, <1>8, <1>9, <1>10, <1>11, <1>12, <1>13 DEF Sound

(* Recv::enqueue_reset_expiration: a stream that waits is counted once, and   *)
(* one that is evicted makes room for one.                                    *)
LEMMA EnqueueSound ==
  ASSUME NEW str, NEW linked, NEW count, NEW k \in Keys,
         Sound(str, linked, count, num_reset_streams, {k}),
         EnqueueResetExpiration(str, linked, count, k)
  PROVE  /\ Sound(streams', ids', num_recv_streams', num_reset_streams', {})
         /\ \A j \in Keys : Ends(str[j], streams'[j])
<1> DEFINE queue == AwaitingIn(str)
           With(s, j, b) == [s EXCEPT ![j].is_pending_reset = b]
           due == ~str[k].is_pending_reset
           room == num_reset_streams < MaxResetStreams
           K(e) == {e, k}
(* Setting or clearing the flag of a stream whose transition has still to end. *)
<1>1. ASSUME NEW s, NEW r, NEW q, NEW j \in Keys, NEW b \in BOOLEAN,
             NEW J \in SUBSET Keys, j \in J,
             Sound(s, linked, count, r, J), q \in Int, q <= MaxResetStreams,
             s[j].id # 0,
             Cardinality(AwaitingIn(With(s, j, b))) <= q
      PROVE  Sound(With(s, j, b), linked, count, q, J)
  <2> DEFINE new == With(s, j, b)
  <2>1. s \in [Keys -> Stream] /\ s[j] \in Stream
    BY <1>1 DEF Sound
  <2>2. [s[j] EXCEPT !.is_pending_reset = b] \in Stream
    BY <2>1 DEF Stream
  <2>3. new \in [Keys -> Stream] /\ \A i \in Keys : i # j => new[i] = s[i]
    BY <2>1, <2>2
  <2>4. /\ new[j].id = s[j].id /\ new[j].state = s[j].state
        /\ new[j].is_counted = s[j].is_counted
        /\ SendOK(new[j]) = SendOK(s[j])
    BY <2>1 DEF SendOK, Stream
  <2>5. CountedIn(new) = CountedIn(s)
    BY <2>3, <2>4 DEF CountedIn
  <2> HIDE DEF new
  <2>6. ASSUME NEW i \in Keys
        PROVE  /\ new[i].id = 0 => new[i] = Vacant
               /\ new[i].id # 0 =>
                    /\ SendOK(new[i])
                    /\ ~IsClosed(new[i].state) => new[i].is_counted
                    /\ i \notin J => Settled(new[i], i \in linked)
               /\ i \in linked => new[i].id # 0
    BY <1>1, <2>3, <2>4 DEF Sound
  <2> QED BY <1>1, <2>3, <2>5, <2>6 DEF Sound, new
<1>2. /\ str \in [Keys -> Stream] /\ num_reset_streams \in Int
      /\ num_reset_streams <= MaxResetStreams
      /\ Cardinality(queue) <= num_reset_streams
      /\ \A j \in Keys : str[j].id = 0 => str[j] = Vacant
  BY DEF Sound
<1>3. queue \in SUBSET Keys /\ IsFiniteSet(queue) /\ Cardinality(queue) \in Nat
  BY SlotsAreFinite DEF AwaitingIn
<1>4. CASE TransitionAfter(str, linked, count, {k}) /\ UNCHANGED num_reset_streams
  BY <1>4, TransitionSound
<1>5. CASE /\ due /\ room /\ str[k].id # 0
           /\ TransitionAfter(With(str, k, TRUE), linked, count, {k})
           /\ num_reset_streams' = num_reset_streams + 1
  <2>1. AwaitingIn(With(str, k, TRUE)) = queue \cup {k} /\ k \notin queue
    BY <1>2, <1>5 DEF AwaitingIn, Stream
  <2>2. Cardinality(queue \cup {k}) = Cardinality(queue) + 1
    BY <1>3, <2>1, FS_AddElement
  <2>3. /\ num_reset_streams + 1 \in Int
        /\ num_reset_streams + 1 <= MaxResetStreams
        /\ Cardinality(queue \cup {k}) <= num_reset_streams + 1
    BY <1>2, <1>3, <1>5, <2>2, BoundAssumption
  <2>4. Sound(With(str, k, TRUE), linked, count, num_reset_streams + 1, {k})
    BY <1>1, <1>5, <2>1, <2>3
  <2>5. \A j \in Keys : Ends(With(str, k, TRUE)[j], streams'[j])
                          => Ends(str[j], streams'[j])
    BY <1>2 DEF Ends, Stream
  <2> QED BY <1>5, <2>4, <2>5, TransitionSound
<1>6. CASE /\ due /\ UNCHANGED num_reset_streams /\ str[k].id # 0
           /\ \E e \in queue :
                \/ TransitionAfter(With(str, e, FALSE), linked, count, K(e))
                \/ TransitionAfter(With(With(str, e, FALSE), k, TRUE),
                                   linked, count, K(e))
  <2>1. PICK e \in queue :
          \/ TransitionAfter(With(str, e, FALSE), linked, count, K(e))
          \/ TransitionAfter(With(With(str, e, FALSE), k, TRUE),
                             linked, count, K(e))
    BY <1>6
  <2> DEFINE out == With(str, e, FALSE)
             in == With(out, k, TRUE)
  <2>2. e \in Keys /\ e # k /\ str[e].id # 0
    BY <1>2, <1>3, <1>6, <2>1, VacantFields DEF AwaitingIn
  <2>3. AwaitingIn(out) = queue \ {e} /\ AwaitingIn(in) = (queue \ {e}) \cup {k}
    BY <1>2, <2>2 DEF AwaitingIn, Stream
  <2>4. /\ Cardinality(queue \ {e}) = Cardinality(queue) - 1
        /\ IsFiniteSet(queue \ {e}) /\ k \notin queue \ {e}
    BY <1>3, <1>6, <2>1, FS_RemoveElement, FS_Subset DEF AwaitingIn
  <2>5. Cardinality((queue \ {e}) \cup {k}) = Cardinality(queue)
    <3> DEFINE rest == queue \ {e}
    <3>1. Cardinality(rest \cup {k}) = Cardinality(rest) + 1
      <4>1. IsFiniteSet(rest) /\ k \notin rest
        BY <2>4
      <4> HIDE DEF rest
      <4> QED BY <4>1, FS_AddElement
    <3>2. Cardinality(rest) = Cardinality(queue) - 1
      BY <2>4
    <3> HIDE DEF rest
    <3> QED BY <1>3, <3>1, <3>2 DEF rest
  <2>6. K(e) \in SUBSET Keys /\ e \in K(e) /\ k \in K(e)
    BY <2>2
  <2>7. Sound(str, linked, count, num_reset_streams, K(e))
    BY <2>2 DEF Sound
  <2>8. Sound(out, linked, count, num_reset_streams, K(e))
    <3>1. Cardinality(queue) - 1 <= num_reset_streams
      BY <1>2, <1>3
    <3>2. Cardinality(AwaitingIn(out)) <= num_reset_streams
      BY <2>3, <2>4, <3>1, Zenon
    <3> HIDE DEF K
    <3> QED BY <1>1, <1>2, <2>2, <2>6, <2>7, <3>2
  <2>9. Sound(in, linked, count, num_reset_streams, K(e))
    <3>1. Cardinality(AwaitingIn(in)) <= num_reset_streams
      BY <1>2, <1>3, <2>3, <2>5
    <3>2. out[k].id # 0
      BY <1>2, <1>6, <2>2
    <3> HIDE DEF K, out
    <3> QED BY <1>1, <1>2, <2>6, <2>8, <3>1, <3>2
  <2>10. \A j \in Keys : /\ Ends(out[j], streams'[j]) => Ends(str[j], streams'[j])
                         /\ Ends(in[j], streams'[j]) => Ends(str[j], streams'[j])
    BY <1>2, <2>2 DEF Ends, Stream
  <2>11. TransitionAfter(out, linked, count, K(e))
           \/ TransitionAfter(in, linked, count, K(e))
    BY <2>1
  <2> HIDE DEF out, in, K
  <2> QED BY <1>6, <2>6, <2>8, <2>9, <2>10, <2>11, TransitionSound
<1>7. IsLocalReset(str[k].state) => str[k].id # 0
  BY <1>2 DEF IsLocalReset, Vacant, NewStream, Idle, Value
<1> QED BY <1>4, <1>5, <1>6, <1>7
        DEF EnqueueResetExpiration, CanIncNumResetStreams, AwaitingIn

-----------------------------------------------------------------------------
(* Whole handlers.                                                           *)

\* Slack is the number of handles that a step may take away.
LEMMA SlackType == Slack \in {0, 1}
BY DEF Slack

(* What the body did and what the end of the transition did, together.       *)
LEMMA StepComposes ==
  ASSUME NEW k \in Keys, streams[k] \in Stream, NEW s, NEW t, StepOK(k, s),
         Ends(s, t)
  PROVE  StepOK(k, t)
<1>1. CASE t = Vacant /\ s.ref_count = 0 /\ ~s.is_pending_accept
  <2>1. streams[k].ref_count \in Nat
    BY DEF Stream
  <2>2. Goes(streams[k], s) => streams[k].ref_count <= Slack
    BY <1>1, <2>1, SlackType DEF Goes
  <2>3. Goes(streams[k], s) => MayFree(streams[k])
    BY <1>1, <2>2 DEF Goes, MayFree, Unheld
  <2> QED BY <1>1, <2>3, VacantFields DEF StepOK
<1>2. CASE t # Vacant \/ s.ref_count # 0 \/ s.is_pending_accept
  <2>1. Goes(streams[k], s) => Goes(streams[k], t)
    BY <1>2 DEF Ends, Goes, Unheld
  <2> QED BY <1>2, <2>1 DEF Ends, StepOK, Unheld
<1> QED BY <1>1, <1>2

(* A stream that a handler leaves alone.                                     *)
LEMMA GoesNowhere ==
  ASSUME NEW s \in Stream
  PROVE  Goes(s, s)
<1>1. /\ s.ref_count \in Nat /\ s.in_flight_recv_data \in Nat
      /\ s.recv_flow.window_size \in Int
  BY DEF Stream, FlowControl
<1> QED BY <1>1, SlackType DEF Goes

\* What SlabInv says of one slot.
LEMMA SoundSlot ==
  ASSUME SlabInv
  PROVE  /\ streams \in [Keys -> Stream] /\ ids \subseteq Keys
         /\ \A k \in Keys :
              /\ streams[k] \in Stream
              /\ streams[k].id = 0 => streams[k] = Vacant
              /\ streams[k].id # 0 =>
                   SendOK(streams[k]) /\ Settled(streams[k], k \in ids)
         /\ \A k \in ids : streams[k].id # 0
         /\ num_reset_streams \in Int /\ num_recv_streams \in Int
BY DEF SlabInv, Sound

(* Counts: the body of a handler that moves streams and ends the transition   *)
(* of those in K leaves the slab as the end of the transition expects it.     *)
LEMMA MoveSound ==
  ASSUME SlabInv, NEW new \in [Keys -> Stream], NEW K \in SUBSET Keys, NEW r,
         \A k \in Keys :
           \/ new[k] = streams[k]
           \/ /\ streams[k].id # 0 /\ Moves(streams[k], new[k])
              /\ k \in K \/ Stays(streams[k], new[k]),
         r \in Int, r <= MaxResetStreams, Cardinality(AwaitingIn(new)) <= r
  PROVE  /\ Sound(new, ids, num_recv_streams, r, K)
         /\ \A k \in Keys : StepOK(k, new[k])
<1>1. /\ streams \in [Keys -> Stream] /\ \A k \in Keys : streams[k] \in Stream
      /\ \A k \in Keys : streams[k].id = 0 => streams[k] = Vacant
  BY SoundSlot
<1>2. \A k \in Keys : /\ new[k].id = streams[k].id
                      /\ new[k].is_counted = streams[k].is_counted
                      /\ IsClosed(streams[k].state) => IsClosed(new[k].state)
  BY DEF Moves, Goes
<1>3. CountedIn(new) = CountedIn(streams)
  BY <1>2 DEF CountedIn
<1>4. ASSUME NEW k \in Keys
      PROVE  /\ new[k].id = 0 => new[k] = Vacant
             /\ k \in ids => new[k].id # 0
             /\ new[k].id # 0 =>
                  /\ SendOK(new[k])
                  /\ ~IsClosed(new[k].state) => new[k].is_counted
                  /\ k \notin K => Settled(new[k], k \in ids)
  <2>1. CASE new[k] = streams[k]
    BY <2>1 DEF SlabInv, Sound
  <2>2. CASE /\ streams[k].id # 0 /\ Moves(streams[k], new[k])
             /\ k \in K \/ Stays(streams[k], new[k])
    <3>1. /\ ~IsClosed(streams[k].state) => streams[k].is_counted
          /\ Settled(streams[k], k \in ids)
      BY <2>2 DEF SlabInv, Sound
    <3>2. Stays(streams[k], new[k]) => Settled(new[k], k \in ids)
      BY <1>2, <3>1 DEF Stays, Settled
    <3> QED BY <1>2, <2>2, <3>1, <3>2 DEF Moves
  <2> QED BY <2>1, <2>2
<1>5. ASSUME NEW k \in Keys PROVE StepOK(k, new[k])
  <2>1. CASE new[k] = streams[k] /\ streams[k].id # 0
    BY <1>1, <2>1, GoesNowhere DEF StepOK
  <2>2. CASE new[k] = streams[k] /\ streams[k].id = 0
    BY <1>1, <2>2, SlackType, VacantFields DEF StepOK
  <2> QED BY <2>1, <2>2 DEF StepOK, Moves
<1> QED BY <1>3, <1>4, <1>5 DEF Sound, SlabInv

(* What is shown of every handler.                                           *)
Preserves == SlabInv' /\ StepsOK

(* What is shown besides of the handlers that change the data in flight: only *)
(* slot k may change what it has in flight, by as much as the connection      *)
(* does.                                                                      *)
FlightOf(k) ==
  /\ \A j \in Keys : j # k =>
       streams'[j].in_flight_recv_data = streams[j].in_flight_recv_data
  /\ streams'[k].in_flight_recv_data - streams[k].in_flight_recv_data
       = in_flight_data' - in_flight_data

SlabHeld == \A k \in Slab : Unheld(streams[k])

Accounts(k) == SlabHeld /\ conn' # "dropped" => FlightOf(k)

\* A step that leaves the slab alone.
LEMMA SlabStutter ==
  ASSUME SlabInv, UNCHANGED store
  PROVE  Preserves
<1>1. SlabInv'
  BY DEF SlabInv, store
<1>2. ASSUME NEW k \in Keys PROVE StepOK(k, streams'[k])
  <2>1. streams'[k] = streams[k] /\ streams[k] \in Stream
    BY SoundSlot DEF store
  <2> QED BY <2>1, GoesNowhere DEF StepOK
<1> QED BY <1>1, <1>2 DEF Preserves, StepsOK

\* A handler that moves streams, with or without the end of a transition.
LEMMA MoveStep ==
  ASSUME SlabInv, NEW new \in [Keys -> Stream], NEW K \in SUBSET Keys,
         \A k \in Keys :
           \/ new[k] = streams[k]
           \/ /\ streams[k].id # 0 /\ Moves(streams[k], new[k])
              /\ k \in K \/ Stays(streams[k], new[k]),
         \/ /\ K = {} /\ streams' = new
            /\ UNCHANGED <<ids, num_recv_streams, num_reset_streams>>
         \/ /\ TransitionAfter(new, ids, num_recv_streams, K)
            /\ UNCHANGED num_reset_streams
         \/ \E k \in Keys :
              K = {k} /\ EnqueueResetExpiration(new, ids, num_recv_streams, k)
  PROVE  Preserves /\ \A k \in Keys : Ends(new[k], streams'[k])
<1>1. AwaitingIn(new) \subseteq AwaitingIn(streams)
  BY DEF AwaitingIn, Moves
<1>2. /\ AwaitingIn(new) \in SUBSET Keys /\ AwaitingIn(streams) \in SUBSET Keys
      /\ Cardinality(AwaitingIn(streams)) <= num_reset_streams
      /\ num_reset_streams \in Int /\ num_reset_streams <= MaxResetStreams
  BY DEF AwaitingIn, SlabInv, Sound
<1>3. Cardinality(AwaitingIn(new)) <= num_reset_streams
  <2>1. /\ Cardinality(AwaitingIn(new)) <= Cardinality(AwaitingIn(streams))
        /\ Cardinality(AwaitingIn(new)) \in Nat
        /\ Cardinality(AwaitingIn(streams)) \in Nat
    BY <1>1, <1>2, SlotsAreFinite
  <2> QED BY <1>2, <2>1
<1>4. /\ Sound(new, ids, num_recv_streams, num_reset_streams, K)
      /\ \A k \in Keys : StepOK(k, new[k])
  BY <1>2, <1>3, MoveSound
<1>5. CASE /\ K = {} /\ streams' = new
           /\ UNCHANGED <<ids, num_recv_streams, num_reset_streams>>
  BY <1>4, <1>5 DEF Preserves, StepsOK, SlabInv, Ends
<1>6. ASSUME /\ Sound(streams', ids', num_recv_streams', num_reset_streams', {})
             /\ \A k \in Keys : Ends(new[k], streams'[k])
      PROVE  Preserves /\ \A k \in Keys : Ends(new[k], streams'[k])
  BY <1>4, <1>6, StepComposes, SoundSlot DEF Preserves, StepsOK, SlabInv
<1>7. CASE /\ TransitionAfter(new, ids, num_recv_streams, K)
           /\ UNCHANGED num_reset_streams
  BY <1>4, <1>6, <1>7, TransitionSound
<1>8. CASE \E k \in Keys :
             K = {k} /\ EnqueueResetExpiration(new, ids, num_recv_streams, k)
  BY <1>4, <1>6, <1>8, EnqueueSound
<1> QED BY <1>5, <1>7, <1>8

\* The same for a handler of one stream.
LEMMA MoveOne ==
  ASSUME SlabInv, NEW k \in Keys, streams[k].id # 0, NEW t, Moves(streams[k], t),
         \/ /\ streams' = [streams EXCEPT ![k] = t] /\ Stays(streams[k], t)
            /\ UNCHANGED <<ids, num_recv_streams, num_reset_streams>>
         \/ /\ Transition([streams EXCEPT ![k] = t], k)
            /\ UNCHANGED num_reset_streams
         \/ EnqueueResetExpiration([streams EXCEPT ![k] = t],
                                   ids, num_recv_streams, k)
  PROVE  /\ Preserves
         /\ t.in_flight_recv_data - streams[k].in_flight_recv_data
              = in_flight_data' - in_flight_data => Accounts(k)
<1> DEFINE new == [streams EXCEPT ![k] = t]
<1>1. new \in [Keys -> Stream]
  BY SoundSlot DEF Moves
<1>2. new[k] = t /\ \A j \in Keys : j # k => new[j] = streams[j]
  BY SoundSlot
<1>3. {k} \in SUBSET Keys /\ {} \in SUBSET Keys
  OBVIOUS
<1>4. ASSUME /\ streams' = new /\ Stays(streams[k], t)
             /\ UNCHANGED <<ids, num_recv_streams, num_reset_streams>>
      PROVE  Preserves /\ \A j \in Keys : Ends(new[j], streams'[j])
  <2> HIDE DEF new
  <2>1. \A j \in Keys :
          \/ new[j] = streams[j]
          \/ /\ streams[j].id # 0 /\ Moves(streams[j], new[j])
             /\ j \in {} \/ Stays(streams[j], new[j])
    BY <1>2, <1>4
  <2> QED BY <1>1, <1>3, <1>4, <2>1, MoveStep
<1>5. ASSUME \/ /\ Transition(new, k)
                /\ UNCHANGED num_reset_streams
             \/ EnqueueResetExpiration(new, ids, num_recv_streams, k)
      PROVE  Preserves /\ \A j \in Keys : Ends(new[j], streams'[j])
  <2> HIDE DEF new
  <2>1. \A j \in Keys :
          \/ new[j] = streams[j]
          \/ /\ streams[j].id # 0 /\ Moves(streams[j], new[j])
             /\ j \in {k} \/ Stays(streams[j], new[j])
    BY <1>2
  <2> QED BY <1>1, <1>3, <1>5, <2>1, MoveStep DEF Transition
<1>6. Preserves /\ \A j \in Keys : Ends(new[j], streams'[j])
  BY <1>4, <1>5
<1>7. ASSUME /\ t.in_flight_recv_data - streams[k].in_flight_recv_data
                  = in_flight_data' - in_flight_data
             /\ SlabHeld /\ conn' # "dropped"
      PROVE  FlightOf(k)
  <2> HIDE DEF new
  <2>1. Vacant.in_flight_recv_data = 0
    BY DEF Vacant, NewStream
  <2>2. \A j \in Keys : streams[j].id = 0 => streams[j] = Vacant
    BY SoundSlot
  <2>3. Unheld(t)
    BY <1>7 DEF SlabHeld, Slab, Moves, Goes
  <2>4. ASSUME NEW j \in Keys, j # k
        PROVE  streams'[j].in_flight_recv_data = streams[j].in_flight_recv_data
    <3>1. Ends(streams[j], streams'[j])
      BY <1>2, <1>6, <2>4
    <3> QED BY <1>7, <2>1, <2>2, <3>1 DEF Ends, Unheld, SlabHeld, Slab
  <2>5. streams'[k].in_flight_recv_data = t.in_flight_recv_data
    <3>1. Ends(t, streams'[k])
      BY <1>2, <1>6
    <3> QED BY <2>1, <2>3, <3>1 DEF Ends, Unheld
  <2> QED BY <1>7, <2>4, <2>5 DEF FlightOf
<1> QED BY <1>6, <1>7 DEF Accounts

(* Store::insert of a stream that is new, and the end of its transition.     *)
LEMMA InsertStep ==
  ASSUME SlabInv, NEW k \in Free, NEW t \in Stream, t.id # 0, SendOK(t),
         Unheld(t), ~t.is_pending_reset, t.in_flight_recv_data = 0,
         ~IsClosed(t.state) => t.is_counted /\ t.id <= last_processed_id',
         NEW count,
         count = IF t.is_counted THEN num_recv_streams + 1 ELSE num_recv_streams,
         count <= MaxRecvStreams,
         \/ /\ TransitionAfter([streams EXCEPT ![k] = t], ids \cup {k}, count, {k})
            /\ UNCHANGED num_reset_streams
         \/ EnqueueResetExpiration([streams EXCEPT ![k] = t], ids \cup {k},
                                   count, k)
  PROVE  Preserves
<1> DEFINE new == [streams EXCEPT ![k] = t]
<1>1. k \in Keys /\ streams[k].id = 0 /\ streams[k] = Vacant
  BY SoundSlot DEF Free, Slab
<1>2. new \in [Keys -> Stream]
  BY <1>1, SoundSlot
<1>3. new[k] = t /\ \A j \in Keys : j # k => new[j] = streams[j]
  BY <1>1, SoundSlot
<1> HIDE DEF new
<1>4. /\ count \in Int /\ count = Cardinality(CountedIn(new))
  <2>1. /\ CountedIn(streams) \in SUBSET Keys /\ num_recv_streams \in Int
        /\ num_recv_streams = Cardinality(CountedIn(streams))
    BY DEF SlabInv, Sound, CountedIn
  <2>2. k \notin CountedIn(streams) /\ IsFiniteSet(CountedIn(streams))
    BY <1>1, <2>1, VacantFields, SlotsAreFinite DEF CountedIn
  <2>3. CASE t.is_counted
    <3>1. CountedIn(new) = CountedIn(streams) \cup {k}
      BY <1>1, <1>3, <2>3 DEF CountedIn
    <3>2. Cardinality(CountedIn(streams) \cup {k})
            = Cardinality(CountedIn(streams)) + 1
      BY <2>2, FS_AddElement
    <3> QED BY <2>1, <2>3, <3>1, <3>2
  <2>4. CASE ~t.is_counted
    <3>1. CountedIn(new) = CountedIn(streams)
      BY <1>1, <1>3, <2>2, <2>4 DEF CountedIn
    <3> QED BY <2>1, <2>4, <3>1
  <2> QED BY <2>3, <2>4
<1>5. AwaitingIn(new) = AwaitingIn(streams)
  BY <1>1, <1>3, VacantFields DEF AwaitingIn
<1>6. ASSUME NEW j \in Keys
      PROVE  /\ new[j].id = 0 => new[j] = Vacant
             /\ j \in ids \cup {k} => new[j].id # 0
             /\ new[j].id # 0 =>
                  /\ SendOK(new[j])
                  /\ ~IsClosed(new[j].state) => new[j].is_counted
                  /\ j \notin {k} => Settled(new[j], j \in ids \cup {k})
  BY <1>1, <1>3 DEF SlabInv, Sound
<1>7. Sound(new, ids \cup {k}, count, num_reset_streams, {k})
  BY <1>1, <1>2, <1>4, <1>5, <1>6 DEF SlabInv, Sound
<1>8. ASSUME NEW j \in Keys PROVE StepOK(j, new[j])
  BY <1>1, <1>3, SoundSlot, GoesNowhere DEF StepOK
<1>9. {k} \in SUBSET Keys /\ \A j \in Keys : streams[j] \in Stream
  BY <1>1, SoundSlot
<1>10. /\ Sound(streams', ids', num_recv_streams', num_reset_streams', {})
       /\ \A j \in Keys : Ends(new[j], streams'[j])
  BY <1>1, <1>7, <1>9, TransitionSound, EnqueueSound DEF new
<1> QED BY <1>8, <1>9, <1>10, StepComposes DEF Preserves, StepsOK, SlabInv

(* Send::send_reset, Send::schedule_implicit_reset and Send::handle_error.   *)
LEMMA ClosingMoves ==
  ASSUME NEW s \in Stream, SendOK(s)
  PROVE  /\ Moves(s, SendReset(s)) /\ Moves(s, ScheduleImplicitReset(s))
         /\ \A c \in Causes : Moves(s, Abort(s, c))
<1>1. /\ s.ref_count \in Nat /\ s.in_flight_recv_data \in Nat
      /\ s.recv_flow.window_size \in Int
  BY DEF Stream, FlowControl
<1>2. \A t : Closes(s, t) /\ t.ref_count = s.ref_count
                 /\ t.in_flight_recv_data = s.in_flight_recv_data
                 /\ t.recv_flow = s.recv_flow
                 /\ t.is_pending_accept = s.is_pending_accept
               => Goes(s, t)
  BY <1>1, SlackType DEF Goes, Closes, Unheld
<1>3. Moves(s, SendReset(s))
  <2>1. Goes(s, SendReset(s))
    BY <1>2, ClosingOps DEF SendReset, Stream
  <2> QED BY <2>1, ClosingOps, ClosedValues
          DEF Moves, Closes, SendReset, SendOK, Stream, FullyClosed
<1>4. Moves(s, ScheduleImplicitReset(s))
  <2>1. Goes(s, ScheduleImplicitReset(s))
    BY <1>2, ClosingOps DEF ScheduleImplicitReset, Stream
  <2> QED BY <2>1, ClosingOps
          DEF Moves, Closes, ScheduleImplicitReset, SendOK, Stream
<1>5. ASSUME NEW c \in Causes PROVE Moves(s, Abort(s, c))
  <2>1. Goes(s, Abort(s, c))
    BY <1>2, ClosingOps DEF Abort, Stream
  <2> QED BY <2>1, ClosingOps DEF Moves, Closes, Abort, SendOK, Stream
<1> QED BY <1>3, <1>4, <1>5

-----------------------------------------------------------------------------
(* The handlers.                                                             *)

\* A slot to which something refers is occupied.
LEMMA Occupied ==
  ASSUME SlabInv, NEW k \in Keys,
         \/ k \in ids \/ streams[k].ref_count # 0
         \/ streams[k].is_pending_reset \/ streams[k].is_pending_send
         \/ streams[k].is_pending_accept \/ streams[k].is_pending_window_update
  PROVE  /\ streams[k].id # 0 /\ streams[k] \in Stream
         /\ SendOK(streams[k]) /\ Settled(streams[k], k \in ids)
BY SoundSlot, VacantFields

\* DynStreams::handle_error
LEMMA SlabHandleError ==
  ASSUME SlabInv, NEW c \in Causes, HandleErrorAll(c), UNCHANGED num_reset_streams
  PROVE  Preserves
<1> DEFINE new == [k \in Keys |-> IF k \in ids THEN Abort(streams[k], c)
                                               ELSE streams[k]]
<1>1. ASSUME NEW k \in Keys
      PROVE  \/ k \notin ids /\ new[k] = streams[k]
             \/ /\ k \in ids /\ streams[k].id # 0 /\ Moves(streams[k], new[k])
  BY <1>1, Occupied, ClosingMoves
<1>2. new \in [Keys -> Stream] /\ ids \in SUBSET Keys
  BY <1>1, SoundSlot DEF Moves
<1>3. TransitionAfter(new, ids, num_recv_streams, ids)
  BY DEF HandleErrorAll
<1> HIDE DEF new
<1> QED BY <1>1, <1>2, <1>3, MoveStep

\* Streams::send_reset
LEMMA SlabStreamError ==
  ASSUME SlabInv, NEW i \in StreamId, StreamError(i)
  PROVE  Preserves
<1>1. CASE Find(i) # {}
  <2>1. PICK k \in Find(i) :
          EnqueueResetExpiration([streams EXCEPT ![k] = SendReset(@)],
                                 ids, num_recv_streams, k)
    BY <1>1 DEF StreamError
  <2>2. k \in Keys /\ k \in ids
    BY SoundSlot DEF Find
  <2>3. Moves(streams[k], SendReset(streams[k])) /\ streams[k].id # 0
    BY <2>2, Occupied, ClosingMoves
  <2> QED BY <2>1, <2>2, <2>3, MoveOne
<1>2. CASE Find(i) = {}
  <2> DEFINE n == NewStream(i, 0)
             t == SendReset(n)
  <2>1. PICK k \in Free :
          EnqueueResetExpiration([streams EXCEPT ![k] = t],
                                 ids \cup {k}, num_recv_streams, k)
    BY <1>2 DEF StreamError
  <2>2. i \in Nat /\ i # 0
    BY BoundAssumption DEF StreamId
  <2>3. /\ n \in Stream /\ n.id = i /\ ~n.is_counted /\ ~n.is_pending_reset
        /\ n.in_flight_recv_data = 0 /\ SendOK(n)
    BY <2>2, NewStreamType DEF NewStream, SendOK
  <2> HIDE DEF n
  <2>4. /\ t \in Stream /\ t.id = i /\ IsClosed(t.state) /\ ~t.is_counted
        /\ ~t.is_pending_reset /\ SendOK(t) /\ t.in_flight_recv_data = 0
    <3>1. Moves(n, t) /\ Closes(n, t)
      BY <2>3, ClosingMoves, ClosingOps
    <3>2. t.in_flight_recv_data = n.in_flight_recv_data
      BY <2>3 DEF SendReset, Stream
    <3> QED BY <2>3, <3>1, <3>2 DEF Moves, Closes
  <2>5. num_recv_streams <= MaxRecvStreams
    BY DEF SlabInv, Sound
  <2> HIDE DEF t
  <2> QED BY <2>1, <2>2, <2>4, <2>5, InsertStep DEF Unheld
<1> QED BY <1>1, <1>2

\* A poll of the connection up to the next frame.
LEMMA SlabPoll ==
  ASSUME SlabInv, Poll
  PROVE  Preserves
<1>1. CASE BeginPoll \/ PollReady \/ NotReady \/ GoAwaySent \/ NoFrame
  BY <1>1, SlabStutter
  DEF BeginPoll, PollReady, NotReady, GoAwaySent, NoFrame
<1>2. CASE IoError
  BY <1>2, SlabHandleError DEF IoError, Causes
<1>3. ASSUME NEW k \in Keys, ExpireReset(k)
      PROVE  Preserves
  <2> DEFINE s == streams[k]
             t == [s EXCEPT !.is_pending_reset = FALSE]
             new == [streams EXCEPT ![k] = t]
             r == num_reset_streams - (IF FullyClosed(s) THEN 1 ELSE 0)
  <2>1. /\ s.is_pending_reset /\ TransitionAfter(new, ids, num_recv_streams, {k})
        /\ num_reset_streams' = r
    BY <1>3 DEF ExpireReset, Transition
  <2>2. s \in Stream /\ s.id # 0 /\ SendOK(s)
    BY <2>1, Occupied
  <2>3. Moves(s, t)
    <3>1. /\ t \in Stream /\ t.id = s.id /\ t.state = s.state
          /\ t.ref_count = s.ref_count /\ t.recv_flow = s.recv_flow
          /\ t.in_flight_recv_data = s.in_flight_recv_data
          /\ t.is_pending_accept = s.is_pending_accept
          /\ SendOK(t) = SendOK(s) /\ t.is_counted = s.is_counted
          /\ ~t.is_pending_reset
      BY <2>2 DEF Stream, SendOK
    <3>2. Goes(s, s)
      BY <2>2, GoesNowhere
    <3> HIDE DEF t, s
    <3>3. Goes(s, t)
      BY <3>1, <3>2 DEF Goes, Unheld
    <3> QED BY <2>2, <3>1, <3>3 DEF Moves
  <2>4. /\ new \in [Keys -> Stream] /\ new[k] = t
        /\ \A j \in Keys : j # k => new[j] = streams[j]
    BY <2>3, SoundSlot DEF Moves
  <2>5. AwaitingIn(new) = AwaitingIn(streams) \ {k} /\ k \in AwaitingIn(streams)
    BY <2>1, <2>2, <2>4 DEF AwaitingIn, Stream
  <2>6. /\ Cardinality(AwaitingIn(new)) = Cardinality(AwaitingIn(streams)) - 1
        /\ Cardinality(AwaitingIn(streams)) \in Nat
    <3>1. AwaitingIn(streams) \in SUBSET Keys
      BY DEF AwaitingIn
    <3>2. /\ IsFiniteSet(AwaitingIn(streams))
          /\ Cardinality(AwaitingIn(streams)) \in Nat
      BY <3>1, SlotsAreFinite
    <3> HIDE DEF new
    <3> QED BY <2>5, <3>2, FS_RemoveElement
  <2>7. /\ num_reset_streams \in Int /\ num_reset_streams <= MaxResetStreams
        /\ Cardinality(AwaitingIn(streams)) <= num_reset_streams
    BY DEF SlabInv, Sound, AwaitingIn
  <2>8. /\ r \in Int /\ r <= MaxResetStreams
        /\ Cardinality(AwaitingIn(new)) <= r
    <3> HIDE DEF new, s
    <3> QED BY <2>6, <2>7, BoundAssumption
  <2>9. {k} \in SUBSET Keys /\ \A j \in Keys : streams[j] \in Stream
    BY SoundSlot
  <2>10. Sound(new, ids, num_recv_streams, r, {k})
           /\ \A j \in Keys : StepOK(j, new[j])
    <3>1. \A j \in Keys :
            \/ new[j] = streams[j]
            \/ /\ streams[j].id # 0 /\ Moves(streams[j], new[j])
               /\ j \in {k} \/ Stays(streams[j], new[j])
      BY <2>2, <2>3, <2>4
    <3> HIDE DEF new, r
    <3> QED BY <2>4, <2>8, <2>9, <3>1, MoveSound
  <2> HIDE DEF new, r
  <2>11. /\ Sound(streams', ids', num_recv_streams', r, {})
         /\ \A j \in Keys : Ends(new[j], streams'[j])
    BY <2>1, <2>9, <2>10, TransitionSound
  <2> QED BY <2>1, <2>9, <2>10, <2>11, StepComposes
          DEF Preserves, StepsOK, SlabInv
<1> QED BY <1>1, <1>2, <1>3 DEF Poll

(* HEADERS that open a stream: accepted, malformed or over size.             *)
LEMMA SlabHeaders ==
  ASSUME SlabInv, StoreInv, last_processed_id \in Nat,
         NEW i \in StreamId, NEW eos \in BOOLEAN, RecvHeaders(i, eos)
  PROVE  Preserves
<1> DEFINE s == Opened(i, eos)
           answered == [s EXCEPT !.state = SendOpen(@, TRUE),
                                 !.pending_send = TRUE,
                                 !.is_pending_send = TRUE]
           accepted == [s EXCEPT !.is_pending_accept = TRUE]
           count == num_recv_streams + 1
           Done1(k, t) ==
             \/ /\ TransitionAfter([streams EXCEPT ![k] = t],
                                   ids \cup {k}, count, {k})
                /\ UNCHANGED num_reset_streams
             \/ EnqueueResetExpiration([streams EXCEPT ![k] = t],
                                       ids \cup {k}, count, k)
<1>1. PICK k \in Free :
        \/ Done1(k, accepted) \/ Done1(k, SendReset(s))
        \/ Done1(k, ScheduleImplicitReset(answered))
  BY DEF RecvHeaders
<1>2. /\ i \in Nat /\ i # 0 /\ i <= last_processed_id'
      /\ num_recv_streams \in Int /\ count <= MaxRecvStreams
  BY SoundSlot, BoundAssumption DEF RecvHeaders, StreamId, CanIncNumRecvStreams
<1>3. /\ s \in Stream /\ s.id = i /\ s.is_counted /\ ~s.is_pending_reset
      /\ ~s.buffered_send_data /\ ~s.is_pending_send
      /\ s.in_flight_recv_data = 0
  <2>1. s \in Stream /\ s.id = i
    BY OpenedType
  <2> QED BY <2>1 DEF Opened, NewStream, Stream
<1> HIDE DEF s
<1>4. ASSUME NEW t \in Stream, t.id = i, t.is_counted, ~t.is_pending_reset,
             SendOK(t), Unheld(t), t.in_flight_recv_data = 0, Done1(k, t)
      PROVE  Preserves
  BY <1>2, <1>4, InsertStep
<1>5. /\ accepted \in Stream /\ accepted.id = i /\ accepted.is_counted
      /\ ~accepted.is_pending_reset /\ SendOK(accepted) /\ Unheld(accepted)
      /\ accepted.in_flight_recv_data = 0
  BY <1>3 DEF Stream, SendOK, Unheld
<1>6. /\ SendReset(s) \in Stream /\ SendReset(s).id = i
      /\ SendReset(s).is_counted /\ ~SendReset(s).is_pending_reset
      /\ SendOK(SendReset(s)) /\ Unheld(SendReset(s))
      /\ SendReset(s).in_flight_recv_data = 0
  <2>1. Moves(s, SendReset(s)) /\ Closes(s, SendReset(s))
    BY <1>3, ClosingMoves, ClosingOps DEF SendOK
  <2>2. SendReset(s).in_flight_recv_data = 0
    BY <1>3 DEF SendReset, Stream
  <2> QED BY <1>3, <2>1, <2>2 DEF Moves, Closes, Unheld
<1>7. /\ ScheduleImplicitReset(answered) \in Stream
      /\ ScheduleImplicitReset(answered).id = i
      /\ ScheduleImplicitReset(answered).is_counted
      /\ ~ScheduleImplicitReset(answered).is_pending_reset
      /\ SendOK(ScheduleImplicitReset(answered))
      /\ Unheld(ScheduleImplicitReset(answered))
      /\ ScheduleImplicitReset(answered).in_flight_recv_data = 0
  <2>1. SendOpen(s.state, TRUE) \in State
    BY OpenedType, RecvOpenType DEF s
  <2>2. /\ answered \in Stream /\ answered.id = i /\ answered.is_counted
        /\ ~answered.is_pending_reset /\ SendOK(answered)
        /\ answered.in_flight_recv_data = 0
    BY <1>3, <2>1 DEF Stream, SendOK
  <2> HIDE DEF answered
  <2>3. /\ Moves(answered, ScheduleImplicitReset(answered))
        /\ Closes(answered, ScheduleImplicitReset(answered))
    BY <2>2, ClosingMoves, ClosingOps
  <2>4. ScheduleImplicitReset(answered).in_flight_recv_data = 0
    BY <2>2 DEF ScheduleImplicitReset, Stream
  <2> QED BY <2>2, <2>3, <2>4 DEF Moves, Closes, Unheld
<1> HIDE DEF answered, accepted, Done1
<1> QED BY <1>1, <1>4, <1>5, <1>6, <1>7

(* A handler that leaves a stream's handles, counters and data where they    *)
(* are, or whose stream was open and stays held.                             *)
LEMMA GoesOn ==
  ASSUME NEW s \in Stream, NEW t \in Stream, t.id = s.id,
         IsClosed(s.state) => IsClosed(t.state),
         t.ref_count = s.ref_count, t.is_pending_accept = s.is_pending_accept,
         \/ t.in_flight_recv_data = s.in_flight_recv_data
         \/ in_flight_data' # in_flight_data /\ ~IsClosed(s.state),
         \/ t.recv_flow.window_size <= s.recv_flow.window_size
         \/ init_window_sz' > init_window_sz
         \/ ~IsClosed(s.state)
  PROVE  Goes(s, t)
<1>1. /\ s.ref_count \in Nat /\ s.in_flight_recv_data \in Nat
      /\ IsLocalReset(s.state) => IsClosed(s.state)
  BY LocalResetIsClosed DEF Stream
<1> QED BY <1>1, SlackType DEF Goes, Unheld

\* Trailers, DATA, RST_STREAM and WINDOW_UPDATE of one stream.
LEMMA SlabFrame ==
  ASSUME SlabInv, in_flight_data \in Int, NEW k \in Keys,
         \/ \E bad \in BOOLEAN : RecvTrailers(k, bad)
         \/ \E sz \in Sizes :
              \/ RecvDataReset(k, sz)
              \/ \E b \in BOOLEAN : RecvDataError(k, sz, b) \/ RecvData(k, sz, b)
         \/ RecvRstStream(k) \/ RecvWindowUpdate(k) \/ RecvWindowUpdateError(k)
  PROVE  /\ Preserves
         /\ (\E sz \in Sizes, eos \in BOOLEAN : RecvData(k, sz, eos)) => Accounts(k)
<1> DEFINE s == streams[k]
<1>0. /\ s \in Stream /\ s.id # 0 /\ SendOK(s) /\ s.state \in State
      /\ s.recv_flow.window_size \in Int /\ s.ref_count \in Nat
      /\ s.in_flight_recv_data \in Nat
  <2>1. k \in ids
    BY DEF RecvTrailers, RecvDataReset, RecvDataError, RecvData, RecvRstStream,
           RecvWindowUpdate, RecvWindowUpdateError
  <2>2. s \in Stream /\ s.id # 0 /\ SendOK(s)
    BY <2>1, Occupied
  <2> QED BY <2>2 DEF Stream, FlowControl
<1>1. ASSUME NEW bad \in BOOLEAN, RecvTrailers(k, bad)
      PROVE  Preserves
  <2> DEFINE u == [s EXCEPT !.state = RecvClose(@)]
             t == IF bad THEN SendReset(u) ELSE u
  <2>1. RecvClose(s.state) \in State /\ ~IsClosed(s.state)
    BY <1>0, <1>1, RecvCloseType DEF RecvTrailers
  <2>2. /\ u \in Stream /\ u.id = s.id /\ u.ref_count = s.ref_count
        /\ u.is_pending_accept = s.is_pending_accept /\ SendOK(u)
        /\ u.in_flight_recv_data = s.in_flight_recv_data
        /\ u.is_counted = s.is_counted
        /\ u.is_pending_reset = s.is_pending_reset
    BY <1>0, <2>1 DEF Stream, SendOK
  <2> HIDE DEF u
  <2>3. Goes(s, u) /\ Moves(s, u)
    BY <1>0, <2>1, <2>2, GoesOn DEF Moves
  <2>4. Moves(u, SendReset(u)) /\ SendReset(u).ref_count = u.ref_count
          /\ SendReset(u).is_pending_accept = u.is_pending_accept
          /\ SendReset(u).in_flight_recv_data = u.in_flight_recv_data
    BY <2>2, ClosingMoves DEF SendReset, Stream
  <2>5. Moves(s, SendReset(u))
    <3>1. /\ SendReset(u) \in Stream /\ SendReset(u).id = s.id
          /\ SendReset(u).is_counted = s.is_counted /\ SendOK(SendReset(u))
          /\ SendReset(u).is_pending_reset => s.is_pending_reset
      BY <2>2, <2>4 DEF Moves, Goes
    <3>2. Goes(s, SendReset(u))
      BY <1>0, <2>1, <2>2, <2>4, <3>1, GoesOn
    <3> QED BY <3>1, <3>2 DEF Moves
  <2>6. /\ Transition([streams EXCEPT ![k] = t], k)
        /\ UNCHANGED num_reset_streams
    BY <1>1 DEF RecvTrailers, u
  <2> QED BY <1>0, <2>3, <2>5, <2>6, MoveOne
<1>2. ASSUME NEW sz \in Sizes, RecvDataReset(k, sz)
      PROVE  Preserves
  <2>1. Moves(s, s)
    BY <1>0, GoesNowhere DEF Moves
  <2>2. streams = [streams EXCEPT ![k] = s]
    BY SoundSlot
  <2>3. Transition(streams, k) /\ UNCHANGED num_reset_streams
    BY <1>2 DEF RecvDataReset
  <2> QED BY <1>0, <2>1, <2>2, <2>3, MoveOne
<1>3. ASSUME NEW sz \in Sizes, NEW bad \in BOOLEAN, RecvDataError(k, sz, bad)
      PROVE  Preserves
  <2>1. /\ Transition([streams EXCEPT ![k] = SendReset(s)], k)
        /\ UNCHANGED num_reset_streams
    BY <1>3 DEF RecvDataError
  <2> QED BY <1>0, <2>1, ClosingMoves, MoveOne
<1>4. ASSUME NEW sz \in Sizes, NEW eos \in BOOLEAN, RecvData(k, sz, eos)
      PROVE  Preserves /\ Accounts(k)
  <2> DEFINE u == [s EXCEPT !.state = IF eos THEN RecvClose(@) ELSE @]
             buffered == [u EXCEPT !.recv_flow = SendData(@, sz),
                                   !.in_flight_recv_data = @ + sz]
  <2>1. CanRecvClose(s.state) /\ ~IsClosed(s.state)
    BY <1>0, <1>4, RecvStreamingCanClose DEF RecvData
  <2>2. /\ u \in Stream /\ u.id = s.id /\ u.ref_count = s.ref_count
        /\ u.is_pending_accept = s.is_pending_accept /\ SendOK(u)
        /\ u.in_flight_recv_data = s.in_flight_recv_data
        /\ u.is_counted = s.is_counted
        /\ u.is_pending_reset = s.is_pending_reset
    <3>1. RecvClose(s.state) \in State
      BY <1>0, <2>1, RecvCloseType
    <3> QED BY <1>0, <2>1, <3>1 DEF Stream, SendOK
  <2> HIDE DEF u
  <2>3. Moves(s, u)
    BY <1>0, <2>1, <2>2, GoesOn DEF Moves
  <2>4. /\ buffered \in Stream /\ buffered.id = u.id
        /\ buffered.ref_count = u.ref_count
        /\ buffered.is_pending_accept = u.is_pending_accept
        /\ buffered.in_flight_recv_data = u.in_flight_recv_data + sz
        /\ SendOK(buffered) = SendOK(u)
        /\ buffered.is_counted = u.is_counted
        /\ buffered.is_pending_reset = u.is_pending_reset
    <3>1. sz \in Nat
      BY WindowAssumption
    <3>2. u.recv_flow \in FlowControl /\ u.in_flight_recv_data \in Nat
      BY <2>2 DEF Stream
    <3>3. SendData(u.recv_flow, sz) \in FlowControl
            /\ u.in_flight_recv_data + sz \in Nat
      BY <3>1, <3>2 DEF FlowControl, SendData
    <3> QED BY <2>2, <3>3 DEF Stream, SendOK
  <2> HIDE DEF buffered
  <2>5. ASSUME in_flight_data' = in_flight_data + sz
        PROVE  Moves(s, buffered)
    <3>1. \/ buffered.in_flight_recv_data = s.in_flight_recv_data
          \/ in_flight_data' # in_flight_data
      <4>1. sz \in Nat
        BY WindowAssumption
      <4>2. sz = 0 \/ in_flight_data' # in_flight_data
        BY <2>5, <4>1
      <4> QED BY <1>0, <2>2, <2>4, <4>2
    <3> QED BY <1>0, <2>1, <2>2, <2>4, <3>1, GoesOn DEF Moves
  <2>6. /\ \/ /\ Transition([streams EXCEPT ![k] = u], k)
              /\ in_flight_data' = in_flight_data
           \/ /\ Transition([streams EXCEPT ![k] = buffered], k)
              /\ in_flight_data' = in_flight_data + sz
        /\ UNCHANGED num_reset_streams
    BY <1>4 DEF RecvData, IgnoreData, u, buffered
  <2>7. in_flight_data' = in_flight_data =>
          u.in_flight_recv_data - streams[k].in_flight_recv_data
            = in_flight_data' - in_flight_data
    BY <1>0, <2>2
  <2>8. in_flight_data' = in_flight_data + sz =>
          buffered.in_flight_recv_data - streams[k].in_flight_recv_data
            = in_flight_data' - in_flight_data
    BY <1>0, <2>2, <2>4, WindowAssumption
  <2> HIDE DEF s
  <2> QED BY <1>0, <2>3, <2>5, <2>6, <2>7, <2>8, MoveOne DEF s
<1>5. ASSUME RecvRstStream(k)
      PROVE  Preserves
  <2> DEFINE t == [s EXCEPT !.state = RecvReset(@, s.is_pending_send),
                            !.pending_send = FALSE, !.buffered_send_data = FALSE]
  <2>1. /\ t \in Stream /\ t.id = s.id /\ t.ref_count = s.ref_count
        /\ t.is_pending_accept = s.is_pending_accept
        /\ t.in_flight_recv_data = s.in_flight_recv_data
        /\ t.recv_flow = s.recv_flow
        /\ t.is_counted = s.is_counted /\ t.is_pending_reset = s.is_pending_reset
        /\ SendOK(t) /\ IsClosed(t.state)
    BY <1>0, RecvResetType DEF Stream, SendOK
  <2>2. /\ Transition([streams EXCEPT ![k] = t], k)
        /\ UNCHANGED num_reset_streams
    BY <1>5, SoundSlot DEF RecvRstStream
  <2> HIDE DEF t
  <2>3. Moves(s, t)
    BY <1>0, <2>1, GoesOn DEF Moves
  <2> QED BY <1>0, <2>2, <2>3, MoveOne
<1>6. ASSUME RecvWindowUpdate(k)
      PROVE  Preserves
  <2> DEFINE t == [s EXCEPT !.is_pending_send = TRUE]
  <2>0. s.buffered_send_data
    BY <1>6 DEF RecvWindowUpdate
  <2>1. /\ t \in Stream /\ t.id = s.id /\ t.ref_count = s.ref_count
        /\ t.state = s.state /\ t.is_pending_accept = s.is_pending_accept
        /\ t.in_flight_recv_data = s.in_flight_recv_data
        /\ t.recv_flow = s.recv_flow
        /\ t.is_counted = s.is_counted /\ t.is_pending_reset = s.is_pending_reset
        /\ SendOK(t) /\ Stays(s, t)
    BY <1>0, <2>0 DEF Stream, SendOK, Stays, FullyClosed, IsReleased
  <2>2. /\ streams' = [streams EXCEPT ![k] = t]
        /\ UNCHANGED <<ids, num_recv_streams, num_reset_streams>>
    BY <1>6 DEF RecvWindowUpdate
  <2> HIDE DEF t
  <2>3. Moves(s, t)
    BY <1>0, <2>1, GoesOn DEF Moves
  <2> QED BY <1>0, <2>1, <2>2, <2>3, MoveOne
<1>7. ASSUME RecvWindowUpdateError(k)
      PROVE  Preserves
  <2>1. /\ streams' = [streams EXCEPT ![k] = SendReset(s)]
        /\ UNCHANGED <<ids, num_recv_streams, num_reset_streams>>
    BY <1>7 DEF RecvWindowUpdateError
  <2>2. Stays(s, SendReset(s))
    BY <1>0 DEF Stays, SendReset, Stream, FullyClosed, IsReleased
  <2> QED BY <1>0, <2>1, <2>2, ClosingMoves, MoveOne
<1> QED BY <1>1, <1>2, <1>3, <1>4, <1>5, <1>6, <1>7

\* Inner::recv_eof
LEMMA SlabEndOfStreams ==
  ASSUME SlabInv, NEW b \in BOOLEAN, EndOfStreams(b),
         b => conn' = "dropped"
  PROVE  Preserves
<1> DEFINE Dequeued(s) == [s EXCEPT !.is_pending_send = FALSE,
                                    !.is_pending_window_update = FALSE,
                                    !.is_pending_reset = FALSE,
                                    !.is_pending_accept = @ /\ ~b]
           ended(k) == IF k \in ids THEN Abort(streams[k], "LocalError")
                                    ELSE streams[k]
           new == [k \in Keys |-> Dequeued(ended(k))]
           due == {k \in Slab : streams[k].is_pending_reset
                                   /\ FullyClosed(new[k])}
           r == num_reset_streams - Cardinality(due)
<1>1. ASSUME NEW s \in Stream
      PROVE  /\ Dequeued(s) \in Stream /\ Dequeued(s).id = s.id
             /\ Dequeued(s).state = s.state /\ Dequeued(s).recv_flow = s.recv_flow
             /\ Dequeued(s).ref_count = s.ref_count
             /\ Dequeued(s).in_flight_recv_data = s.in_flight_recv_data
             /\ Dequeued(s).is_counted = s.is_counted
             /\ ~Dequeued(s).is_pending_reset
             /\ ~b => Dequeued(s).is_pending_accept = s.is_pending_accept
             /\ SendOK(s) => SendOK(Dequeued(s))
  BY DEF Stream, SendOK
<1>2. Dequeued(Vacant) = Vacant
  <2>1. (Vacant.is_pending_accept /\ ~b) = Vacant.is_pending_accept
    BY DEF Vacant, NewStream
  <2>2. Dequeued(Vacant) = [Vacant EXCEPT !.is_pending_send = FALSE,
                                          !.is_pending_window_update = FALSE,
                                          !.is_pending_reset = FALSE,
                                          !.is_pending_accept = FALSE]
    BY <2>1, VacantFields
  <2> HIDE DEF Dequeued
  <2> QED BY <2>2 DEF Vacant, NewStream
<1>3. ASSUME NEW k \in Keys
      PROVE  \/ streams[k].id = 0 /\ new[k] = streams[k]
             \/ streams[k].id # 0 /\ Moves(streams[k], new[k])
  <2>1. CASE streams[k].id = 0
    <3>1. streams[k] = Vacant /\ k \notin ids
      BY <2>1, SoundSlot
    <3> HIDE DEF Dequeued
    <3> QED BY <1>2, <2>1, <3>1
  <2>2. CASE streams[k].id # 0
    <3>1. streams[k] \in Stream /\ SendOK(streams[k])
      BY <2>2, SoundSlot
    <3>2. Moves(streams[k], ended(k))
      <4>1. Moves(streams[k], streams[k])
        BY <3>1, GoesNowhere DEF Moves
      <4> QED BY <3>1, <4>1, ClosingMoves DEF Causes
    <3> DEFINE e == ended(k)
               t == Dequeued(e)
    <3>3. e \in Stream /\ SendOK(e)
      BY <3>2 DEF Moves
    <3> HIDE DEF e, Dequeued
    <3>4. /\ t \in Stream /\ t.id = e.id /\ t.state = e.state
          /\ t.recv_flow = e.recv_flow /\ t.ref_count = e.ref_count
          /\ t.in_flight_recv_data = e.in_flight_recv_data
          /\ t.is_counted = e.is_counted /\ ~t.is_pending_reset
          /\ ~b => t.is_pending_accept = e.is_pending_accept
          /\ SendOK(t)
      BY <1>1, <3>3
    <3> HIDE DEF t
    <3>5. Goes(streams[k], t)
      BY <3>2, <3>4 DEF Moves, Goes, Unheld, e
    <3>6. Moves(streams[k], t)
      BY <3>2, <3>4, <3>5 DEF Moves, e
    <3> QED BY <2>2, <3>6 DEF t, e
  <2> QED BY <2>1, <2>2
<1>4. /\ TransitionAfter(new, ids, num_recv_streams, Slab)
      /\ num_reset_streams' = r
  BY DEF EndOfStreams
<1>5. /\ new \in [Keys -> Stream] /\ \A k \in Keys : ~new[k].is_pending_reset
  <2>1. \A k \in Keys : new[k] \in Stream
    <3> HIDE DEF new
    <3> QED BY <1>3, SoundSlot DEF Moves
  <2>2. \A k \in Keys : ended(k) \in Stream
    BY SoundSlot, Occupied, ClosingMoves DEF Moves, Causes
  <2> HIDE DEF Dequeued, ended
  <2> QED BY <1>1, <2>1, <2>2
<1> HIDE DEF new
<1>6. due \subseteq AwaitingIn(streams) /\ AwaitingIn(streams) \in SUBSET Keys
  BY DEF AwaitingIn, Slab
<1>7. /\ Cardinality(due) \in Nat /\ Cardinality(AwaitingIn(streams)) \in Nat
      /\ Cardinality(due) <= Cardinality(AwaitingIn(streams))
  BY <1>6, SlotsAreFinite
<1>8. AwaitingIn(new) = {}
  BY <1>5 DEF AwaitingIn
<1>9. /\ r \in Int /\ r <= MaxResetStreams /\ Cardinality(AwaitingIn(new)) <= r
  <2>1. /\ num_reset_streams \in Int /\ num_reset_streams <= MaxResetStreams
        /\ Cardinality(AwaitingIn(streams)) <= num_reset_streams
    BY DEF SlabInv, Sound
  <2> HIDE DEF due
  <2> QED BY <1>7, <1>8, <2>1, FS_EmptySet, BoundAssumption
<1>10. Slab \in SUBSET Keys /\ \A k \in Keys : streams[k] \in Stream
  BY SoundSlot DEF Slab
<1> HIDE DEF r
<1>11. /\ Sound(new, ids, num_recv_streams, r, Slab)
       /\ \A k \in Keys : StepOK(k, new[k])
  <2>1. \A k \in Keys :
          \/ new[k] = streams[k]
          \/ /\ streams[k].id # 0 /\ Moves(streams[k], new[k])
             /\ k \in Slab \/ Stays(streams[k], new[k])
    BY <1>3 DEF Slab
  <2> QED BY <1>5, <1>9, <1>10, <2>1, MoveSound
<1>12. /\ Sound(streams', ids', num_recv_streams', r, {})
       /\ \A k \in Keys : Ends(new[k], streams'[k])
  BY <1>4, <1>10, <1>11, TransitionSound
<1> QED BY <1>4, <1>10, <1>11, <1>12, StepComposes DEF Preserves, StepsOK, SlabInv

\* GOAWAY of the peer.
LEMMA SlabGoAway ==
  ASSUME SlabInv, NEW last, RecvGoAway(last)
  PROVE  Preserves
<1> DEFINE gone == {k \in ids : streams[k].id > last}
           new == [k \in Keys |->
                     IF k \in gone THEN Abort(streams[k], "RemoteError")
                                   ELSE streams[k]]
<1>1. ASSUME NEW k \in Keys
      PROVE  \/ k \notin gone /\ new[k] = streams[k]
             \/ k \in gone /\ streams[k].id # 0 /\ Moves(streams[k], new[k])
  BY <1>1, Occupied, ClosingMoves DEF Causes
<1>2. new \in [Keys -> Stream] /\ gone \in SUBSET Keys
  BY <1>1, SoundSlot DEF Moves
<1>3. /\ TransitionAfter(new, ids, num_recv_streams, gone)
      /\ UNCHANGED num_reset_streams
  BY DEF RecvGoAway
<1> HIDE DEF new, gone
<1> QED BY <1>1, <1>2, <1>3, MoveStep

\* Settings that change the initial window.
LEMMA SlabSettings ==
  ASSUME SlabInv, StoreInv, NEW v \in InitWindows, ApplyLocalSettings(v)
  PROVE  Preserves
<1> DEFINE d == v - init_window_sz
           moved(k) == [streams[k] EXCEPT !.recv_flow = DecRecvWindow(@, -d)]
           new == [k \in Keys |-> IF k \notin ids THEN streams[k] ELSE moved(k)]
<1>1. /\ v \in Nat /\ d \in Int /\ init_window_sz \in Int /\ init_window_sz' = v
      /\ UNCHANGED <<ids, num_recv_streams, num_reset_streams>>
      /\ streams' = new
  BY WindowAssumption DEF ApplyLocalSettings, StoreInv
<1>2. ASSUME NEW k \in ids
      PROVE  /\ streams[k].id # 0 /\ Moves(streams[k], moved(k))
             /\ Stays(streams[k], moved(k))
  <2> DEFINE s == streams[k]
             t == moved(k)
  <2>1. s.id # 0 /\ s \in Stream /\ SendOK(s)
    BY SoundSlot, Occupied
  <2>2. /\ s.recv_flow \in FlowControl
        /\ DecRecvWindow(s.recv_flow, -d) \in FlowControl
        /\ DecRecvWindow(s.recv_flow, -d).window_size
             = s.recv_flow.window_size + d
        /\ s.recv_flow.window_size \in Int
    <3>1. s.recv_flow \in FlowControl
      BY <2>1 DEF Stream
    <3> QED BY <1>1, <3>1 DEF FlowControl, DecRecvWindow
  <2>3. /\ t \in Stream /\ t.id = s.id /\ t.ref_count = s.ref_count
        /\ t.state = s.state /\ t.is_pending_accept = s.is_pending_accept
        /\ t.in_flight_recv_data = s.in_flight_recv_data
        /\ t.recv_flow = DecRecvWindow(s.recv_flow, -d)
        /\ t.is_counted = s.is_counted /\ t.is_pending_reset = s.is_pending_reset
        /\ SendOK(t) /\ Stays(s, t)
    BY <2>1, <2>2 DEF Stream, SendOK, Stays, FullyClosed, IsReleased
  <2> HIDE DEF t
  <2>4. \/ t.recv_flow.window_size <= s.recv_flow.window_size
        \/ init_window_sz' > init_window_sz
    BY <1>1, <2>2, <2>3
  <2>5. Goes(s, t)
    BY <2>1, <2>3, <2>4, GoesOn
  <2> QED BY <2>1, <2>3, <2>5 DEF Moves, t
<1>3. new \in [Keys -> Stream] /\ {} \in SUBSET Keys
  BY <1>2, SoundSlot DEF Moves
<1>4. \A k \in Keys :
        \/ new[k] = streams[k]
        \/ /\ streams[k].id # 0 /\ Moves(streams[k], new[k])
           /\ k \in {} \/ Stays(streams[k], new[k])
  BY <1>2
<1> HIDE DEF new
<1> QED BY <1>1, <1>3, <1>4, MoveStep

\* Every frame of the peer.
LEMMA SlabReceive ==
  ASSUME SlabInv, StoreInv, last_processed_id \in Nat, in_flight_data \in Int,
         Receive
  PROVE  Preserves
<1>1. CASE RecvIgnored \/ RecvShutdownPong
           \/ \E i \in StreamId : RefuseHeaders(i)
  BY <1>1, SlabStutter DEF RecvIgnored, RecvShutdownPong, RefuseHeaders
<1>2. CASE RecvInvalid
  BY <1>2, SlabHandleError DEF RecvInvalid, ConnectionError, Causes
<1>3. CASE CodecClosed
  BY <1>3, SlabEndOfStreams DEF CodecClosed
<1>4. ASSUME NEW i \in StreamId,
             \/ RecvMalformed(i)
             \/ \E sz \in Sizes : RecvDataForgotten(i, sz)
      PROVE  Preserves
  BY <1>4, SlabStreamError DEF RecvMalformed, RecvDataForgotten
<1>5. ASSUME NEW k \in Keys,
             \/ \E bad \in BOOLEAN : RecvTrailers(k, bad)
             \/ \E sz \in Sizes :
                  \/ RecvDataReset(k, sz)
                  \/ \E b \in BOOLEAN : RecvDataError(k, sz, b) \/ RecvData(k, sz, b)
             \/ RecvRstStream(k) \/ RecvWindowUpdate(k) \/ RecvWindowUpdateError(k)
      PROVE  Preserves
  BY <1>5, SlabFrame
<1> QED BY <1>1, <1>2, <1>3, <1>4, <1>5, SlabHeaders, SlabGoAway, SlabSettings
        DEF Receive

\* Streams::poll_complete: window updates and the send queue.
LEMMA SlabFlush ==
  ASSUME SlabInv, Flush
  PROVE  Preserves
<1>1. CASE FlushConnectionWindow \/ Park \/ Blocked \/ WriteError
  BY <1>1, SlabStutter DEF FlushConnectionWindow, Park, Blocked, WriteError, store
<1>2. ASSUME NEW k \in Keys, FlushStreamWindow(k)
      PROVE  Preserves
  <2> DEFINE s == streams[k]
             u == [s EXCEPT !.is_pending_window_update = FALSE]
             incr == IF IsRecvStreaming(u.state) THEN UnclaimedCapacity(u.recv_flow)
                                                 ELSE 0
             t == [u EXCEPT !.recv_flow = IncWindow(@, incr)]
  <2>1. s.id # 0 /\ s \in Stream /\ SendOK(s)
    BY <1>2, Occupied DEF FlushStreamWindow
  <2>2. /\ u \in Stream /\ u.id = s.id /\ u.state = s.state
        /\ u.ref_count = s.ref_count /\ u.recv_flow = s.recv_flow
        /\ u.is_pending_accept = s.is_pending_accept
        /\ u.in_flight_recv_data = s.in_flight_recv_data
        /\ u.is_counted = s.is_counted /\ u.is_pending_reset = s.is_pending_reset
        /\ SendOK(u)
    BY <2>1 DEF Stream, SendOK
  <2> HIDE DEF u
  <2>3. /\ u.recv_flow \in FlowControl /\ incr \in Int
        /\ u.recv_flow.window_size \in Int
    BY <2>2, FlowTypes DEF Stream, FlowControl
  <2>4. incr = 0 \/ ~IsClosed(s.state)
    BY <2>1, <2>2, RecvStreamingCanClose DEF Stream
  <2> HIDE DEF incr
  <2>5. /\ IncWindow(u.recv_flow, incr) \in FlowControl
        /\ IncWindow(u.recv_flow, incr).window_size
             = u.recv_flow.window_size + incr
    BY <2>3 DEF FlowControl, IncWindow
  <2>6. /\ t \in Stream /\ t.id = u.id /\ t.state = u.state
        /\ t.ref_count = u.ref_count
        /\ t.recv_flow = IncWindow(u.recv_flow, incr)
        /\ t.is_pending_accept = u.is_pending_accept
        /\ t.in_flight_recv_data = u.in_flight_recv_data
        /\ t.is_counted = u.is_counted /\ t.is_pending_reset = u.is_pending_reset
        /\ SendOK(t) = SendOK(u)
    BY <2>2, <2>5 DEF Stream, SendOK
  <2>7. /\ Transition([streams EXCEPT ![k] = t], k)
        /\ UNCHANGED num_reset_streams
    BY <1>2 DEF FlushStreamWindow, u, incr
  <2> HIDE DEF t
  <2>8. t.recv_flow.window_size <= s.recv_flow.window_size \/ ~IsClosed(s.state)
    BY <2>2, <2>3, <2>4, <2>5, <2>6
  <2>9. Moves(s, t)
    BY <2>1, <2>2, <2>6, <2>8, GoesOn DEF Moves
  <2> QED BY <2>1, <2>7, <2>9, MoveOne
<1>3. ASSUME NEW k \in Keys, PopFrame(k)
      PROVE  Preserves
  <2> DEFINE s == streams[k]
             sent == [s EXCEPT !.pending_send = FALSE,
                               !.buffered_send_data = FALSE,
                               !.is_pending_send = IsScheduledReset(s.state)]
             reset == [s EXCEPT !.is_pending_send = FALSE,
                                !.state = IF IsScheduledReset(@) THEN SetReset
                                                                 ELSE @]
             t == IF s.pending_send THEN sent ELSE reset
  <2>1. /\ s.id # 0 /\ s \in Stream /\ SendOK(s) /\ s.state \in State
        /\ s.recv_flow.window_size \in Int /\ s.in_flight_recv_data \in Nat
        /\ s.is_pending_send
    BY <1>3, Occupied DEF PopFrame, Stream, FlowControl
  <2>2. IsScheduledReset(s.state) => IsClosed(s.state)
    BY <2>1, LocalResetIsClosed DEF IsScheduledReset, IsLocalReset
  <2>3. /\ sent \in Stream /\ sent.id = s.id /\ sent.state = s.state
        /\ sent.ref_count = s.ref_count /\ sent.recv_flow = s.recv_flow
        /\ sent.is_pending_accept = s.is_pending_accept
        /\ sent.in_flight_recv_data = s.in_flight_recv_data
        /\ sent.is_counted = s.is_counted
        /\ sent.is_pending_reset = s.is_pending_reset
        /\ SendOK(sent)
    BY <2>1, <2>2 DEF Stream, SendOK, IsScheduledReset
  <2>4. /\ reset \in Stream /\ reset.id = s.id
        /\ IsClosed(s.state) => IsClosed(reset.state)
        /\ reset.ref_count = s.ref_count /\ reset.recv_flow = s.recv_flow
        /\ reset.is_pending_accept = s.is_pending_accept
        /\ reset.in_flight_recv_data = s.in_flight_recv_data
        /\ reset.is_counted = s.is_counted
        /\ reset.is_pending_reset = s.is_pending_reset
        /\ SendOK(reset)
    BY <2>1, <2>2, StateValues, ClosedValues DEF Stream, SendOK
  <2>5. /\ Transition([streams EXCEPT ![k] = t], k)
        /\ UNCHANGED num_reset_streams
    BY <1>3 DEF PopFrame
  <2> HIDE DEF sent, reset
  <2>6. Moves(s, sent) /\ Moves(s, reset)
    BY <2>1, <2>3, <2>4, GoesOn DEF Moves
  <2> QED BY <2>1, <2>5, <2>6, MoveOne
<1>4. ASSUME NEW k \in Keys, PopData(k) \/ PopBlocked(k)
      PROVE  Preserves
  <2> DEFINE s == streams[k]
             sent == [s EXCEPT !.buffered_send_data = FALSE]
             blocked == [s EXCEPT !.is_pending_send = FALSE]
             Like(t) ==
               /\ t \in Stream /\ t.id = s.id /\ t.state = s.state
               /\ t.ref_count = s.ref_count /\ t.recv_flow = s.recv_flow
               /\ t.is_pending_accept = s.is_pending_accept
               /\ t.in_flight_recv_data = s.in_flight_recv_data
               /\ t.is_counted = s.is_counted
               /\ t.is_pending_reset = s.is_pending_reset
               /\ SendOK(t) /\ Stays(s, t)
  <2>1. /\ s.id # 0 /\ s \in Stream /\ SendOK(s) /\ s.buffered_send_data
        /\ s.recv_flow.window_size \in Int
    BY <1>4, Occupied DEF PopData, PopBlocked, Stream, FlowControl
  <2>2. Like(sent) /\ Like(blocked)
    BY <2>1 DEF Stream, SendOK, Stays, FullyClosed, IsReleased
  <2>3. /\ \/ streams' = [streams EXCEPT ![k] = sent]
           \/ streams' = [streams EXCEPT ![k] = blocked]
        /\ UNCHANGED <<ids, num_recv_streams, num_reset_streams>>
    BY <1>4 DEF PopData, PopBlocked
  <2> HIDE DEF sent, blocked
  <2>4. Moves(s, sent) /\ Moves(s, blocked)
    BY <2>1, <2>2, GoesOn DEF Moves
  <2> QED BY <2>1, <2>2, <2>3, <2>4, MoveOne
<1> QED BY <1>1, <1>2, <1>3, <1>4 DEF Flush

(* drop_stream_ref: the handle that goes is one; the last one of a live       *)
(* stream closes it, and the last one of any takes its data along.            *)
LEMMA SlabDropRef ==
  ASSUME SlabInv, Between, in_flight_data \in Int,
         NEW k \in Keys, NEW s \in Stream, streams[k].id # 0,
         s.id = streams[k].id, s.state = streams[k].state, SendOK(s),
         s.ref_count = streams[k].ref_count, s.ref_count > 0,
         s.in_flight_recv_data = streams[k].in_flight_recv_data,
         s.recv_flow = streams[k].recv_flow,
         s.is_counted = streams[k].is_counted,
         s.is_pending_reset = streams[k].is_pending_reset,
         DropStreamRef(k, s)
  PROVE  Preserves /\ Accounts(k)
<1> DEFINE t == [s EXCEPT !.ref_count = @ - 1]
           last == t.ref_count = 0
           size == ClosedCapacity(t)
           freed == [t EXCEPT !.in_flight_recv_data = @ - size]
           out == ScheduleImplicitReset(freed)
<1>1. /\ s.ref_count \in Nat /\ s.in_flight_recv_data \in Nat
      /\ s.recv_flow.window_size \in Int
      /\ IsLocalReset(s.state) => IsClosed(s.state)
  BY LocalResetIsClosed DEF Stream, FlowControl
<1>2. /\ t \in Stream /\ t.ref_count = s.ref_count - 1
      /\ t.in_flight_recv_data = s.in_flight_recv_data
      /\ t.id = s.id /\ t.state = s.state /\ t.recv_flow = s.recv_flow
      /\ t.is_counted = s.is_counted /\ t.is_pending_reset = s.is_pending_reset
      /\ SendOK(t)
  <2>1. s.ref_count - 1 \in Nat
    BY <1>1
  <2> QED BY <2>1 DEF Stream, SendOK
<1> HIDE DEF t
<1>3. size = IF last THEN s.in_flight_recv_data ELSE 0
  BY <1>2 DEF ClosedCapacity
<1> HIDE DEF size
<1>4. /\ freed \in Stream /\ freed.ref_count = t.ref_count
      /\ freed.in_flight_recv_data = IF last THEN 0 ELSE s.in_flight_recv_data
      /\ freed.id = t.id /\ freed.state = t.state
      /\ freed.recv_flow = t.recv_flow /\ freed.is_counted = t.is_counted
      /\ freed.is_pending_reset = t.is_pending_reset /\ SendOK(freed)
  <2>1. /\ t.in_flight_recv_data - size \in Nat
        /\ t.in_flight_recv_data - size
             = IF last THEN 0 ELSE s.in_flight_recv_data
    BY <1>1, <1>2, <1>3
  <2> HIDE DEF last
  <2> QED BY <1>2, <2>1 DEF Stream, SendOK
<1>11. freed.in_flight_recv_data - streams[k].in_flight_recv_data
         = in_flight_data' - in_flight_data
  <2>1. in_flight_data' = in_flight_data - size
    BY DEF DropStreamRef, t, size
  <2> QED BY <1>1, <1>3, <1>4, <2>1
<1>10. \/ freed.in_flight_recv_data = streams[k].in_flight_recv_data
       \/ in_flight_data' # in_flight_data
  <2>1. in_flight_data' = in_flight_data - size
    BY DEF DropStreamRef, t, size
  <2>2. size \in Nat
    BY <1>1, <1>3
  <2>3. size = 0 \/ in_flight_data' # in_flight_data
    BY <2>1, <2>2
  <2> QED BY <1>3, <1>4, <2>3
<1>5. Slack = 1
  BY DEF Slack, Between
<1>6. Moves(freed, out) /\ Closes(freed, out)
        /\ out.ref_count = freed.ref_count /\ out.recv_flow = freed.recv_flow
        /\ out.in_flight_recv_data = freed.in_flight_recv_data
  BY <1>4, ClosingMoves, ClosingOps DEF ScheduleImplicitReset, Stream
<1>7. \/ /\ EnqueueResetExpiration([streams EXCEPT ![k] = out],
                                   ids, num_recv_streams, k)
      \/ /\ ~last \/ IsClosed(s.state)
         /\ Transition([streams EXCEPT ![k] = freed], k)
         /\ UNCHANGED num_reset_streams
  BY <1>2 DEF DropStreamRef, t, size
<1> HIDE DEF freed, out
<1>8. Moves(streams[k], out)
  <2>1. Goes(streams[k], out)
    BY <1>1, <1>2, <1>4, <1>5, <1>6, <1>10 DEF Goes, Closes, Unheld
  <2> QED BY <1>2, <1>4, <1>6, <2>1 DEF Moves
<1>9. CASE /\ ~last \/ IsClosed(s.state)
           /\ Transition([streams EXCEPT ![k] = freed], k)
           /\ UNCHANGED num_reset_streams
  <2>1. Goes(streams[k], freed)
    BY <1>1, <1>2, <1>4, <1>5, <1>9, <1>10 DEF Goes, Unheld
  <2>2. Moves(streams[k], freed)
    BY <1>2, <1>4, <2>1 DEF Moves
  <2> QED BY <1>9, <1>11, <2>2, MoveOne
<1>12. out.in_flight_recv_data - streams[k].in_flight_recv_data
         = in_flight_data' - in_flight_data
  BY <1>6, <1>11
<1> QED BY <1>7, <1>8, <1>9, <1>12, MoveOne

\* What the application does with its handles.
LEMMA SlabHandles ==
  ASSUME SlabInv, in_flight_data \in Int, NEW k \in Keys,
         \/ NextIncoming(k) \/ CloneHandle(k)
         \/ DropRecvStream(k) \/ DropHandle(k) \/ UserReset(k)
         \/ \E n \in Sizes : ReleaseCapacity(k, n)
         \/ \E eos \in BOOLEAN : SendResponse(k, eos)
         \/ \E eos \in BOOLEAN, sized \in BOOLEAN, now \in BOOLEAN :
              SendFrame(k, eos, sized, now)
  PROVE  /\ Preserves
         /\ \/ DropRecvStream(k) \/ DropHandle(k)
            \/ \E n \in Sizes : ReleaseCapacity(k, n)
            => Accounts(k)
<1> DEFINE s == streams[k]
<1>0. /\ s \in Stream /\ s.id # 0 /\ SendOK(s) /\ s.state \in State
      /\ s.recv_flow.window_size \in Int /\ s.ref_count \in Nat
      /\ s.in_flight_recv_data \in Nat
      /\ IsLocalReset(s.state) => IsClosed(s.state)
  <2>1. s.ref_count # 0 \/ s.is_pending_accept
    <3>1. streams[k] \in Stream
      BY SoundSlot
    <3>2. streams[k].ref_count \in Nat
      BY <3>1 DEF Stream
    <3>3. CASE NextIncoming(k)
      BY <3>3 DEF NextIncoming
    <3>4. CASE \/ streams[k].ref_count \in 1 .. MaxHandles - 1
               \/ streams[k].ref_count > 0
      BY <3>2, <3>4, BoundAssumption
    <3>5. CASE CloneHandle(k)
      BY <3>4, <3>5 DEF CloneHandle
    <3>6. CASE DropRecvStream(k) \/ UserReset(k)
      BY <3>4, <3>6 DEF DropRecvStream, UserReset
    <3>7. CASE DropHandle(k)
      <4>1. streams[k].ref_count > (IF streams[k].is_recv THEN 1 ELSE 0)
        BY <3>7 DEF DropHandle
      <4> QED BY <3>2, <3>4, <4>1
    <3>8. CASE \E n \in Sizes : ReleaseCapacity(k, n)
      BY <3>4, <3>8 DEF ReleaseCapacity, Releasable
    <3>9. CASE \E eos \in BOOLEAN : SendResponse(k, eos)
      BY <3>4, <3>9 DEF SendResponse
    <3>10. CASE \E eos \in BOOLEAN, sized \in BOOLEAN, now \in BOOLEAN :
                  SendFrame(k, eos, sized, now)
      BY <3>4, <3>10 DEF SendFrame
    <3> QED BY <3>3, <3>5, <3>6, <3>7, <3>8, <3>9, <3>10
  <2>2. s \in Stream /\ s.id # 0 /\ SendOK(s)
    BY <2>1, Occupied
  <2> QED BY <2>2, LocalResetIsClosed DEF Stream, FlowControl
<1>1. ASSUME NextIncoming(k)
      PROVE  Preserves
  <2> DEFINE t == [s EXCEPT !.is_pending_accept = FALSE, !.ref_count = @ + 2]
  <2>1. s.ref_count + 2 \in Nat /\ s.ref_count + 2 # 0
    BY <1>0
  <2>2. /\ t \in Stream /\ t.id = s.id /\ t.state = s.state
        /\ t.ref_count = s.ref_count + 2 /\ t.recv_flow = s.recv_flow
        /\ t.in_flight_recv_data = s.in_flight_recv_data
        /\ t.is_counted = s.is_counted /\ t.is_pending_reset = s.is_pending_reset
        /\ SendOK(t) /\ Stays(s, t)
    BY <1>0, <2>1 DEF Stream, SendOK, Stays, FullyClosed, IsReleased
  <2>3. /\ streams' = [streams EXCEPT ![k] = t]
        /\ UNCHANGED <<ids, num_recv_streams, num_reset_streams>>
    BY <1>1, SoundSlot DEF NextIncoming
  <2> HIDE DEF t
  <2>4. Goes(s, t)
    BY <1>0, <2>1, <2>2, SlackType DEF Goes, Unheld
  <2> QED BY <1>0, <2>2, <2>3, <2>4, MoveOne DEF Moves
<1>2. ASSUME CloneHandle(k)
      PROVE  Preserves
  <2> DEFINE t == [s EXCEPT !.ref_count = @ + 1]
  <2>1. s.ref_count + 1 \in Nat /\ s.ref_count + 1 # 0
    BY <1>0
  <2>2. /\ t \in Stream /\ t.id = s.id /\ t.state = s.state
        /\ t.ref_count = s.ref_count + 1 /\ t.recv_flow = s.recv_flow
        /\ t.in_flight_recv_data = s.in_flight_recv_data
        /\ t.is_counted = s.is_counted /\ t.is_pending_reset = s.is_pending_reset
        /\ SendOK(t) /\ Stays(s, t)
    BY <1>0, <2>1 DEF Stream, SendOK, Stays, FullyClosed, IsReleased
  <2>3. /\ streams' = [streams EXCEPT ![k] = t]
        /\ UNCHANGED <<ids, num_recv_streams, num_reset_streams>>
    BY <1>2, SoundSlot DEF CloneHandle
  <2> HIDE DEF t
  <2>4. Goes(s, t)
    BY <1>0, <2>1, <2>2, SlackType DEF Goes, Unheld
  <2> QED BY <1>0, <2>2, <2>3, <2>4, MoveOne DEF Moves
<1>3. ASSUME DropRecvStream(k)
      PROVE  Preserves /\ Accounts(k)
  <2> DEFINE u == [s EXCEPT !.is_recv = FALSE]
  <2>1. /\ u \in Stream /\ u.id = s.id /\ u.state = s.state
        /\ u.ref_count = s.ref_count /\ u.recv_flow = s.recv_flow
        /\ u.in_flight_recv_data = s.in_flight_recv_data
        /\ u.is_counted = s.is_counted /\ u.is_pending_reset = s.is_pending_reset
        /\ SendOK(u)
    BY <1>0 DEF Stream, SendOK
  <2>2. s.ref_count > 0 /\ Between /\ DropStreamRef(k, u)
    BY <1>3 DEF DropRecvStream
  <2> HIDE DEF u
  <2> QED BY <1>0, <2>1, <2>2, SlabDropRef
<1>4. ASSUME DropHandle(k)
      PROVE  Preserves /\ Accounts(k)
  <2>1. s.ref_count > 0 /\ Between /\ DropStreamRef(k, s)
    BY <1>0, <1>4 DEF DropHandle
  <2> QED BY <1>0, <2>1, SlabDropRef
<1>5. ASSUME UserReset(k)
      PROVE  Preserves
  <2>1. EnqueueResetExpiration([streams EXCEPT ![k] = SendReset(s)],
                               ids, num_recv_streams, k)
    BY <1>5 DEF UserReset
  <2> QED BY <1>0, <2>1, ClosingMoves, MoveOne
<1>6. ASSUME NEW n \in Sizes, ReleaseCapacity(k, n)
      PROVE  Preserves /\ Accounts(k)
  <2> DEFINE u == [s EXCEPT !.in_flight_recv_data = @ - n,
                            !.recv_flow = AssignCapacity(@, n)]
             due == UnclaimedCapacity(u.recv_flow) > 0
             t == [u EXCEPT !.is_pending_window_update = @ \/ due]
  <2>1. /\ n \in Nat /\ n <= s.in_flight_recv_data /\ s.ref_count # 0
        /\ s.in_flight_recv_data - n \in Nat
        /\ AssignCapacity(s.recv_flow, n) \in FlowControl
        /\ AssignCapacity(s.recv_flow, n).window_size = s.recv_flow.window_size
    <3>1. n \in Nat /\ n <= s.in_flight_recv_data /\ s.ref_count # 0
      <4>1. streams[k].ref_count > 0 /\ n <= streams[k].in_flight_recv_data
        BY <1>6 DEF ReleaseCapacity, Releasable
      <4>2. streams[k].ref_count # 0
        BY <1>0, <4>1
      <4> QED BY <4>1, <4>2, WindowAssumption
    <3>2. s.recv_flow \in FlowControl
      BY <1>0 DEF Stream
    <3> QED BY <1>0, <3>1, <3>2 DEF FlowControl, AssignCapacity
  <2>2. /\ u \in Stream /\ u.id = s.id /\ u.state = s.state
        /\ u.ref_count = s.ref_count
        /\ u.recv_flow = AssignCapacity(s.recv_flow, n)
        /\ u.in_flight_recv_data = s.in_flight_recv_data - n
        /\ u.is_counted = s.is_counted /\ u.is_pending_reset = s.is_pending_reset
        /\ u.pending_send = s.pending_send
        /\ u.buffered_send_data = s.buffered_send_data
        /\ SendOK(u)
    BY <1>0, <2>1 DEF Stream, SendOK
  <2>3. /\ streams' = [streams EXCEPT ![k] = t]
        /\ UNCHANGED <<ids, num_recv_streams, num_reset_streams>>
    BY <1>6 DEF ReleaseCapacity
  <2> HIDE DEF u
  <2>4. /\ t \in Stream /\ t.id = u.id /\ t.state = u.state
        /\ t.ref_count = u.ref_count /\ t.recv_flow = u.recv_flow
        /\ t.in_flight_recv_data = u.in_flight_recv_data
        /\ t.is_counted = u.is_counted /\ t.is_pending_reset = u.is_pending_reset
        /\ t.pending_send = u.pending_send
        /\ t.buffered_send_data = u.buffered_send_data
        /\ SendOK(t)
    <3>1. (u.is_pending_window_update \/ due) \in BOOLEAN
      OBVIOUS
    <3> HIDE DEF due
    <3> QED BY <2>2, <3>1 DEF Stream, SendOK
  <2> HIDE DEF t
  <2>5. Stays(s, t)
    BY <2>1, <2>2, <2>4 DEF Stays, FullyClosed, IsReleased
  <2>6. s.in_flight_recv_data - n <= s.in_flight_recv_data
    BY <1>0, <2>1
  <2>7. \/ t.in_flight_recv_data = s.in_flight_recv_data
        \/ in_flight_data' # in_flight_data
    <3>1. in_flight_data' = in_flight_data - n
      BY <1>6 DEF ReleaseCapacity
    <3>2. n = 0 \/ in_flight_data' # in_flight_data
      BY <2>1, <3>1
    <3> QED BY <1>0, <2>2, <2>4, <3>2
  <2>8. Goes(s, t)
    BY <1>0, <2>1, <2>2, <2>4, <2>6, <2>7, SlackType DEF Goes, Unheld
  <2>9. t.in_flight_recv_data - streams[k].in_flight_recv_data
          = in_flight_data' - in_flight_data
    <3>1. in_flight_data' = in_flight_data - n
      BY <1>6 DEF ReleaseCapacity
    <3> QED BY <1>0, <2>1, <2>2, <2>4, <3>1
  <2> QED BY <1>0, <2>2, <2>3, <2>4, <2>5, <2>8, <2>9, MoveOne DEF Moves
<1>7. ASSUME NEW eos \in BOOLEAN, SendResponse(k, eos)
      PROVE  Preserves
  <2> DEFINE t == [s EXCEPT !.state = SendOpen(@, eos), !.ref_count = @ + 1,
                            !.pending_send = TRUE, !.is_pending_send = TRUE]
  <2>1. /\ SendOpen(s.state, eos) \in State /\ ~IsClosed(s.state)
        /\ s.ref_count + 1 \in Nat /\ s.ref_count + 1 # 0
    <3>1. /\ CanSendOpen(streams[k].state)
          /\ streams[k].ref_count \in 1 .. MaxHandles - 1
      BY <1>7 DEF SendResponse
    <3>2. ~IsClosed(s.state)
      BY <1>0, <3>1 DEF CanSendOpen, IsClosed
    <3>3. SendOpen(s.state, eos) \in State
      BY <1>0, <3>1, SendOpenType
    <3>4. s.ref_count + 1 \in Nat /\ s.ref_count + 1 # 0
      BY <1>0
    <3> QED BY <3>2, <3>3, <3>4
  <2>2. /\ t \in Stream /\ t.id = s.id /\ t.ref_count = s.ref_count + 1
        /\ t.in_flight_recv_data = s.in_flight_recv_data
        /\ t.is_counted = s.is_counted /\ t.is_pending_reset = s.is_pending_reset
        /\ SendOK(t)
    BY <1>0, <2>1 DEF Stream, SendOK
  <2>3. /\ Transition([streams EXCEPT ![k] = t], k)
        /\ UNCHANGED num_reset_streams
    BY <1>7, SoundSlot DEF SendResponse
  <2> HIDE DEF t
  <2>4. Goes(s, t)
    BY <1>0, <2>1, <2>2, SlackType DEF Goes, Unheld
  <2> QED BY <1>0, <2>2, <2>3, <2>4, MoveOne DEF Moves
<1>8. ASSUME NEW eos \in BOOLEAN, NEW sized \in BOOLEAN, NEW now \in BOOLEAN,
             SendFrame(k, eos, sized, now)
      PROVE  Preserves
  <2> DEFINE t == [s EXCEPT !.state = IF eos THEN SendClose(@) ELSE @,
                            !.pending_send = TRUE,
                            !.buffered_send_data = @ \/ sized,
                            !.is_pending_send = @ \/ now]
  <2>1. SendClose(s.state) \in State /\ ~IsClosed(s.state) /\ s.ref_count # 0
    <3>1. streams[k].ref_count > 0 /\ IsSendStreaming(streams[k].state)
      BY <1>8 DEF SendFrame
    <3>2. ~IsClosed(s.state)
      BY <1>0, <3>1 DEF IsSendStreaming, IsClosed
    <3>3. SendClose(s.state) \in State
      BY <1>0, <3>1, SendCloseType
    <3>4. s.ref_count # 0
      BY <1>0, <3>1
    <3> QED BY <3>2, <3>3, <3>4
  <2>2. /\ (s.buffered_send_data \/ sized) \in BOOLEAN
        /\ (s.is_pending_send \/ now) \in BOOLEAN
    OBVIOUS
  <2>3. /\ t \in Stream /\ t.id = s.id /\ t.ref_count = s.ref_count
        /\ t.in_flight_recv_data = s.in_flight_recv_data
        /\ t.is_counted = s.is_counted /\ t.is_pending_reset = s.is_pending_reset
        /\ SendOK(t)
    BY <1>0, <2>1, <2>2 DEF Stream, SendOK
  <2>4. /\ Transition([streams EXCEPT ![k] = t], k)
        /\ UNCHANGED num_reset_streams
    BY <1>8 DEF SendFrame
  <2> HIDE DEF t
  <2>5. Goes(s, t)
    BY <1>0, <2>1, <2>3, SlackType DEF Goes, Unheld
  <2> QED BY <1>0, <2>3, <2>4, <2>5, MoveOne DEF Moves
<1> QED BY <1>1, <1>2, <1>3, <1>4, <1>5, <1>6, <1>7, <1>8

\* Every step of the application.
LEMMA SlabUse ==
  ASSUME SlabInv, in_flight_data \in Int, Use \/ Clone
  PROVE  Preserves
<1>1. CASE AbruptShutdown
  BY <1>1, SlabHandleError DEF AbruptShutdown, Causes
<1>2. CASE DropConnection
  BY <1>2, SlabEndOfStreams DEF DropConnection
<1>3. ASSUME NEW t \in Targets, SetTarget(t)
      PROVE  Preserves
  BY <1>3, SlabStutter DEF SetTarget
<1> QED BY <1>1, <1>2, <1>3, SlabHandles DEF Use, Clone

(* Every step leaves the slab sound, and does to each stream no more than a   *)
(* step may.                                                                  *)
LEMMA SlabStep ==
  TypeOK /\ StoreInv /\ SlabInv /\ [Next]_vars => SlabInv' /\ StepsOK
<1> SUFFICES ASSUME TypeOK, StoreInv, SlabInv, [Next]_vars PROVE Preserves
  BY DEF Preserves
<1>1. CASE UNCHANGED vars
  BY <1>1, SlabStutter DEF vars
<1>2. last_processed_id \in Nat /\ in_flight_data \in Int
  BY DEF TypeOK
<1> QED BY <1>1, <1>2, SlabPoll, SlabReceive, SlabFlush, SlabUse DEF Next

\* A new connection has an empty slab.
LEMMA SlabInit == Init => SlabInv
<1> SUFFICES ASSUME Init PROVE SlabInv
  OBVIOUS
<1>1. /\ streams = [k \in Keys |-> Vacant] /\ ids = {}
      /\ num_recv_streams = 0 /\ num_reset_streams = 0
  BY DEF Init
<1>2. CountedIn(streams) = {} /\ AwaitingIn(streams) = {}
  BY <1>1, VacantFields DEF CountedIn, AwaitingIn
<1>3. streams \in [Keys -> Stream] /\ \A k \in Keys : streams[k] = Vacant
  BY <1>1, VacantFields
<1> QED BY <1>1, <1>2, <1>3, VacantFields, FS_EmptySet, BoundAssumption
        DEF SlabInv, Sound

\* The slab is sound throughout.
LEMMA SlabInvariant == Spec => []SlabInv
BY TypeCorrect, StoreInvariant, SlabInit, SlabStep, PTL DEF Spec

\* Every step is one that a step may be.
LEMMA StepsInvariant == Spec => [][StepsOK]_vars
BY TypeCorrect, StoreInvariant, SlabInvariant, SlabStep, PTL DEF Spec

-----------------------------------------------------------------------------
(* Counts: both counters are exact, in every order of errors, resets,        *)
(* expiries and evictions, for any number of slots and either limit.         *)
THEOREM CountersAreExact == Spec => []CountersExact
<1>1. SlabInv => CountersExact
  <2> SUFFICES ASSUME SlabInv PROVE CountersExact
    OBVIOUS
  <2>1. Counted = CountedIn(streams) /\ Awaiting = AwaitingIn(streams)
    BY DEF Counted, Awaiting, CountedIn, AwaitingIn
  <2> QED BY <2>1 DEF SlabInv, Sound, CountersExact, CountsExact, ResetsCounted,
                      Live, Slab
<1> QED BY <1>1, SlabInvariant, PTL

-----------------------------------------------------------------------------
(* What one step may do to a stream.                                         *)

\* Streams: data and window of a stream this side has reset, whatever the peer
\* still sends on it.
THEOREM ResetStreamsTakeNoData == Spec => ResetTakesNoData
<1>1. StepsOK =>
        \A k \in Slab :
          IsLocalReset(streams[k].state) /\ streams'[k].id = streams[k].id =>
            /\ streams'[k].in_flight_recv_data <= streams[k].in_flight_recv_data
            /\ streams'[k].recv_flow.window_size <= streams[k].recv_flow.window_size
                 \/ init_window_sz' > init_window_sz
  BY DEF StepsOK, StepOK, Goes, Slab
<1> QED BY <1>1, StepsInvariant, PTL DEF ResetTakesNoData

(* Recv::open: poll_ready has sent the last refusal before a frame is read.  *)
RefusalInv == conn = "recv" => refused = 0

\* Only the handler of HEADERS records a refusal.
LEMMA RefusalStep ==
  RefusalInv /\ [Next]_vars => RefusalInv' /\ (refused = 0 \/ refused' \in {0, refused})
<1> SUFFICES ASSUME RefusalInv, [Next]_vars
             PROVE  RefusalInv' /\ (refused = 0 \/ refused' \in {0, refused})
  OBVIOUS
<1> USE DEF RefusalInv, numbers
<1>1. CASE UNCHANGED vars
  BY <1>1 DEF vars
<1>2. CASE Poll
  BY <1>2 DEF Poll, BeginPoll, PollReady, NotReady, GoAwaySent, NoFrame,
              IoError, ExpireReset, Waiting
<1>3. CASE Receive
  BY <1>3, ZenonT(60) DEF Receive, RecvIgnored, RecvInvalid, ConnectionError,
       RecvShutdownPong, CodecClosed, RecvMalformed, RefuseHeaders, RecvHeaders,
       RecvTrailers, RecvDataForgotten, StreamError, RecvDataReset,
       RecvDataError, RecvData, RecvRstStream, RecvWindowUpdate,
       RecvWindowUpdateError, RecvGoAway, ApplyLocalSettings
<1>4. CASE Flush
  BY <1>4 DEF Flush, FlushConnectionWindow, Park, Blocked, WriteError,
              FlushStreamWindow, PopFrame, PopData, PopBlocked
<1>5. CASE Use \/ Clone
  BY <1>5, ZenonT(60) DEF Use, Clone, AbruptShutdown, DropConnection, SetTarget,
       NextIncoming, CloneHandle, DropRecvStream, DropHandle, UserReset,
       ReleaseCapacity, SendResponse, SendFrame, Between, Polling, Waiting
<1> QED BY <1>1, <1>2, <1>3, <1>4, <1>5 DEF Next

(* Store, State and Recv::open: no order of frames, errors, expiries, drops  *)
(* and flushes frees a slot under a handle, opens a closed stream again or   *)
(* forgets a refusal.                                                        *)
THEOREM StepsAreOrderly == Spec => StreamSteps
<1>1. Spec => KeysStayValid
  <2>1. TypeOK /\ SlabInv /\ StepsOK =>
          \A k \in Keys :
            streams[k].ref_count > (IF conn \in Polling THEN 0 ELSE 1)
              => streams'[k].id = streams[k].id
    <3> SUFFICES ASSUME TypeOK, SlabInv, StepsOK, NEW k \in Keys,
                        streams[k].ref_count > Slack
                 PROVE  streams'[k].id = streams[k].id
      BY DEF Slack
    <3>1. streams[k].ref_count \in Nat /\ streams[k].ref_count # 0
      BY DEF TypeOK, Stream, Slack
    <3>2. streams[k].id # 0
      BY <3>1, VacantFields DEF SlabInv, Sound
    <3>3. ~(streams[k].ref_count <= Slack)
      BY <3>1 DEF Slack
    <3> QED BY <3>2, <3>3 DEF StepsOK, StepOK, MayFree, Goes
  <2> QED BY <2>1, TypeCorrect, SlabInvariant, StepsInvariant, PTL
          DEF KeysStayValid
<1>2. Spec => NeverReopened
  <2>1. StepsOK =>
          \A k \in Slab :
            IsClosed(streams[k].state) /\ streams'[k].id = streams[k].id
              => IsClosed(streams'[k].state)
    BY DEF StepsOK, StepOK, Goes, Slab
  <2> QED BY <2>1, StepsInvariant, PTL DEF NeverReopened
<1>3. Spec => RefusalNotOverwritten
  <2>1. Init => RefusalInv
    BY DEF Init, RefusalInv
  <2> QED BY <2>1, RefusalStep, PTL DEF Spec, RefusalNotOverwritten
<1> QED BY <1>1, <1>2, <1>3, PTL DEF StreamSteps

-----------------------------------------------------------------------------
(* drop_stream_ref and release_closed_capacity: what nobody can read is       *)
(* closed and holds no data.                                                  *)
HeldInv == conn # "dropped" => SlabHeld

\* Nothing happens on a connection that was dropped, but for its handles.
LEMMA DroppedStays == [Next]_vars /\ conn = "dropped" => conn' = "dropped"
<1> SUFFICES ASSUME [Next]_vars, conn = "dropped" PROVE conn' = "dropped"
  OBVIOUS
<1>1. CASE UNCHANGED vars
  BY <1>1 DEF vars
<1>2. CASE Poll
  BY <1>2 DEF Poll, BeginPoll, PollReady, NotReady, GoAwaySent, NoFrame,
              IoError, ExpireReset, Waiting
<1>3. CASE Receive
  BY <1>3 DEF Receive, RecvIgnored, RecvInvalid,
       RecvShutdownPong, CodecClosed, RecvMalformed, RefuseHeaders, RecvHeaders,
       RecvTrailers, RecvDataForgotten, RecvDataReset,
       RecvDataError, RecvData, RecvRstStream, RecvWindowUpdate,
       RecvWindowUpdateError, RecvGoAway, ApplyLocalSettings
<1>4. CASE Flush
  BY <1>4 DEF Flush, FlushConnectionWindow, Park, Blocked, WriteError,
              FlushStreamWindow, PopFrame, PopData, PopBlocked
<1>5. CASE Use \/ Clone
  BY <1>5 DEF Use, Clone, AbruptShutdown, DropConnection, SetTarget,
       NextIncoming, CloneHandle, DropRecvStream, DropHandle, UserReset,
       ReleaseCapacity, SendResponse, SendFrame, Waiting
<1> QED BY <1>1, <1>2, <1>3, <1>4, <1>5 DEF Next

\* While the connection is there.
LEMMA HeldInvariant == Spec => []HeldInv
<1>1. Init => HeldInv
  BY VacantFields DEF Init, HeldInv, SlabHeld, Slab
<1>2. HeldInv /\ StepsOK /\ (conn = "dropped" => conn' = "dropped") => HeldInv'
  <2> SUFFICES ASSUME HeldInv, StepsOK, conn' # "dropped", conn # "dropped",
                      NEW k \in Keys, streams'[k].id # 0
               PROVE  Unheld(streams'[k])
    BY DEF HeldInv, SlabHeld, Slab
  <2> QED BY DEF HeldInv, SlabHeld, StepsOK, StepOK, Goes, Slab
<1>3. HeldInv /\ UNCHANGED vars => HeldInv'
  BY DEF HeldInv, SlabHeld, vars, store, Slab, Unheld
<1>4. Spec => [][StepsOK /\ (conn = "dropped" => conn' = "dropped")]_vars
  BY StepsInvariant, DroppedStays, PTL DEF Spec
<1> QED BY <1>1, <1>2, <1>3, <1>4, PTL DEF Spec

(* Whoever drops the last handle of a stream, and whatever the peer sends    *)
(* after that: the stream is closed, and none of the window is left in it.   *)
THEOREM WindowIsGivenBack == Spec => []NoCapacityStranded
<1>1. HeldInv => NoCapacityStranded
  BY DEF HeldInv, SlabHeld, NoCapacityStranded, Unheld
<1> QED BY <1>1, HeldInvariant, PTL

-----------------------------------------------------------------------------
(* The data in flight.  It is counted twice, for the connection and for each *)
(* stream: a step that counts it for one counts it for the other, and frees  *)
(* no stream that has some left.                                             *)
Flights == [k \in Keys |-> streams[k].in_flight_recv_data]

\* The invariant in terms of the sum the lemmas speak of.
LEMMA SumOfFlights ==
  InFlightIsSum <=> (conn # "dropped" => in_flight_data = SumOf(Flights, Keys))
<1>1. MapThenSumSet(LAMBDA k : streams[k].in_flight_recv_data, Keys)
        = SumOf(Flights, Keys)
  BY DEF SumOf, Flights, MapThenSumSet, MapThenFoldSet
<1> QED BY <1>1 DEF InFlightIsSum

\* A step that does not change the data in flight of the connection.
LEMMA FlightsStay ==
  ASSUME SlabInv, SlabInv', SlabHeld, StepsOK, in_flight_data' = in_flight_data,
         conn' # "dropped", NEW k \in Keys
  PROVE  streams'[k].in_flight_recv_data = streams[k].in_flight_recv_data
<1>1. Vacant.in_flight_recv_data = 0
  BY DEF Vacant, NewStream
<1>2. \A j \in Keys : streams[j].id = 0 => streams[j] = Vacant
  BY DEF SlabInv, Sound
<1>3. \A j \in Keys : streams'[j].id = 0 => streams'[j] = Vacant
  BY DEF SlabInv, Sound
<1> QED BY <1>1, <1>2, <1>3 DEF StepsOK, StepOK, Goes, MayFree, SlabHeld, Slab

\* Of all the handlers, four change it.
LEMMA FlightsMove ==
  ASSUME TypeOK, StoreInv, SlabInv, HeldInv, [Next]_vars, conn' # "dropped"
  PROVE  in_flight_data' = in_flight_data \/ \E k \in Keys : FlightOf(k)
<1> USE DEF window
<1>1. conn # "dropped" /\ SlabHeld /\ in_flight_data \in Int
  BY DroppedStays DEF HeldInv, TypeOK
<1>2. CASE UNCHANGED vars
  BY <1>2 DEF vars
<1>3. CASE Poll
  BY <1>3 DEF Poll, BeginPoll, PollReady, NotReady, GoAwaySent, NoFrame,
              IoError, ExpireReset
<1>4. ASSUME NEW k \in Keys, NEW sz \in Sizes, NEW eos \in BOOLEAN,
             RecvData(k, sz, eos)
      PROVE  FlightOf(k)
  BY <1>1, <1>4, SlabFrame DEF Accounts
<1>5. CASE Receive
  BY <1>4, <1>5 DEF Receive, RecvIgnored, RecvInvalid, IgnoreData,
       RecvShutdownPong, CodecClosed, RecvMalformed, RefuseHeaders, RecvHeaders,
       RecvTrailers, RecvDataForgotten, RecvDataReset, RecvDataError,
       RecvRstStream, RecvWindowUpdate, RecvWindowUpdateError, RecvGoAway,
       ApplyLocalSettings
<1>6. CASE Flush
  BY <1>6 DEF Flush, FlushConnectionWindow, Park, Blocked, WriteError,
              FlushStreamWindow, PopFrame, PopData, PopBlocked
<1>7. ASSUME NEW k \in Keys,
             \/ DropRecvStream(k) \/ DropHandle(k)
             \/ \E n \in Sizes : ReleaseCapacity(k, n)
      PROVE  FlightOf(k)
  BY <1>1, <1>7, SlabHandles DEF Accounts
<1>8. CASE Use \/ Clone
  BY <1>7, <1>8 DEF Use, Clone, AbruptShutdown, DropConnection, SetTarget,
       NextIncoming, CloneHandle, UserReset, SendResponse, SendFrame
<1> QED BY <1>2, <1>3, <1>5, <1>6, <1>8 DEF Next

\* The sum moves as the connection's count does.
LEMMA InFlightStep ==
  ASSUME TypeOK, TypeOK', StoreInv, SlabInv, SlabInv', HeldInv, StepsOK,
         InFlightIsSum, [Next]_vars
  PROVE  InFlightIsSum'
<1> SUFFICES ASSUME conn' # "dropped"
             PROVE  in_flight_data' = SumOf(Flights', Keys)
  <2>1. (InFlightIsSum <=>
           (conn # "dropped" => in_flight_data = SumOf(Flights, Keys)))'
    BY SumOfFlights, PTL
  <2> QED BY <2>1
<1>1. conn # "dropped" /\ SlabHeld
  BY DroppedStays DEF HeldInv
<1>2. in_flight_data = SumOf(Flights, Keys)
  BY <1>1, SumOfFlights
<1>3. /\ Flights \in [Keys -> Int] /\ Flights' \in [Keys -> Int]
      /\ in_flight_data \in Int /\ in_flight_data' \in Int
      /\ \A k \in Keys : /\ Flights[k] = streams[k].in_flight_recv_data
                         /\ Flights'[k] = streams'[k].in_flight_recv_data
  BY DEF TypeOK, Stream, Flights
<1>4. CASE in_flight_data' = in_flight_data
  <2>1. \A k \in Keys : Flights'[k] = Flights[k]
    BY <1>1, <1>3, <1>4, FlightsStay
  <2>2. Flights' = Flights
    BY <1>3, <2>1
  <2> QED BY <1>2, <1>4, <2>2
<1>5. ASSUME NEW k \in Keys, FlightOf(k)
      PROVE  in_flight_data' = SumOf(Flights', Keys)
  <2>1. PICK it : /\ Adds(it, Flights, Keys)
                  /\ in_flight_data = it[Keys]
    BY <1>2, KeysAssumption, SumAdds
  <2>2. PICK jt : /\ Adds(jt, Flights', Keys)
                  /\ SumOf(Flights', Keys) = jt[Keys]
    BY KeysAssumption, SumAdds
  <2>3. jt[Keys] = it[Keys] + (Flights'[k] - Flights[k])
    <3>1. \A j \in Keys : j # k => Flights'[j] = Flights[j]
      BY <1>3, <1>5 DEF FlightOf
    <3> QED BY <1>3, <2>1, <2>2, <3>1, KeysAssumption, AddsMoves
  <2>4. Flights'[k] - Flights[k] = in_flight_data' - in_flight_data
    BY <1>3, <1>5 DEF FlightOf
  <2> QED BY <1>3, <2>1, <2>2, <2>3, <2>4
<1> QED BY <1>4, <1>5, FlightsMove

(* Recv and drop_stream_ref: the data in flight of the connection is that of *)
(* its streams, and all of it belongs to streams that somebody can read; for *)
(* any number of streams, and any sizes of DATA and of what is released.     *)
THEOREM InFlightAddsUp == Spec => []InFlightIsOwned
<1>1. Init => InFlightIsSum
  <2> SUFFICES ASSUME Init PROVE InFlightIsSum
    OBVIOUS
  <2>1. \A k \in Keys : Flights[k] = 0
    BY DEF Init, Flights, Vacant, NewStream
  <2>2. PICK it : /\ Adds(it, Flights, Keys)
                  /\ SumOf(Flights, Keys) = it[Keys]
    BY KeysAssumption, SumAdds
  <2>3. it[Keys] = 0
    BY <2>1, <2>2, KeysAssumption, AddsZeros
  <2> QED BY <2>2, <2>3, SumOfFlights DEF Init
<1>2. InFlightIsSum /\ UNCHANGED vars => InFlightIsSum'
  <2> SUFFICES ASSUME InFlightIsSum, UNCHANGED vars PROVE InFlightIsSum'
    OBVIOUS
  <2>1. streams' = streams /\ in_flight_data' = in_flight_data /\ conn' = conn
    BY DEF vars, store, window
  <2>2. (InFlightIsSum <=>
           (conn # "dropped" => in_flight_data = SumOf(Flights, Keys)))'
    BY SumOfFlights, PTL
  <2>3. Flights' = Flights
    BY <2>1 DEF Flights
  <2> QED BY <2>1, <2>2, <2>3, SumOfFlights
<1>3. TypeOK /\ TypeOK' /\ StoreInv /\ SlabInv /\ SlabInv' /\ HeldInv /\ StepsOK
        /\ InFlightIsSum /\ [Next]_vars => InFlightIsSum'
  BY InFlightStep
<1>4. Spec => []InFlightIsSum
  BY <1>1, <1>2, <1>3, TypeCorrect, StoreInvariant, SlabInvariant,
     HeldInvariant, StepsInvariant, PTL DEF Spec
<1> QED BY <1>4, WindowIsGivenBack, PTL DEF InFlightIsOwned

-----------------------------------------------------------------------------
(* The assertions of the code.  The identifier that a final GOAWAY announces *)
(* only grows until it is announced.                                         *)
LastInv ==
  /\ last_processed_id <= max_stream_id
  /\ \A k \in Keys : Live(k) => streams[k].id <= last_processed_id

\* Recv::open, Recv::go_away
LEMMA LastMoves ==
  ASSUME TypeOK, last_processed_id <= max_stream_id, [Next]_vars
  PROVE  last_processed_id <= last_processed_id' /\ last_processed_id' <= max_stream_id'
<1> USE DEF numbers
<1>0. last_processed_id \in Nat /\ max_stream_id \in Nat
  BY DEF TypeOK
<1>1. CASE UNCHANGED <<last_processed_id, max_stream_id>>
  BY <1>0, <1>1
<1>2. CASE \E i \in StreamId, eos \in BOOLEAN : RecvHeaders(i, eos)
  <2>1. PICK i \in StreamId :
          /\ last_processed_id' = IF i > last_processed_id THEN i
                                                           ELSE last_processed_id
          /\ max_stream_id' = max_stream_id /\ i <= max_stream_id
    BY <1>2 DEF RecvHeaders, CanOpen
  <2>2. i \in Nat
    BY BoundAssumption DEF StreamId
  <2> QED BY <1>0, <2>1, <2>2
<1>3. CASE RecvShutdownPong
  BY <1>0, <1>3 DEF RecvShutdownPong
<1>4. CASE UNCHANGED vars
  BY <1>1, <1>4 DEF vars
<1>5. CASE Poll
  BY <1>1, <1>5 DEF Poll, BeginPoll, PollReady, NotReady, GoAwaySent, NoFrame,
              IoError, ExpireReset
<1>6. CASE Receive
  BY <1>1, <1>2, <1>3, <1>6, ZenonT(60) DEF Receive, RecvIgnored, RecvInvalid, ConnectionError,
       CodecClosed, RecvMalformed, RefuseHeaders, RecvTrailers, RecvDataForgotten,
       StreamError, RecvDataReset, RecvDataError, RecvData, RecvRstStream,
       RecvWindowUpdate, RecvWindowUpdateError, RecvGoAway, ApplyLocalSettings
<1>7. CASE Flush
  BY <1>1, <1>7 DEF Flush, FlushConnectionWindow, Park, Blocked, WriteError,
              FlushStreamWindow, PopFrame, PopData, PopBlocked
<1>8. CASE Use \/ Clone
  BY <1>1, <1>8 DEF Use, Clone, AbruptShutdown, DropConnection, SetTarget,
       NextIncoming, CloneHandle, DropRecvStream, DropHandle, UserReset,
       ReleaseCapacity, SendResponse, SendFrame
<1> QED BY <1>4, <1>5, <1>6, <1>7, <1>8 DEF Next

(* Recv::go_away and Prioritize::pop_frame: no assertion about the streams   *)
(* fails, however GOAWAY, resets and the send queue interleave.              *)
THEOREM AssertionsHold == Spec => []AssertsHold
<1>1. Init => LastInv
  <2>1. 0 <= NoLimit
    BY BoundAssumption DEF NoLimit
  <2> QED BY <2>1, VacantFields DEF Init, LastInv, Live, Slab
<1>2. TypeOK /\ TypeOK' /\ LastInv /\ StepsOK /\ [Next]_vars => LastInv'
  <2> SUFFICES ASSUME TypeOK, TypeOK', LastInv, StepsOK, [Next]_vars PROVE LastInv'
    OBVIOUS
  <2>1. last_processed_id <= last_processed_id' /\ last_processed_id' <= max_stream_id'
    BY LastMoves DEF LastInv
  <2>2. ASSUME NEW k \in Keys, streams'[k].id # 0, ~IsClosed(streams'[k].state)
        PROVE  streams'[k].id <= last_processed_id'
    <3>1. CASE streams[k].id # 0 /\ Goes(streams[k], streams'[k])
      <4>1. streams[k].id <= last_processed_id /\ streams'[k].id = streams[k].id
        BY <2>2, <3>1 DEF LastInv, Live, Slab, Goes
      <4>2. /\ streams[k].id \in Nat /\ last_processed_id \in Nat
            /\ last_processed_id' \in Nat
        BY DEF TypeOK, Stream
      <4> QED BY <2>1, <4>1, <4>2
    <3> QED BY <2>2, <3>1 DEF StepsOK, StepOK
  <2> QED BY <2>1, <2>2 DEF LastInv, Live, Slab
<1>3. SlabInv => DanglingIsClosed
  BY VacantFields DEF SlabInv, Sound, SendOK, DanglingIsClosed
<1>4. LastInv => GoAwayCovers
  BY DEF LastInv, GoAwayCovers
<1>5. Spec => []LastInv
  <2>1. LastInv /\ UNCHANGED vars => LastInv'
    BY DEF LastInv, vars, store, numbers, Live, Slab
  <2> QED BY <1>1, <1>2, <2>1, TypeCorrect, StepsInvariant, PTL DEF Spec
<1> QED BY <1>3, <1>4, <1>5, SlabInvariant, PTL DEF AssertsHold

-----------------------------------------------------------------------------
(* A connection that sleeps.  Its wakeup is lost only if a step that does    *)
(* not wake leaves something to write, or ends the last stream.              *)
Idles(s) ==
  /\ s \in Stream
  /\ ~s.is_pending_send /\ ~s.is_pending_window_update
  /\ FullyClosed(s) => ~s.is_counted

Asleep ==
  /\ UnclaimedCapacity(flow) = 0
  /\ \A k \in Keys : Idles(streams[k])
  /\ num_recv_streams = 0 => ~goaway_received /\ max_stream_id = NoLimit

ParkedInv == conn = "parked" /\ task => Asleep

\* Between two handlers a stream that waits for nothing idles.
LEMMA SettledIdles ==
  ASSUME SlabInv, NEW k \in Keys,
         ~streams[k].is_pending_send, ~streams[k].is_pending_window_update
  PROVE  Idles(streams[k])
<1>1. streams[k] \in Stream
  BY SoundSlot
<1>2. CASE streams[k].id # 0
  BY <1>1, <1>2 DEF Idles, SlabInv, Sound, Settled
<1>3. CASE streams[k].id = 0
  BY <1>1, <1>3, VacantFields DEF Idles, SlabInv, Sound
<1> QED BY <1>2, <1>3

\* Counts::transition_after of streams that idle ends none of them.
LEMMA TransitionIdles ==
  ASSUME NEW str \in [Keys -> Stream], \A k \in Keys : Idles(str[k]),
         NEW linked, NEW K \in SUBSET Keys, num_recv_streams \in Int,
         TransitionAfter(str, linked, num_recv_streams, K)
  PROVE  num_recv_streams' = num_recv_streams /\ \A k \in Keys : Idles(streams'[k])
<1> DEFINE done == {k \in K : FullyClosed(str[k])}
<1>1. /\ streams' = [k \in Keys |->
                       IF k \notin done THEN str[k]
                       ELSE IF IsReleased(str[k]) THEN Vacant
                       ELSE Uncount(str[k])]
      /\ num_recv_streams' =
           num_recv_streams - Cardinality({k \in done : str[k].is_counted})
  BY DEF TransitionAfter
<1>2. {k \in done : str[k].is_counted} = {}
  BY DEF Idles
<1>3. num_recv_streams' = num_recv_streams
  <2>1. Cardinality({k \in done : str[k].is_counted}) = 0
    BY <1>2, FS_EmptySet
  <2> QED BY <1>1, <2>1
<1>4. \A s \in Stream : Idles(s) => Idles(Uncount(s))
  BY DEF Idles, Uncount, Stream, FullyClosed
<1>5. Idles(Vacant)
  BY VacantFields DEF Idles
<1> QED BY <1>1, <1>3, <1>4, <1>5

\* Recv::enqueue_reset_expiration of such a stream.
LEMMA EnqueueIdles ==
  ASSUME NEW str \in [Keys -> Stream], \A j \in Keys : Idles(str[j]),
         NEW linked, NEW k \in Keys, num_recv_streams \in Int,
         EnqueueResetExpiration(str, linked, num_recv_streams, k)
  PROVE  num_recv_streams' = num_recv_streams /\ \A j \in Keys : Idles(streams'[j])
<1> DEFINE With(s, j, b) == [s EXCEPT ![j].is_pending_reset = b]
<1>1. ASSUME NEW s \in [Keys -> Stream], \A j \in Keys : Idles(s[j]),
             NEW i \in Keys, NEW b \in BOOLEAN
      PROVE  /\ With(s, i, b) \in [Keys -> Stream]
             /\ \A j \in Keys : Idles(With(s, i, b)[j])
  <2>1. \A r \in Stream :
          LET t == [r EXCEPT !.is_pending_reset = b]
          IN  t \in Stream /\ (Idles(r) => Idles(t))
    BY DEF Stream, Idles, FullyClosed
  <2>2. With(s, i, b)
          = [s EXCEPT ![i] = [s[i] EXCEPT !.is_pending_reset = b]]
    OBVIOUS
  <2> QED BY <1>1, <2>1, <2>2
<1>2. PICK e \in Keys :
        \/ TransitionAfter(str, linked, num_recv_streams, {k})
        \/ TransitionAfter(With(str, k, TRUE), linked, num_recv_streams, {k})
        \/ TransitionAfter(With(str, e, FALSE), linked, num_recv_streams, {e, k})
        \/ TransitionAfter(With(With(str, e, FALSE), k, TRUE), linked,
                           num_recv_streams, {e, k})
  BY DEF EnqueueResetExpiration
<1>3. {k} \in SUBSET Keys /\ {e, k} \in SUBSET Keys
  OBVIOUS
<1> HIDE DEF With
<1>4. /\ With(str, k, TRUE) \in [Keys -> Stream]
      /\ \A j \in Keys : Idles(With(str, k, TRUE)[j])
  BY <1>1
<1>5. /\ With(str, e, FALSE) \in [Keys -> Stream]
      /\ \A j \in Keys : Idles(With(str, e, FALSE)[j])
  BY <1>1
<1>6. /\ With(With(str, e, FALSE), k, TRUE) \in [Keys -> Stream]
      /\ \A j \in Keys : Idles(With(With(str, e, FALSE), k, TRUE)[j])
  BY <1>1, <1>5
<1> QED BY <1>2, <1>3, <1>4, <1>5, <1>6, TransitionIdles

\* One slot changes.
LEMMA PutIdles ==
  ASSUME SlabInv, \A j \in Keys : Idles(streams[j]), NEW k \in Keys, NEW t,
         Idles(t)
  PROVE  LET new == [streams EXCEPT ![k] = t]
         IN  new \in [Keys -> Stream] /\ \A j \in Keys : Idles(new[j])
BY DEF Idles, SlabInv, Sound

(* drop_stream_ref: without a wakeup the handle was not the last one of a    *)
(* stream that is done or has to be reset, and the window is not worth       *)
(* announcing.                                                               *)
LEMMA DropRefIdles ==
  ASSUME TypeOK, SlabInv, Asleep, NEW k \in Keys, NEW s, Idles(s),
         s.ref_count # 0, DropStreamRef(k, s), task'
  PROVE  /\ UnclaimedCapacity(flow') = 0
         /\ num_recv_streams' = num_recv_streams
         /\ \A j \in Keys : Idles(streams'[j])
<1> DEFINE t == [s EXCEPT !.ref_count = @ - 1]
           last == t.ref_count = 0
           size == ClosedCapacity(t)
           freed == [t EXCEPT !.in_flight_recv_data = @ - size]
<1>1. /\ flow' = AssignCapacity(flow, size)
      /\ Transition([streams EXCEPT ![k] = freed], k)
      /\ ~(size > 0 /\ UnclaimedCapacity(flow') > 0)
  BY DEF DropStreamRef, WakeIf
<1>2. s \in Stream /\ s.ref_count \in Nat /\ s.ref_count - 1 \in Nat
  BY DEF Idles, Stream
<1>3. t \in Stream /\ t.in_flight_recv_data = s.in_flight_recv_data /\ Idles(t)
  BY <1>2 DEF Stream, Idles, FullyClosed
<1>4. size \in Nat /\ t.in_flight_recv_data - size \in Nat
  BY <1>3 DEF ClosedCapacity, Stream
<1> HIDE DEF t, size
<1>5. Idles(freed)
  BY <1>3, <1>4 DEF Stream, Idles, FullyClosed
<1> HIDE DEF freed
<1>6. UnclaimedCapacity(flow') = 0
  <2>1. flow \in FlowControl /\ UnclaimedCapacity(flow) = 0
    BY DEF TypeOK, Asleep
  <2>2. CASE size = 0
    BY <1>1, <2>1, <2>2 DEF FlowControl, AssignCapacity, UnclaimedCapacity
  <2>3. UnclaimedCapacity(flow') \in Nat
    BY <1>1, <1>4, <2>1, FlowTypes
  <2> QED BY <1>1, <1>4, <2>2, <2>3
<1>7. num_recv_streams \in Int
  BY DEF TypeOK
<1>8. {k} \in SUBSET Keys
  OBVIOUS
<1> QED BY <1>1, <1>5, <1>6, <1>7, <1>8, PutIdles, TransitionIdles
        DEF Transition, Asleep

\* What the application does to a connection that sleeps wakes it, or leaves
\* nothing to be written.
LEMMA AsleepHandles ==
  ASSUME TypeOK, SlabInv, Asleep, NEW k \in Keys, task',
         \/ NextIncoming(k) \/ CloneHandle(k)
         \/ DropRecvStream(k) \/ DropHandle(k) \/ UserReset(k)
         \/ \E n \in Sizes : ReleaseCapacity(k, n)
         \/ \E eos \in BOOLEAN : SendResponse(k, eos)
         \/ \E eos \in BOOLEAN, sized \in BOOLEAN, now \in BOOLEAN :
              SendFrame(k, eos, sized, now)
  PROVE  /\ UnclaimedCapacity(flow') = 0
         /\ num_recv_streams' = num_recv_streams
         /\ \A j \in Keys : Idles(streams'[j])
<1> DEFINE s == streams[k]
<1>0. /\ s \in Stream /\ Idles(s) /\ UnclaimedCapacity(flow) = 0
      /\ \A j \in Keys : Idles(streams[j])
      /\ num_recv_streams \in Int /\ {k} \in SUBSET Keys
      /\ streams \in [Keys -> Stream]
  BY SoundSlot DEF Asleep, TypeOK
<1>1. CASE NextIncoming(k) \/ CloneHandle(k)
  <2>1. \A n \in Nat : \A b \in BOOLEAN :
          Idles([s EXCEPT !.is_pending_accept = b, !.ref_count = n])
    BY <1>0 DEF Idles, Stream, FullyClosed
  <2>2. \E n \in Nat : \E b \in BOOLEAN :
          streams' = [streams EXCEPT ![k] =
                        [s EXCEPT !.is_pending_accept = b, !.ref_count = n]]
    <3>1. s.ref_count + 2 \in Nat /\ s.ref_count + 1 \in Nat
          /\ s.is_pending_accept \in BOOLEAN
      BY <1>0 DEF Stream
    <3>2. CASE NextIncoming(k)
      <4>1. streams' = [streams EXCEPT ![k] =
                  [s EXCEPT !.is_pending_accept = FALSE, !.ref_count = s.ref_count + 2]]
        BY <1>0, <3>2 DEF NextIncoming
      <4> QED BY <3>1, <4>1
    <3>3. CASE CloneHandle(k)
      <4>1. streams' = [streams EXCEPT ![k] =
                  [s EXCEPT !.is_pending_accept = s.is_pending_accept,
                            !.ref_count = s.ref_count + 1]]
        BY <1>0, <3>3 DEF CloneHandle, Stream
      <4> QED BY <3>1, <4>1
    <3> QED BY <1>1, <3>2, <3>3
  <2>3. flow' = flow /\ num_recv_streams' = num_recv_streams
    BY <1>1 DEF NextIncoming, CloneHandle, window
  <2> QED BY <1>0, <2>1, <2>2, <2>3, PutIdles
<1>2. CASE DropRecvStream(k)
  <2> DEFINE u == [s EXCEPT !.is_recv = FALSE]
  <2>1. Idles(u) /\ u.ref_count = s.ref_count
    BY <1>0 DEF Idles, Stream, FullyClosed
  <2>2. s.ref_count > 0 /\ DropStreamRef(k, u)
    BY <1>2 DEF DropRecvStream
  <2>3. u.ref_count # 0
    BY <1>0, <2>1, <2>2 DEF Stream
  <2> HIDE DEF u
  <2> QED BY <2>1, <2>2, <2>3, DropRefIdles
<1>3. CASE DropHandle(k)
  <2>1. DropStreamRef(k, s) /\ s.ref_count > (IF s.is_recv THEN 1 ELSE 0)
    BY <1>3 DEF DropHandle
  <2>2. s.ref_count # 0
    BY <1>0, <2>1 DEF Stream
  <2> QED BY <1>0, <2>1, <2>2, DropRefIdles
<1>4. CASE UserReset(k)
  <2>1. /\ EnqueueResetExpiration([streams EXCEPT ![k] = SendReset(s)],
                                  ids, num_recv_streams, k)
        /\ ~Resets(s) /\ flow' = flow
    BY <1>4 DEF UserReset, WakeIf, window
  <2>2. Idles(SendReset(s))
    <3>1. SendReset(s) \in Stream
      BY <1>0, ClosingOps DEF Closes
    <3>2. CASE IsReset(s.state)
      BY <1>0, <3>2 DEF SendReset
    <3>3. CASE FullyClosed(s) /\ ~IsReset(s.state)
      BY <1>0, <3>1, <3>3 DEF SendReset, Idles, Stream
    <3> QED BY <2>1, <3>2, <3>3 DEF Resets
  <2> QED BY <1>0, <2>1, <2>2, PutIdles, EnqueueIdles
<1>5. ASSUME NEW n \in Sizes, ReleaseCapacity(k, n)
      PROVE  /\ UnclaimedCapacity(flow') = 0
             /\ num_recv_streams' = num_recv_streams
             /\ \A j \in Keys : Idles(streams'[j])
  <2> DEFINE r == [s EXCEPT !.in_flight_recv_data = @ - n,
                            !.recv_flow = AssignCapacity(@, n)]
             due == UnclaimedCapacity(r.recv_flow) > 0
  <2>1. n \in Nat /\ n <= s.in_flight_recv_data
    BY <1>5, WindowAssumption DEF ReleaseCapacity, Releasable
  <2>2. r \in Stream
    BY <1>0, <2>1, ReleaseType
  <2>3. /\ streams' = [streams EXCEPT ![k] =
                         [r EXCEPT !.is_pending_window_update = @ \/ due]]
        /\ flow' = AssignCapacity(flow, n)
        /\ ~(due \/ UnclaimedCapacity(flow') > 0)
        /\ num_recv_streams' = num_recv_streams
    BY <1>5 DEF ReleaseCapacity, WakeIf
  <2>4. Idles(r)
    BY <1>0, <2>2 DEF Idles, Stream, FullyClosed
  <2> HIDE DEF r
  <2>5. ~(r.is_pending_window_update \/ due)
    BY <2>3, <2>4 DEF Idles
  <2>6. Idles([r EXCEPT !.is_pending_window_update = r.is_pending_window_update \/ due])
    <3>1. (r.is_pending_window_update \/ due) \in BOOLEAN
      OBVIOUS
    <3> HIDE DEF due
    <3> QED BY <2>4, <2>5, <3>1 DEF Idles, Stream, FullyClosed
  <2>7. UnclaimedCapacity(flow') = 0
    <3>1. flow \in FlowControl /\ n \in Int
      BY <2>1 DEF TypeOK
    <3>2. AssignCapacity(flow, n) \in FlowControl
      BY <3>1, FlowTypes
    <3>3. UnclaimedCapacity(flow') \in Nat
      BY <2>3, <3>2, FlowTypes
    <3> QED BY <2>3, <3>3
  <2> QED BY <1>0, <2>3, <2>6, <2>7, PutIdles
<1>6. ASSUME NEW eos \in BOOLEAN, SendResponse(k, eos)
      PROVE  FALSE
  BY <1>6 DEF SendResponse, WakeIf
<1>7. ASSUME NEW eos \in BOOLEAN, NEW sized \in BOOLEAN, NEW now \in BOOLEAN,
             SendFrame(k, eos, sized, now)
      PROVE  /\ UnclaimedCapacity(flow') = 0
             /\ num_recv_streams' = num_recv_streams
             /\ \A j \in Keys : Idles(streams'[j])
  <2> DEFINE t == [s EXCEPT !.state = IF eos THEN SendClose(@) ELSE @,
                            !.pending_send = TRUE,
                            !.buffered_send_data = @ \/ sized,
                            !.is_pending_send = @ \/ now]
  <2>1. ~now /\ flow' = flow /\ IsSendStreaming(s.state)
        /\ Transition([streams EXCEPT ![k] = t], k)
    BY <1>7 DEF SendFrame, WakeIf, window
  <2>2. SendClose(s.state) \in State
    BY <1>0, <2>1, SendCloseType DEF Stream
  <2>3. /\ (s.buffered_send_data \/ sized) \in BOOLEAN
        /\ ~(s.is_pending_send \/ now) /\ (s.is_pending_send \/ now) \in BOOLEAN
    BY <1>0, <2>1 DEF Idles
  <2>4. Idles(t)
    BY <1>0, <2>2, <2>3 DEF Idles, Stream, FullyClosed
  <2> HIDE DEF t
  <2> QED BY <1>0, <2>1, <2>4, PutIdles, TransitionIdles DEF Transition
<1> QED BY <1>1, <1>2, <1>3, <1>4, <1>5, <1>6, <1>7

\* A step that leaves the connection asleep and not woken leaves it nothing
\* to do.
LEMMA ParkedStep ==
  TypeOK /\ SlabInv /\ SlabInv' /\ ParkedInv /\ [Next]_vars => ParkedInv'
<1> SUFFICES ASSUME TypeOK, SlabInv, SlabInv', ParkedInv, [Next]_vars,
                    conn' = "parked", task'
             PROVE  Asleep'
  BY DEF ParkedInv
<1> USE DEF Polling, Waiting, numbers, peer
<1>1. CASE UNCHANGED vars
  BY <1>1 DEF vars, store, window, ParkedInv, Asleep, Idles
<1>2. CASE Park
  <2>1. /\ WindowsFlushed /\ ~Done
        /\ \A k \in Keys : ~streams[k].is_pending_send
        /\ UNCHANGED <<streams, num_recv_streams, flow, goaway_received,
                       max_stream_id>>
    BY <1>2 DEF Park, store, window
  <2>2. \A k \in Keys : Idles(streams[k])
    BY <2>1, SettledIdles DEF WindowsFlushed
  <2> QED BY <2>1, <2>2 DEF Asleep, Idles, WindowsFlushed, Done
<1>3. ASSUME conn = "parked", task, UNCHANGED <<goaway_received, max_stream_id>>,
             UnclaimedCapacity(flow') = 0, num_recv_streams' = num_recv_streams,
             \A j \in Keys : Idles(streams'[j])
      PROVE  Asleep'
  BY <1>3 DEF ParkedInv, Asleep, Idles
<1>4. ASSUME NEW t \in Targets, SetTarget(t)
      PROVE  Asleep'
  <2>1. /\ flow' = AssignCapacity(flow, t - (flow.available + in_flight_data))
        /\ ~(UnclaimedCapacity(flow') > 0) /\ task /\ conn = "parked"
        /\ UNCHANGED <<streams, num_recv_streams, goaway_received, max_stream_id>>
    BY <1>4 DEF SetTarget, WakeIf, store
  <2>2. t - (flow.available + in_flight_data) \in Int /\ flow \in FlowControl
    BY WindowAssumption DEF TypeOK, FlowControl
  <2>3. UnclaimedCapacity(flow') = 0
    <3>1. UnclaimedCapacity(flow') \in Nat
      BY <2>1, <2>2, FlowTypes
    <3> QED BY <2>1, <3>1
  <2> QED BY <1>3, <2>1, <2>3 DEF ParkedInv, Asleep, Idles
<1>5. ASSUME NEW k \in Keys,
             \/ NextIncoming(k) \/ CloneHandle(k)
             \/ DropRecvStream(k) \/ DropHandle(k) \/ UserReset(k)
             \/ \E n \in Sizes : ReleaseCapacity(k, n)
             \/ \E eos \in BOOLEAN : SendResponse(k, eos)
             \/ \E eos \in BOOLEAN, sized \in BOOLEAN, now \in BOOLEAN :
                  SendFrame(k, eos, sized, now)
      PROVE  Asleep'
  <2>1. conn = "parked" /\ task /\ UNCHANGED <<goaway_received, max_stream_id>>
    BY <1>5 DEF NextIncoming, CloneHandle, DropRecvStream, DropHandle, UserReset,
         ReleaseCapacity, SendResponse, SendFrame, DropStreamRef, WakeIf
  <2>2. Asleep
    BY <2>1 DEF ParkedInv
  <2> QED BY <1>3, <1>5, <2>1, <2>2, AsleepHandles
<1>6. ~Poll /\ ~Receive
  BY ZenonT(60) DEF Poll, BeginPoll, PollReady, NotReady, GoAwaySent, NoFrame, IoError,
         ExpireReset, Receive, RecvIgnored, RecvInvalid, ConnectionError,
         RecvShutdownPong, CodecClosed, RecvMalformed, RefuseHeaders, RecvHeaders,
         RecvTrailers, RecvDataForgotten, StreamError, RecvDataReset,
         RecvDataError, RecvData, RecvRstStream, RecvWindowUpdate,
         RecvWindowUpdateError, RecvGoAway, ApplyLocalSettings
<1>7. CASE Flush
  BY <1>2, <1>7 DEF Flush, FlushConnectionWindow, Blocked, WriteError,
                    FlushStreamWindow, PopFrame, PopData, PopBlocked
<1>8. CASE Use \/ Clone
  BY <1>4, <1>5, <1>8 DEF Use, Clone, AbruptShutdown, DropConnection
<1> QED BY <1>1, <1>6, <1>7, <1>8 DEF Next

(* transition_after and actions.task: nothing is left over in the slab, and  *)
(* nothing that a sleeping connection was not woken for, whoever drops,      *)
(* releases, resets or sends while it sleeps.                                *)
THEOREM NothingIsLeft == Spec => []NothingLeft
<1>1. Init => ParkedInv
  BY DEF Init, ParkedInv
<1>2. Spec => []ParkedInv
  BY <1>1, ParkedStep, TypeCorrect, SlabInvariant, PTL DEF Spec
<1>3. SlabInv => NoLeak
  BY DEF SlabInv, Sound, Settled, NoLeak, Slab
<1>4. ParkedInv => NothingForgotten /\ ShutdownNotForgotten
  BY DEF ParkedInv, Asleep, Idles, NothingForgotten, ShutdownNotForgotten,
         WindowsFlushed
<1> QED BY <1>2, <1>3, <1>4, SlabInvariant, PTL DEF NothingLeft
=============================================================================
