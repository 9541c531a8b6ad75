------------------------------ MODULE H2Store ------------------------------
(***************************************************************************)
(* h2::proto::streams::store and ::buffer: the streams of a connection.    *)
(*                                                                         *)
(* Streams live in a slab whose places are used again; a key is a place    *)
(* and the identifier of the stream that was put there.  The identifier    *)
(* map keeps an order that swap_remove changes.  A queue of streams is a   *)
(* head, a tail and a pointer in every stream; a queue of frames is a head *)
(* and a tail into a buffer that all streams share.  H2Recv and H2Send     *)
(* take these structures for sets, maps and sequences: here they are shown *)
(* to be.                                                                  *)
(*                                                                         *)
(* When a stream is unlinked, removed or put into a queue is decided by    *)
(* the streams layer; of its rules only those are kept that the store      *)
(* relies on.                                                              *)
(***************************************************************************)
EXTENDS Naturals, Sequences, FiniteSets, Functions

CONSTANTS
  Index,      \* places of the slab
  Slot,       \* places of the frame buffer
  StreamId,   \* identifiers
  QueueName,  \* the queues a stream can be in
  Frame,      \* frames
  None        \* no key, no place

ASSUME H2StoreAssumption ==
  /\ None \notin Index /\ None \notin Slot
  /\ None \notin Index \X StreamId

Key == Index \X StreamId

VARIABLES
  slab,       \* slab[i]: the stream at place i, or None
  ids,        \* the identifier map, in its order: keys
  queue,      \* queue[q]: the Indices of queue q, or None
  buffer,     \* buffer[s]: the frame and the next pointer at place s, or None
  walk,       \* try_for_each: where it stands, and whom it visited
  order,      \* what queue q holds, first in first out
  frames      \* what the stream at place i has queued

vars == <<slab, ids, queue, buffer, walk, order, frames>>

Indices(K) == [head : K, tail : K] \cup {None}

Stream == [id : StreamId, queued : [QueueName -> BOOLEAN],
           next : [QueueName -> Key \cup {None}], pending : Indices(Slot),
           closed : BOOLEAN, held : BOOLEAN]

NoWalk == [on |-> FALSE, i |-> 1, len |-> 0, visited |-> <<>>, start |-> {}]

TypeOK ==
  /\ slab \in [Index -> Stream \cup {None}]
  /\ ids \in Seq(Key)
  /\ queue \in [QueueName -> Indices(Key)]
  /\ buffer \in [Slot -> [value : Frame, next : Slot \cup {None}] \cup {None}]
  /\ walk \in [on : BOOLEAN, i : Nat, len : Nat, visited : Seq(Key), start : SUBSET Key]
  /\ order \in [QueueName -> Seq(Key)]
  /\ frames \in [Index -> Seq(Frame)]

Init ==
  /\ slab = [i \in Index |-> None]
  /\ ids = <<>>
  /\ queue = [q \in QueueName |-> None]
  /\ buffer = [s \in Slot |-> None]
  /\ walk = NoWalk
  /\ order = [q \in QueueName |-> <<>>]
  /\ frames = [i \in Index |-> <<>>]

-----------------------------------------------------------------------------
\* A key resolves to the stream it was made for, or not at all.
Resolves(k) == slab[k[1]] # None /\ slab[k[1]].id = k[2]

At(k) == slab[k[1]]

Streams == {k \in Key : Resolves(k)}

Linked == {ids[i] : i \in 1..Len(ids)}

Used(id) == \E k \in Linked \cup Streams : k[2] = id

\* swap_remove puts the last entry into the place of the one that goes.
SwapRemoved(k) ==
  LET j == CHOOSE i \in 1..Len(ids) : ids[i] = k
      n == Len(ids)
  IN  [i \in 1..(n - 1) |-> IF i = j THEN ids[n] ELSE ids[i]]

NewStream(id) ==
  [id |-> id, queued |-> [q \in QueueName |-> FALSE],
   next |-> [q \in QueueName |-> None], pending |-> None,
   closed |-> FALSE, held |-> TRUE]

\* Store::insert and VacantEntry::insert, for an identifier that is in no use.
Insert(i, id) ==
  /\ ~walk.on
  /\ slab[i] = None /\ ~Used(id)
  /\ slab' = [slab EXCEPT ![i] = NewStream(id)]
  /\ ids' = Append(ids, <<i, id>>)
  /\ UNCHANGED <<queue, buffer, walk, order, frames>>

\* The streams layer closes a stream, and its last handle goes.
Close(k) ==
  /\ ~walk.on
  /\ ~At(k).closed
  /\ slab' = [slab EXCEPT ![k[1]].closed = TRUE]
  /\ UNCHANGED <<ids, queue, buffer, walk, order, frames>>

DropHandle(k) ==
  /\ ~walk.on
  /\ At(k).held
  /\ slab' = [slab EXCEPT ![k[1]].held = FALSE]
  /\ UNCHANGED <<ids, queue, buffer, walk, order, frames>>

\* Ptr::unlink
Unlink(k) ==
  /\ ~walk.on
  /\ At(k).closed /\ At(k).pending = None /\ k \in Linked
  /\ ids' = SwapRemoved(k)
  /\ UNCHANGED <<slab, queue, buffer, walk, order, frames>>

ReleasedButQueued(s) == s.closed /\ ~s.held /\ s.pending = None

\* Stream::is_released
Released(s) ==
  s.closed /\ ~s.held /\ s.pending = None /\ \A q \in QueueName : ~s.queued[q]

\* Ptr::remove
RemovePtr(k) ==
  /\ ~walk.on
  /\ k \notin Linked /\ Released(At(k))
  /\ slab' = [slab EXCEPT ![k[1]] = None]
  /\ UNCHANGED <<ids, queue, buffer, walk, order, frames>>

-----------------------------------------------------------------------------
\* Queue::push; a stream that is queued stays where it is.
Push(q, k) ==
  /\ ~walk.on
  /\ ~At(k).queued[q]
  /\ LET queued == [slab EXCEPT ![k[1]].queued[q] = TRUE]
     IN  IF queue[q] = None
         THEN /\ queue' = [queue EXCEPT ![q] = [head |-> k, tail |-> k]]
              /\ slab' = queued
         ELSE /\ queue' = [queue EXCEPT ![q].tail = k]
              /\ slab' = [queued EXCEPT ![queue[q].tail[1]].next[q] = k]
  /\ order' = [order EXCEPT ![q] = Append(@, k)]
  /\ UNCHANGED <<ids, buffer, walk, frames>>

\* take_next
TakeNext(next, q) == [next EXCEPT ![q] = None]

IsLast(q) == queue[q].head = queue[q].tail

\* Queue::pop, pop_if
Pop(q) ==
  /\ ~walk.on
  /\ queue[q] # None
  /\ LET head == queue[q].head
         left == [At(head) EXCEPT !.queued[q] = FALSE, !.next = TakeNext(@, q)]
     IN  /\ IF IsLast(q)
            THEN queue' = [queue EXCEPT ![q] = None]
            ELSE queue' = [queue EXCEPT ![q].head = At(head).next[q]]
         /\ slab' = [slab EXCEPT ![head[1]] = left]
  /\ order' = [order EXCEPT ![q] = Tail(@)]
  /\ UNCHANGED <<ids, buffer, walk, frames>>

-----------------------------------------------------------------------------
\* Deque::push_back, push_front and pop_front of the frames of stream k.
PushBack(k, s, f) ==
  /\ ~walk.on
  /\ ~At(k).closed
  /\ buffer[s] = None
  /\ LET deque == At(k).pending
         inserted == [buffer EXCEPT ![s] = [value |-> f, next |-> None]]
     IN  IF deque = None
         THEN /\ slab' = [slab EXCEPT ![k[1]].pending = [head |-> s, tail |-> s]]
              /\ buffer' = inserted
         ELSE /\ slab' = [slab EXCEPT ![k[1]].pending.tail = s]
              /\ buffer' = [inserted EXCEPT ![deque.tail].next = s]
  /\ frames' = [frames EXCEPT ![k[1]] = Append(@, f)]
  /\ UNCHANGED <<ids, queue, walk, order>>

PushFront(k, s, f) ==
  /\ ~walk.on
  /\ ~At(k).closed
  /\ buffer[s] = None
  /\ LET deque == At(k).pending
     IN  IF deque = None
         THEN /\ slab' = [slab EXCEPT ![k[1]].pending = [head |-> s, tail |-> s]]
              /\ buffer' = [buffer EXCEPT ![s] = [value |-> f, next |-> None]]
         ELSE /\ slab' = [slab EXCEPT ![k[1]].pending.head = s]
              /\ buffer' = [buffer EXCEPT ![s] = [value |-> f, next |-> deque.head]]
  /\ frames' = [frames EXCEPT ![k[1]] = <<f>> \o @]
  /\ UNCHANGED <<ids, queue, walk, order>>

Freed(s) == [buffer EXCEPT ![s] = None]

PopFront(k) ==
  /\ ~walk.on
  /\ At(k).pending # None
  /\ LET deque == At(k).pending
     IN  /\ IF deque.head = deque.tail
            THEN slab' = [slab EXCEPT ![k[1]].pending = None]
            ELSE slab' = [slab EXCEPT ![k[1]].pending.head = buffer[deque.head].next]
         /\ buffer' = Freed(deque.head)
  /\ frames' = [frames EXCEPT ![k[1]] = Tail(@)]
  /\ UNCHANGED <<ids, queue, walk, order>>

-----------------------------------------------------------------------------
\* try_for_each: its body may close, unlink and remove the stream it is given
\* (and no other one: AssignUnlinksNothing of H2Send).
StartWalk ==
  /\ ~walk.on
  /\ Len(ids) > 0
  /\ walk' = [on |-> TRUE, i |-> 1, len |-> Len(ids), visited |-> <<>>, start |-> Linked]
  /\ UNCHANGED <<slab, ids, queue, buffer, order, frames>>

\* The entry that took the place of one that is gone comes next.
Steps(gone) == IF gone THEN 0 ELSE 1

\* The body may close its stream; it is unlinked then, and removed with it when
\* nothing else holds it.
Visit(closes) ==
  /\ walk.on /\ walk.i <= walk.len
  /\ LET k == ids[walk.i]
         closed == [At(k) EXCEPT !.closed = TRUE]
     IN  /\ closes => At(k).pending = None
         /\ ids' = IF closes THEN SwapRemoved(k) ELSE ids
         /\ slab' = IF closes
                    THEN [slab EXCEPT ![k[1]] = IF Released(closed) THEN None ELSE closed]
                    ELSE slab
         /\ walk' = [walk EXCEPT !.visited = Append(@, k), !.i = @ + Steps(closes),
                                 !.len = IF closes THEN @ - 1 ELSE @]
  /\ UNCHANGED <<queue, buffer, order, frames>>

\* The walk ends, or the body fails.
EndWalk ==
  /\ walk.on /\ walk.i > walk.len
  /\ walk' = [walk EXCEPT !.on = FALSE, !.visited = <<>>, !.start = {}, !.i = 1, !.len = 0]
  /\ UNCHANGED <<slab, ids, queue, buffer, order, frames>>

FailWalk ==
  /\ walk.on /\ walk.visited # <<>>
  /\ walk' = NoWalk
  /\ UNCHANGED <<slab, ids, queue, buffer, order, frames>>

Next ==
  \/ \E i \in Index, id \in StreamId : Insert(i, id)
  \/ \E k \in Streams :
       \/ Close(k) \/ DropHandle(k) \/ Unlink(k) \/ RemovePtr(k)
       \/ \E q \in QueueName : Push(q, k)
       \/ \E s \in Slot, f \in Frame : PushBack(k, s, f) \/ PushFront(k, s, f)
       \/ PopFront(k)
  \/ \E q \in QueueName : Pop(q)
  \/ StartWalk
  \/ \E closes \in BOOLEAN : Visit(closes)
  \/ EndWalk
  \/ FailWalk

Spec == Init /\ [][Next]_vars

-----------------------------------------------------------------------------
\* Every key that is kept - in the identifier map, in a queue, in the pointer of
\* a queued stream - resolves: "dangling store key" is never reached.
KeysResolve ==
  /\ Linked \subseteq Streams
  /\ \A q \in QueueName :
       /\ queue[q] # None => {queue[q].head, queue[q].tail} \subseteq Streams
       /\ \A k \in Streams : At(k).next[q] # None => At(k).next[q] \in Streams

\* The pointers of a queue thread the streams in the order in which they were
\* pushed, each one once; nobody else has a pointer.
IsThread(q) ==
  LET o == order[q]
      n == Len(o)
  IN  /\ \A i, j \in 1..n : o[i] = o[j] => i = j
      /\ {o[i] : i \in 1..n} = {k \in Streams : At(k).queued[q]}
      /\ IF n = 0 THEN queue[q] = None
         ELSE queue[q] = [head |-> o[1], tail |-> o[n]]
      /\ \A i \in 1..n : At(o[i]).next[q] = IF i = n THEN None ELSE o[i + 1]
      /\ \A k \in Streams : ~At(k).queued[q] => At(k).next[q] = None

QueuesAreLists == \A q \in QueueName : IsThread(q)

\* Frames of different streams share the buffer without meeting, and a place of
\* it is used exactly as long as a stream has a frame there.
Chains(i, c) ==
  /\ Len(c) = Len(frames[i])
  /\ IF c = <<>> THEN slab[i] = None \/ slab[i].pending = None
     ELSE slab[i] # None /\ slab[i].pending = [head |-> c[1], tail |-> c[Len(c)]]
  /\ \A j \in 1..Len(c) :
       buffer[c[j]] = [value |-> frames[i][j],
                       next |-> IF j = Len(c) THEN None ELSE c[j + 1]]

BufferIsShared ==
  LET Owned(i) == {c \in [1..Len(frames[i]) -> Slot] : Chains(i, c)}
      Places(i) == Range(CHOOSE c \in Owned(i) : TRUE)
  IN  /\ \A i \in Index : \E c \in Owned(i) : IsInjective(c)
      /\ \A i, j \in Index : i # j => Places(i) \cap Places(j) = {}
      /\ {s \in Slot : buffer[s] # None} = UNION {Places(i) : i \in Index}

\* A walk visits every stream that was there, once, although the streams it
\* closes leave the map under it.
WalkVisitsAll ==
  walk.on =>
    /\ \A i, j \in 1..Len(walk.visited) : walk.visited[i] = walk.visited[j] => i = j
    /\ walk.i <= walk.len => walk.len <= Len(ids)
    /\ walk.i > walk.len =>
         {walk.visited[i] : i \in 1..Len(walk.visited)} = walk.start
=============================================================================
