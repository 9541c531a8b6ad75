-------------------------------- MODULE Spsc --------------------------------
(***************************************************************************)
(* util::spsc: a channel of one slot between two ends that share a cell.   *)
(*                                                                         *)
(* An end is polled by a task, and a pending call may be polled again by   *)
(* another one (a future moves, or sits in a select); the wakers kept in   *)
(* the cell are then those of tasks, not of ends.  A waker wakes the       *)
(* pending calls of its task.  A call may be dropped while it waits, which *)
(* leaves its waker in the cell.                                           *)
(***************************************************************************)
EXTENDS Naturals, Sequences, FiniteSets

CONSTANTS
  Value,      \* the items
  Task,       \* the tasks that poll the ends
  None,       \* no item, no task
  MaxSent     \* bound on the number of items sent

ASSUME SpscAssumption == None \notin Value /\ None \notin Task /\ MaxSent \in Nat

End == {"sender", "receiver"}
Waker == {"receiver_waker", "sender_waker", "close_waker"}
Call == {"idle", "send", "poll_ready", "ready", "closed", "recv"}

VARIABLES
  slot,       \* Shared::slot
  closed,     \* Shared::closed
  waker,      \* the three wakers of Shared
  alive,      \* the ends that are not dropped
  call,       \* call[e]: the call end e is in
  item,       \* the item of a pending Send
  owner,      \* owner[e]: the task that last polled the call of e
  woken,      \* the ends whose call is to be polled
  sent, got,  \* every item put into the slot, and every item received
  told        \* the ends that were told that the channel is closed

vars == <<slot, closed, waker, alive, call, item, owner, woken, sent, got, told>>

TypeOK ==
  /\ slot \in Value \cup {None} /\ item \in Value \cup {None}
  /\ closed = (alive # End)
  /\ waker \in [Waker -> Task \cup {None}]
  /\ alive \subseteq End /\ woken \subseteq alive /\ told \subseteq End
  /\ call \in [End -> Call] /\ owner \in [End -> Task \cup {None}]
  /\ sent \in Seq(Value) /\ got \in Seq(Value)

Pending(e) == call[e] \notin {"idle", "ready"}

\* spsc_pair
Init ==
  /\ slot = None /\ closed = FALSE
  /\ waker = [w \in Waker |-> None]
  /\ alive = End
  /\ call = [e \in End |-> "idle"] /\ item = None
  /\ owner = [e \in End |-> None] /\ woken = {}
  /\ sent = <<>> /\ got = <<>> /\ told = {}

\* The ends that run when the wakers ws are taken and woken.
Wakes(ws) == {e \in alive : Pending(e) /\ owner[e] \in {waker[w] : w \in ws} \ {None}}

Clear(ws) == [w \in Waker |-> IF w \in ws THEN None ELSE waker[w]]

\* A waker that is there is kept.
KeepWaker(w, t) == IF waker[w] = None THEN [waker EXCEPT ![w] = t] ELSE waker

SetWaker(w, t) == [waker EXCEPT ![w] = t]

\* An end starts a call: its task polls it next.
Start(e, c, t) ==
  /\ e \in alive /\ ~Pending(e)
  /\ call' = [call EXCEPT ![e] = c]
  /\ owner' = [owner EXCEPT ![e] = t]
  /\ woken' = woken \cup {e}
  /\ UNCHANGED <<slot, closed, waker, alive, sent, got, told>>

StartRecv(t) == Start("receiver", "recv", t) /\ UNCHANGED item
StartSend(v, t) ==
  /\ Len(sent) < MaxSent
  /\ Start("sender", "send", t) /\ item' = v
StartPollReady(t) == Start("sender", "poll_ready", t) /\ UNCHANGED item
StartClosed(t) == Start("sender", "closed", t) /\ UNCHANGED item

\* The future is dropped; Shared is not told.
Cancel(e) ==
  /\ Pending(e)
  /\ call' = [call EXCEPT ![e] = "idle"]
  /\ item' = IF e = "sender" THEN None ELSE item
  /\ woken' = woken \ {e}
  /\ UNCHANGED <<slot, closed, waker, alive, owner, sent, got, told>>

\* The call of e waits with the waker of t.
Wait(e, w, t) ==
  /\ waker' = SetWaker(w, t)
  /\ owner' = [owner EXCEPT ![e] = t]
  /\ woken' = woken \ {e}
  /\ UNCHANGED <<slot, closed, alive, call, item, sent, got, told>>

\* The call of e ends; the tasks of ws are woken.
Return(e, c, ws) ==
  /\ call' = [call EXCEPT ![e] = c]
  /\ woken' = (woken \cup Wakes(ws)) \ {e}
  /\ UNCHANGED <<alive, owner>>

PollRecv(t) ==
  /\ call["receiver"] = "recv"
  /\ \/ /\ slot # None
        /\ slot' = None /\ got' = Append(got, slot)
        /\ waker' = Clear({"receiver_waker", "sender_waker"})
        /\ Return("receiver", "idle", {"sender_waker"})
        /\ UNCHANGED <<closed, item, sent, told>>
     \/ /\ slot = None /\ closed
        /\ told' = told \cup {"receiver"}
        /\ Return("receiver", "idle", {})
        /\ UNCHANGED <<slot, closed, waker, item, sent, got>>
     \/ /\ slot = None /\ ~closed
        /\ Wait("receiver", "receiver_waker", t)

\* do_send
DoSend(v, c) ==
  /\ slot' = v /\ sent' = Append(sent, v)
  /\ waker' = Clear({"receiver_waker"})
  /\ Return("sender", c, {"receiver_waker"})
  /\ UNCHANGED <<closed, got, told>>

Full == slot # None

\* Send::poll and poll_ready.
PollReady(t) ==
  /\ call["sender"] \in {"send", "poll_ready"}
  /\ \/ /\ closed
        /\ told' = told \cup {"sender"} /\ item' = None
        /\ Return("sender", "idle", {})
        /\ UNCHANGED <<slot, closed, waker, sent, got>>
     \/ /\ ~closed /\ Full
        /\ Wait("sender", "sender_waker", t)
     \/ /\ ~closed /\ ~Full /\ call["sender"] = "send"
        /\ DoSend(item, "idle") /\ item' = None
     \/ /\ ~closed /\ ~Full /\ call["sender"] = "poll_ready"
        /\ Return("sender", "ready", {})
        /\ UNCHANGED <<slot, closed, waker, item, sent, got, told>>

\* The caller of poll_ready sends, some time after it was told Ready(Some).
SendReady(v) ==
  /\ "sender" \in alive /\ call["sender"] = "ready"
  /\ Len(sent) < MaxSent
  /\ DoSend(v, "idle") /\ UNCHANGED item

PollClosed(t) ==
  /\ call["sender"] = "closed"
  /\ \/ /\ closed
        /\ told' = told \cup {"sender"}
        /\ Return("sender", "idle", {})
        /\ UNCHANGED <<slot, closed, waker, item, sent, got>>
     \/ /\ ~closed
        /\ Wait("sender", "close_waker", t)

Poll(e, t) ==
  /\ e \in alive
  /\ IF e = "receiver" THEN PollRecv(t) ELSE PollReady(t) \/ PollClosed(t)

\* Drop of an end: it closes the channel, forgets its own waker and wakes the
\* other end, and whoever waits for the close.
OwnWaker(e) == IF e = "sender" THEN "sender_waker" ELSE "receiver_waker"

Closes(e) == TRUE

DropEnd(e) ==
  /\ e \in alive
  /\ alive' = alive \ {e}
  /\ closed' = Closes(e)
  /\ waker' = Clear(Waker)
  /\ call' = [call EXCEPT ![e] = "idle"]
  /\ item' = IF e = "sender" THEN None ELSE item
  /\ woken' = (woken \cup Wakes(Waker \ {OwnWaker(e)})) \ {e}
  /\ UNCHANGED <<slot, owner, sent, got, told>>

Next ==
  \/ \E t \in Task :
       \/ StartRecv(t) \/ StartPollReady(t) \/ StartClosed(t)
       \/ \E v \in Value : StartSend(v, t)
       \/ \E e \in End : Poll(e, t)
  \/ \E v \in Value : SendReady(v)
  \/ \E e \in End : Cancel(e) \/ DropEnd(e)

\* The executor polls a task that was woken; a call that is polled on behalf
\* of nobody is not counted on.
Run(e) == e \in woken /\ Poll(e, owner[e])

Spec == Init /\ [][Next]_vars
FairSpec == Spec /\ \A e \in End : WF_vars(Run(e))

-----------------------------------------------------------------------------
\* A pending call that would no longer wait is one the executor will poll:
\* whatever moves, drops and stale wakers happened before, no wake-up is lost.
CanReturn(e) ==
  CASE call[e] = "recv" -> slot # None \/ closed
    [] call[e] \in {"send", "poll_ready"} -> slot = None \/ closed
    [] call[e] = "closed" -> closed

NoLostWakeup == \A e \in alive : Pending(e) /\ CanReturn(e) => e \in woken

\* An item put into the slot never replaces one that was not received, also
\* when the sender was told long before that the slot is free: an unread item
\* is in the slot, and there is only one.
NothingOverwritten ==
  sent = got \o IF slot = None THEN <<>> ELSE <<slot>>

\* The two ends together are a channel of one item that answers every call.
C == INSTANCE Channel WITH
       Capacity <- 1,
       open <- alive,
       asking <- {IF call[e] \in {"send", "poll_ready"} THEN "send"
                  ELSE IF call[e] = "closed" THEN "watch" ELSE "recv" :
                  e \in {f \in End : Pending(f)}},
       granted <- call["sender"] = "ready"

IsChannel == C!Spec

\* Every call that can be answered is.
Answered == C!Answered
=============================================================================
