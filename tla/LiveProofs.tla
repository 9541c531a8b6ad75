----------------------------- MODULE LiveProofs -----------------------------
(***************************************************************************)
(* Theorems about the one-slot channel, for any items, tasks and number of *)
(* sends: types, no wake-up is lost, no item is overwritten, and the two   *)
(* ends are a Channel of one item.  Then what is proved of the channel and *)
(* of the payload of an HTTP/1 message, said of the behaviours that MCLive *)
(* composes of them.                                                       *)
(***************************************************************************)
EXTENDS MCLive, SequenceTheorems, TLAPS

-----------------------------------------------------------------------------
(* Spsc.                                                                     *)


(* The waker under which a call waits.                                      *)
WakerOf(c) == IF c = "recv" THEN "receiver_waker"
              ELSE IF c = "closed" THEN "close_waker" ELSE "sender_waker"

(* Each end makes its own calls, a Send holds its item until it returns, and *)
(* an end that is gone makes none.                                           *)
CallsOK ==
  /\ call["receiver"] \in {"idle", "recv"}
  /\ call["sender"] # "recv"
  /\ call["sender"] = "send" => item \in Value
  /\ \A e \in End : Pending(e) => e \in alive

(* A call that is not about to be polled waits: the task that polled it last *)
(* is in the waker of that call.                                             *)
Waits ==
  \A e \in End : Pending(e) /\ e \notin woken =>
    owner[e] \in Task /\ waker[WakerOf(call[e])] = owner[e]

(* A sender that was told that the slot is free finds it free when it sends. *)
ReadyIsFree == call["sender"] = "ready" => slot = None

IInv ==
  TypeOK /\ CallsOK /\ Waits /\ ReadyIsFree /\ NoLostWakeup /\ NothingOverwritten

(* The wakers of an end.                                                     *)
WakersOf(e) == IF e = "receiver" THEN {"receiver_waker"} ELSE {"sender_waker", "close_waker"}

(* A call of an end waits under one of its wakers.                           *)
LEMMA WaitsUnderOwn ==
  ASSUME call \in [End -> Call], CallsOK, NEW e \in End, Pending(e)
  PROVE  WakerOf(call[e]) \in WakersOf(e) /\ WakersOf(e) \subseteq Waker
<1>1. CASE e = "receiver"
  BY <1>1 DEF CallsOK, Pending, WakerOf, WakersOf, Waker
<1>2. CASE e = "sender"
  BY <1>2 DEF CallsOK, Pending, WakerOf, WakersOf, Waker
<1> QED BY <1>1, <1>2 DEF End

(* spsc_pair: a new channel, nobody in a call.                               *)
LEMMA SpscInit == Init => IInv
<1> SUFFICES ASSUME Init PROVE IInv
  OBVIOUS
<1> USE DEF ReadyIsFree
<1>1. TypeOK
  <2>1. closed = (alive # End)
    BY Zenon DEF Init
  <2> QED BY <2>1 DEF Init, TypeOK, Call
<1>2. CallsOK /\ Waits /\ ReadyIsFree /\ NoLostWakeup
  BY DEF Init, CallsOK, Waits, NoLostWakeup, Pending, End
<1>3. NothingOverwritten
  BY DEF Init, NothingOverwritten
<1> QED BY <1>1, <1>2, <1>3 DEF IInv

(* An end whose call returns leaves the other as it was, or wakes it: what it *)
(* clears without waking is its own, and what lets the other return wakes it. *)
LEMMA ReturnWakes ==
  ASSUME TypeOK, CallsOK, Waits, NoLostWakeup,
         NEW e \in alive, NEW c \in {"idle", "ready"}, c = "ready" => e = "sender",
         NEW ws \in SUBSET Waker, NEW cs \in SUBSET Waker,
         Return(e, c, ws), waker' = Clear(cs), cs \ ws \subseteq WakersOf(e),
         item' = item \/ e = "sender",
         \A f \in alive \ {e} :
           Pending(f) /\ CanReturn(f)' => CanReturn(f) \/ WakerOf(call[f]) \in ws
  PROVE  CallsOK' /\ Waits' /\ NoLostWakeup' /\ woken' \subseteq alive
<1>1. /\ e \in End /\ alive \subseteq End /\ call \in [End -> Call]
      /\ waker \in [Waker -> Task \cup {None}]
      /\ owner' = owner /\ alive' = alive /\ call' = [call EXCEPT ![e] = c]
      /\ woken' = (woken \cup Wakes(ws)) \ {e}
  BY DEF TypeOK, Return
<1>2. CallsOK'
  BY <1>1 DEF CallsOK, Pending, End
<1>3. woken' \subseteq alive
  BY <1>1 DEF TypeOK, Wakes
<1>4. ASSUME NEW f \in End, Pending(f)', f \notin woken'
      PROVE  /\ owner'[f] \in Task /\ waker'[WakerOf(call'[f])] = owner'[f]
             /\ ~CanReturn(f)'
  <2>1. f # e /\ f \in alive /\ Pending(f) /\ f \notin woken /\ call'[f] = call[f]
    BY <1>1, <1>4 DEF Pending, CallsOK
  <2>2. /\ owner[f] \in Task /\ waker[WakerOf(call[f])] = owner[f]
        /\ ~CanReturn(f)
    BY <2>1 DEF Waits, NoLostWakeup
  <2>3. WakerOf(call[f]) \in WakersOf(f) /\ WakerOf(call[f]) \in Waker
    BY <2>1, <1>1, WaitsUnderOwn
  <2>4. WakerOf(call[f]) \notin ws
    BY <2>1, <2>2, <1>1, <1>4, SpscAssumption DEF Wakes
  <2>5. WakersOf(f) \cap WakersOf(e) = {}
    BY <2>1, <1>1 DEF WakersOf, End
  <2>6. WakerOf(call[f]) \notin cs
    BY <2>3, <2>4, <2>5
  <2> QED BY <1>1, <2>1, <2>2, <2>3, <2>4, <2>6 DEF Clear
<1> QED BY <1>1, <1>2, <1>3, <1>4 DEF Waits, NoLostWakeup

(* A call that returns and touches neither the slot nor a waker.             *)
LEMMA ReturnQuietly ==
  ASSUME IInv, NEW e \in alive, NEW c \in {"idle", "ready"}, c = "ready" => e = "sender",
         Return(e, c, {}), told' \in {told, told \cup {e}},
         c = "ready" => slot = None,
         item' \in {item, None}, item' = item \/ e = "sender",
         UNCHANGED <<slot, closed, waker, sent, got>>
  PROVE  IInv'
<1>1. \A f \in End : f # e => (CanReturn(f)' <=> CanReturn(f))
  BY DEF Return, CanReturn, IInv, TypeOK
<1>2. waker' = Clear({})
  BY DEF Clear, IInv, TypeOK
<1>3. CallsOK' /\ Waits' /\ NoLostWakeup' /\ woken' \subseteq alive
  BY <1>1, <1>2, ReturnWakes DEF IInv, TypeOK
<1>4. TypeOK'
  BY <1>3 DEF IInv, TypeOK, Return, Call
<1>5. NothingOverwritten'
  BY DEF IInv, NothingOverwritten
<1>6. ReadyIsFree'
  BY DEF IInv, TypeOK, ReadyIsFree, Return, End
<1> QED BY <1>3, <1>4, <1>5, <1>6 DEF IInv

(* do_send puts an item into the free slot and wakes the receiver.           *)
LEMMA SendStep ==
  ASSUME IInv, NEW v \in Value, DoSend(v, "idle"), "sender" \in alive,
         slot = None, item' \in {item, None}
  PROVE  IInv'
<1>1. /\ Return("sender", "idle", {"receiver_waker"}) /\ waker' = Clear({"receiver_waker"})
      /\ slot' = v /\ sent' = Append(sent, v) /\ UNCHANGED <<closed, got, told>>
  BY DEF DoSend
<1>2. CallsOK' /\ Waits' /\ NoLostWakeup' /\ woken' \subseteq alive
  <2>1. \A f \in alive \ {"sender"} : Pending(f) => WakerOf(call[f]) = "receiver_waker"
    BY DEF CallsOK, IInv, TypeOK, End, Pending, WakerOf
  <2> QED BY <1>1, <2>1, ReturnWakes DEF IInv, Waker
<1>3. TypeOK'
  <2>1. sent' \in Seq(Value)
    BY <1>1, AppendProperties DEF IInv, TypeOK
  <2> QED BY <1>1, <1>2, <2>1 DEF IInv, TypeOK, Return, Clear, Call, End
<1>4. NothingOverwritten'
  <2>1. sent = got
    BY ConcatEmptySeq DEF IInv, TypeOK, NothingOverwritten
  <2> QED BY <1>1, <2>1, SpscAssumption, AppendIsConcat DEF IInv, TypeOK, NothingOverwritten
<1>5. ReadyIsFree'
  BY <1>1 DEF ReadyIsFree, Return, IInv, TypeOK, End
<1> QED BY <1>2, <1>3, <1>4, <1>5 DEF IInv

(* Every call, poll, cancellation and drop of an end keeps the invariant.     *)
LEMMA SpscStep == IInv /\ [Next]_vars => IInv'
<1> SUFFICES ASSUME IInv, [Next]_vars PROVE IInv'
  OBVIOUS
<1> USE SpscAssumption DEF End, ReadyIsFree
<1>types. /\ TypeOK /\ CallsOK
          /\ waker \in [Waker -> Task \cup {None}]
          /\ call \in [End -> Call] /\ owner \in [End -> Task \cup {None}]
          /\ alive \subseteq End /\ woken \subseteq alive
  BY DEF IInv, TypeOK
<1>1. ASSUME NEW e \in End, NEW t \in Task, NEW c \in Call, Start(e, c, t),
             c \notin {"idle", "ready"}, (c = "recv") <=> (e = "receiver"),
             IF c = "send" THEN item' \in Value ELSE item' = item
      PROVE  IInv'
  <2>1. TypeOK'
    BY <1>1, <1>types DEF TypeOK, Start
  <2>2. CallsOK'
    BY <1>1, <1>types DEF CallsOK, Start, Pending
  <2>3. Waits' /\ NoLostWakeup'
    BY <1>1, <1>types DEF IInv, Waits, NoLostWakeup, Start, Pending, CanReturn, WakerOf
  <2>4. ReadyIsFree' /\ NothingOverwritten'
    BY <1>1, <1>types DEF IInv, NothingOverwritten, Start
  <2> QED BY <2>1, <2>2, <2>3, <2>4 DEF IInv
<1>2. ASSUME NEW e \in End, Cancel(e) PROVE IInv'
  <2>1. TypeOK'
    BY <1>2, <1>types DEF TypeOK, Cancel, Call
  <2>2. CallsOK'
    BY <1>2, <1>types DEF CallsOK, Cancel, Pending
  <2>3. Waits' /\ NoLostWakeup'
    BY <1>2, <1>types DEF IInv, Waits, NoLostWakeup, Cancel, Pending, CanReturn, WakerOf
  <2>4. ReadyIsFree' /\ NothingOverwritten'
    BY <1>2, <1>types DEF IInv, NothingOverwritten, Cancel, Pending
  <2> QED BY <2>1, <2>2, <2>3, <2>4 DEF IInv
<1>3. ASSUME NEW e \in End, DropEnd(e) PROVE IInv'
  <2>1. TypeOK'
    BY <1>3, <1>types DEF TypeOK, DropEnd, Call, Clear, Wakes, Closes
  <2>2. CallsOK'
    BY <1>3, <1>types DEF CallsOK, DropEnd, Pending
  <2>3. ASSUME NEW f \in End, Pending(f)' PROVE f \in woken'
    <3>1. f # e /\ f \in alive /\ Pending(f)
      BY <1>3, <1>types, <2>3 DEF DropEnd, Pending, CallsOK
    <3>2. CASE f \in woken
      BY <3>1, <3>2, <1>3 DEF DropEnd
    <3>3. CASE f \notin woken
      <4>1. owner[f] \in Task /\ waker[WakerOf(call[f])] = owner[f]
        BY <3>1, <3>3 DEF IInv, Waits
      <4>2. WakerOf(call[f]) \in Waker \ {OwnWaker(e)}
        BY <3>1, <1>types, WaitsUnderOwn DEF WakersOf, OwnWaker
      <4>3. f \in Wakes(Waker \ {OwnWaker(e)})
        BY <3>1, <4>1, <4>2 DEF Wakes
      <4> QED BY <4>3, <3>1, <1>3 DEF DropEnd
    <3> QED BY <3>2, <3>3
  <2>4. Waits' /\ NoLostWakeup'
    BY <2>3, <1>3, <1>types DEF Waits, NoLostWakeup, DropEnd
  <2>5. ReadyIsFree' /\ NothingOverwritten'
    BY <1>3, <1>types DEF IInv, NothingOverwritten, DropEnd
  <2> QED BY <2>1, <2>2, <2>4, <2>5 DEF IInv
<1>4. ASSUME NEW e \in alive, NEW t \in Task, NEW w \in Waker, Wait(e, w, t),
             Pending(e), w = WakerOf(call[e]), ~CanReturn(e)
      PROVE  IInv'
  <2>1. TypeOK'
    BY <1>4, <1>types DEF TypeOK, Wait, SetWaker
  <2>2. CallsOK'
    BY <1>4, <1>types DEF CallsOK, Wait, Pending
  <2>3. ASSUME NEW f \in End, Pending(f)', f \notin woken'
        PROVE  /\ owner'[f] \in Task /\ waker'[WakerOf(call'[f])] = owner'[f]
               /\ ~CanReturn(f)'
    <3>1. CASE f = e
      BY <3>1, <1>4, <1>types DEF Wait, SetWaker, CanReturn, WakerOf
    <3>2. CASE f # e
      <4>1. /\ Pending(f) /\ f \in alive /\ f \notin woken
        BY <3>2, <2>3, <1>4, <1>types DEF Wait, Pending, CallsOK
      <4>2. WakerOf(call[f]) \in Waker \ {w}
        BY <3>2, <4>1, <1>4, <1>types, WaitsUnderOwn DEF WakersOf
      <4>3. /\ owner[f] \in Task /\ waker[WakerOf(call[f])] = owner[f] /\ ~CanReturn(f)
        BY <4>1 DEF IInv, Waits, NoLostWakeup
      <4>4. owner'[f] = owner[f] /\ call' = call /\ waker'[WakerOf(call[f])] = waker[WakerOf(call[f])]
        BY <3>2, <4>2, <1>4, <1>types DEF Wait, SetWaker
      <4> QED BY <4>3, <4>4, <1>4 DEF Wait, CanReturn
    <3> QED BY <3>1, <3>2
  <2>4. Waits' /\ NoLostWakeup'
    <3>1. Waits'
      BY <2>3 DEF Waits
    <3>2. NoLostWakeup'
      BY <2>3, <1>4, <1>types DEF NoLostWakeup, Wait
    <3> QED BY <3>1, <3>2
  <2>5. ReadyIsFree' /\ NothingOverwritten'
    BY <1>4, <1>types DEF IInv, NothingOverwritten, Wait
  <2> QED BY <2>1, <2>2, <2>4, <2>5 DEF IInv
<1>5. ASSUME NEW e \in alive, NEW t \in Task, Poll(e, t) PROVE IInv'
  <2> USE DEF Call
  <2>1. CASE e = "receiver" /\ slot # None
    <3>1. PollRecv(t) /\ e \in End /\ slot \in Value
      BY <1>5, <2>1, <1>types DEF Poll, TypeOK
    <3>2. /\ Return(e, "idle", {"sender_waker"})
          /\ waker' = Clear({"receiver_waker", "sender_waker"})
          /\ slot' = None /\ got' = Append(got, slot) /\ UNCHANGED <<closed, item, sent, told>>
      BY <2>1, <3>1 DEF PollRecv
    <3>3. CallsOK' /\ Waits' /\ NoLostWakeup' /\ woken' \subseteq alive
      <4>1. \A f \in alive \ {e} : CanReturn(f)' => CanReturn(f) \/ WakerOf(call[f]) = "sender_waker"
        BY <2>1, <3>2, <1>types DEF CanReturn, WakerOf, CallsOK, Return
      <4> QED BY <3>2, <4>1, <2>1, ReturnWakes DEF IInv, TypeOK, Waker, WakersOf
    <3>4. TypeOK'
      <4>1. got' \in Seq(Value)
        BY <3>1, <3>2, AppendProperties DEF IInv, TypeOK
      <4> QED BY <4>1, <3>2, <3>3, <1>types DEF TypeOK, Return, Clear
    <3>5. ReadyIsFree' /\ NothingOverwritten'
      BY <3>1, <3>2, AppendIsConcat DEF IInv, TypeOK, NothingOverwritten
    <3> QED BY <3>3, <3>4, <3>5 DEF IInv
  <2>2. CASE e = "receiver" /\ slot = None /\ closed
    <3>1. /\ Return(e, "idle", {}) /\ told' = told \cup {"receiver"}
          /\ UNCHANGED <<slot, closed, waker, item, sent, got>>
      BY <1>5, <2>2 DEF Poll, PollRecv
    <3> QED BY <3>1, <2>2, ReturnQuietly
  <2>3. CASE e = "receiver" /\ slot = None /\ ~closed
    <3>1. Wait(e, "receiver_waker", t) /\ call[e] = "recv" /\ ~CanReturn(e)
      BY <1>5, <2>3 DEF Poll, PollRecv, CanReturn
    <3> QED BY <3>1, <1>4 DEF Waker, WakerOf, Pending
  <2>4. CASE e = "sender" /\ closed
    <3>1. /\ Return(e, "idle", {}) /\ told' = told \cup {"sender"} /\ item' \in {item, None}
          /\ UNCHANGED <<slot, closed, waker, sent, got>>
      BY <1>5, <2>4 DEF Poll, PollReady, PollClosed
    <3> QED BY <3>1, <2>4, <1>types, ReturnQuietly DEF IInv
  <2>5. CASE e = "sender" /\ ~closed /\ Full /\ call[e] # "closed"
    <3>1. Wait(e, "sender_waker", t) /\ call[e] \in {"send", "poll_ready"} /\ ~CanReturn(e)
      BY <1>5, <2>5 DEF Poll, PollReady, PollClosed, CanReturn, Full
    <3> QED BY <3>1, <1>4 DEF Waker, WakerOf, Pending
  <2>6. CASE e = "sender" /\ ~closed /\ call[e] = "closed"
    <3>1. Wait(e, "close_waker", t) /\ ~CanReturn(e)
      BY <1>5, <2>6 DEF Poll, PollReady, PollClosed, CanReturn
    <3> QED BY <3>1, <2>6, <1>4 DEF Waker, WakerOf, Pending
  <2>7. CASE e = "sender" /\ ~closed /\ ~Full /\ call[e] = "send"
    <3>1. DoSend(item, "idle") /\ item' = None /\ item \in Value
      BY <1>5, <2>7, <1>types DEF Poll, PollReady, PollClosed, CallsOK
    <3> QED BY <3>1, <2>7, SendStep DEF Full
  <2>8. CASE e = "sender" /\ ~closed /\ ~Full /\ call[e] = "poll_ready"
    <3>1. Return(e, "ready", {}) /\ UNCHANGED <<slot, closed, waker, item, sent, got, told>>
      BY <1>5, <2>8 DEF Poll, PollReady, PollClosed
    <3> QED BY <3>1, <2>8, ReturnQuietly DEF Full
  <2>9. e = "sender" => call[e] \in {"send", "poll_ready", "closed"}
    BY <1>5 DEF Poll, PollReady, PollClosed
  <2> QED BY <2>1, <2>2, <2>3, <2>4, <2>5, <2>6, <2>7, <2>8, <2>9, <1>types
<1>6. ASSUME NEW v \in Value, SendReady(v) PROVE IInv'
  <2>1. "sender" \in alive /\ DoSend(v, "idle") /\ item' = item /\ call["sender"] = "ready"
    BY <1>6 DEF SendReady
  <2> QED BY <2>1, SendStep DEF IInv
<1>7. CASE UNCHANGED vars
  BY <1>7 DEF vars, IInv, Wakes, TypeOK, CallsOK, Waits, NoLostWakeup, NothingOverwritten, Pending, CanReturn
<1> QED
  <2>1. ASSUME NEW t \in Task, StartRecv(t) \/ StartPollReady(t) \/ StartClosed(t)
        PROVE  IInv'
    BY <2>1, <1>1 DEF StartRecv, StartPollReady, StartClosed, Call
  <2>2. ASSUME NEW t \in Task, NEW v \in Value, StartSend(v, t) PROVE IInv'
    BY <2>2, <1>1 DEF StartSend, Call
  <2> QED BY <2>1, <2>2, <1>2, <1>3, <1>5, <1>6, <1>7 DEF Next, Poll

(* The slot holds one item or none, the channel is closed exactly when an end *)
(* was dropped, and only ends that exist are to be polled (util::spsc).       *)
THEOREM SpscTypes == Spec => []TypeOK
BY SpscInit, SpscStep, PTL DEF Spec, IInv

(* recv, send, poll_ready and closed: whatever was started, moved to another  *)
(* task, cancelled or dropped before, a pending call that could return is one *)
(* the executor will poll.                                                    *)
THEOREM NoWakeupIsLost == Spec => []NoLostWakeup
BY SpscInit, SpscStep, PTL DEF Spec, IInv

(* do_send: an item is put only where there is none, also by a sender that    *)
(* was told long before that the slot is free.                               *)
THEOREM NoItemIsOverwritten == Spec => []NothingOverwritten
BY SpscInit, SpscStep, PTL DEF Spec, IInv

-----------------------------------------------------------------------------
(* The two ends are a Channel.  Every step is a step of Channel or a stutter: *)
(* what follows reads the calls that wait as the calls Channel is asked.      *)

AskOf(e) == IF call[e] \in {"send", "poll_ready"} THEN "send"
            ELSE IF call[e] = "closed" THEN "watch" ELSE "recv"

Asking == {IF call[e] \in {"send", "poll_ready"} THEN "send"
           ELSE IF call[e] = "closed" THEN "watch" ELSE "recv" :
             e \in {f \in End : Pending(f)}}

(* Who asks for what.                                                        *)
LEMMA AskingBy ==
  ASSUME NEW c PROVE c \in Asking <=> \E e \in End : Pending(e) /\ c = AskOf(e)
BY DEF Asking, AskOf

(* Each end asks for one thing at a time.                                    *)
AskingIs ==
  /\ Asking \subseteq {"recv", "send", "watch"}
  /\ "recv" \in Asking <=> call["receiver"] = "recv"
  /\ "send" \in Asking <=> call["sender"] \in {"send", "poll_ready"}
  /\ "watch" \in Asking <=> call["sender"] = "closed"

(* What is asked, read from the calls of the two ends.                       *)
LEMMA AskingOf == IInv => AskingIs
BY AskingBy DEF IInv, CallsOK, AskOf, AskingIs, Pending, End, TypeOK, Call

(* What is under way is what is in the slot.                                 *)
LEMMA UnderWayIs ==
  ASSUME IInv
  PROVE  /\ slot = None => C!UnderWay = 0
         /\ slot # None => C!UnderWay = 1 /\ sent[Len(got) + 1] = slot
<1>1. got \in Seq(Value) /\ Len(got) \in Nat
  BY DEF IInv, TypeOK
<1>2. CASE slot = None
  BY <1>1, <1>2, ConcatEmptySeq DEF IInv, NothingOverwritten, C!UnderWay
<1>3. CASE slot # None
  <2>1. slot \in Value /\ sent = got \o <<slot>> /\ sent = Append(got, slot)
    BY <1>1, <1>3, AppendIsConcat DEF IInv, TypeOK, NothingOverwritten
  <2> QED BY <1>1, <1>3, <2>1, AppendProperties DEF C!UnderWay
<1> QED BY <1>2, <1>3

(* The two ends of Channel.                                                  *)
LEMMA OtherIs == C!Other("receiver") = "sender" /\ C!Other("sender") = "receiver"
BY DEF C!Other, C!End

(* A new channel is a new Channel.                                           *)
LEMMA IsChannelInit == Init => C!Init
BY DEF Init, C!Init, C!End, End, Pending

(* A step of the ends, and what it is to the Channel.                        *)
LEMMA IsChannelStep == IInv /\ IInv' /\ [Next]_vars => [C!Next]_C!vars
<1> SUFFICES ASSUME IInv, IInv', [Next]_vars PROVE [C!Next]_C!vars
  OBVIOUS
<1>asking. AskingIs /\ AskingIs'
  BY AskingOf, PTL
<1>types. /\ call \in [End -> Call] /\ alive \subseteq End /\ closed = (alive # End)
          /\ CallsOK /\ CallsOK'
  BY DEF IInv, TypeOK
<1> USE DEF End
<1>1. ASSUME NEW e \in End, NEW t \in Task, NEW c \in Call, Start(e, c, t),
             c \notin {"idle", "ready"}, (c = "recv") <=> (e = "receiver")
      PROVE  \E x \in C!Call : C!Ask(x)
  <2>1. C!Ask(IF c = "recv" THEN "recv" ELSE IF c = "closed" THEN "watch" ELSE "send")
    <3>1. Asking' = Asking \cup {IF c = "recv" THEN "recv" ELSE IF c = "closed" THEN "watch" ELSE "send"}
      BY <1>1, <1>asking, <1>types DEF AskingIs, Start, Pending, Call
    <3>2. Asking \cap C!Calls(e) = {}
      BY <1>1, <1>asking, <1>types DEF AskingIs, Start, Pending, Call, C!Calls, C!EndOf, C!Call
    <3> QED BY <3>1, <3>2, <1>1, <1>types DEF Asking, C!Ask, C!EndOf, Start, Call, Pending
  <2> QED BY <2>1 DEF C!Call
<1>2. ASSUME NEW e \in End, Cancel(e)
      PROVE  \E c \in C!Call : C!Withdraw(c)
  <2>1. Asking' = Asking \ {AskOf(e)} /\ AskOf(e) \in Asking /\ AskOf(e) \in C!Call
    BY <1>2, <1>asking, <1>types DEF AskingIs, AskOf, Cancel, Pending, Call, CallsOK, C!Call
  <2>2. ASSUME NEW c \in C!Call, Asking' = Asking \ {c}, c \in Asking PROVE C!Withdraw(c)
    BY <2>2, <1>2, <1>types DEF Asking, C!Withdraw, Cancel, Pending
  <2> QED BY <2>1, <2>2
<1>3. ASSUME NEW e \in End, DropEnd(e) PROVE C!Leave(e)
  <2>1. Asking' = Asking \ C!Calls(e)
    BY <1>3, <1>asking, <1>types DEF AskingIs, DropEnd, CallsOK, Call, C!Calls, C!EndOf, C!Call
  <2> QED BY <2>1, <1>3, <1>types DEF Asking, C!Leave, DropEnd
<1>4. ASSUME NEW e \in End, NEW w, NEW t, Wait(e, w, t) PROVE UNCHANGED C!vars
  BY <1>4 DEF Wait, C!vars, Pending
<1>6. ASSUME NEW v \in Value, DoSend(v, "idle"), "sender" \in alive, slot = None,
             call["sender"] \in {"send", "ready"}
      PROVE  [C!Next]_C!vars
  <2>1. Asking' = Asking \ {"send"} /\ (call["sender"] = "ready" \/ "send" \in Asking)
    BY <1>6, <1>asking, <1>types DEF AskingIs, DoSend, Return
  <2>2. C!UnderWay = 0 /\ sent' = Append(sent, v) /\ UNCHANGED <<got, told, alive>>
    BY <1>6, UnderWayIs DEF DoSend, Return
  <2>3. C!Put(v, FALSE)
    BY <2>1, <2>2, <1>6 DEF Asking, C!Put
  <2> QED BY <2>3 DEF C!Next
<1>5. ASSUME NEW e \in alive, NEW t \in Task, Poll(e, t) PROVE [C!Next]_C!vars
  <2>1. CASE e = "receiver" /\ slot # None
    <3>1. Asking' = Asking \ {"recv"} /\ "recv" \in Asking
      BY <1>5, <2>1, <1>asking, <1>types, ZenonT(60) DEF AskingIs, Poll, PollRecv, Return
    <3>2. C!UnderWay = 1 /\ sent[Len(got) + 1] = slot
      BY <2>1, UnderWayIs
    <3>3. /\ got' = Append(got, slot) /\ UNCHANGED <<sent, alive, told>>
          /\ call'["sender"] = call["sender"]
      BY <1>5, <2>1, <1>types DEF Poll, PollRecv, Return
    <3>4. C!Take
      BY <3>1, <3>2, <3>3 DEF Asking, C!Take
    <3> QED BY <3>4 DEF C!Next
  <2>2. CASE e = "receiver" /\ slot = None /\ closed
    <3>1. Asking' = Asking \ {"recv"} /\ "recv" \in Asking
      BY <1>5, <2>2, <1>asking, <1>types, ZenonT(60) DEF AskingIs, Poll, PollRecv, Return
    <3>2. C!UnderWay = 0 /\ "sender" \notin alive
      BY <2>2, <1>types, UnderWayIs
    <3>3. /\ told' = told \cup {"receiver"} /\ UNCHANGED <<sent, got, alive>>
          /\ call'["sender"] = call["sender"]
      BY <1>5, <2>2, <1>types DEF Poll, PollRecv, Return
    <3>4. C!Tell("recv")
      BY <3>1, <3>2, <3>3, OtherIs DEF Asking, C!Tell, C!EndOf
    <3> QED BY <3>4 DEF C!Next, C!Call
  <2>3. CASE e = "receiver" /\ slot = None /\ ~closed
    BY <1>5, <2>3, <1>4 DEF Poll, PollRecv
  <2>4. CASE e = "sender" /\ closed
    <3>1. call["sender"] \in {"send", "poll_ready", "closed"} /\ Return("sender", "idle", {})
      BY <1>5, <2>4 DEF Poll, PollReady, PollClosed
    <3>2. Asking' = Asking \ {AskOf(e)} /\ AskOf(e) \in Asking /\ AskOf(e) \in {"send", "watch"}
      BY <3>1, <2>4, <1>asking, <1>types DEF AskingIs, AskOf, Return
    <3>3. /\ told' = told \cup {"sender"} /\ UNCHANGED <<sent, got, alive>>
          /\ "receiver" \notin alive /\ call["sender"] # "ready" /\ call'["sender"] # "ready"
      BY <3>1, <1>5, <2>4, <1>types DEF Poll, PollReady, PollClosed, Return
    <3>4. ASSUME NEW c \in {"send", "watch"}, Asking' = Asking \ {c}, c \in Asking
          PROVE  C!Tell(c)
      BY <3>3, <3>4, OtherIs DEF Asking, C!Tell, C!EndOf
    <3> QED BY <3>2, <3>4 DEF C!Next, C!Call
  <2>5. CASE e = "sender" /\ ~closed /\ (call[e] = "closed" \/ Full)
    BY <1>5, <2>5, <1>4 DEF Poll, PollReady, PollClosed
  <2>6. CASE e = "sender" /\ ~closed /\ ~Full /\ call[e] = "send"
    <3>1. DoSend(item, "idle") /\ item \in Value
      BY <1>5, <2>6, <1>types DEF Poll, PollReady, PollClosed, CallsOK
    <3> QED BY <3>1, <1>6, <2>6 DEF Full
  <2>7. CASE e = "sender" /\ ~closed /\ ~Full /\ call[e] = "poll_ready"
    <3>1. Return("sender", "ready", {}) /\ UNCHANGED <<sent, got, told>>
      BY <1>5, <2>7 DEF Poll, PollReady, PollClosed
    <3>2. Asking' = Asking \ {"send"} /\ "send" \in Asking
      BY <3>1, <2>7, <1>asking, <1>types DEF AskingIs, Return
    <3>3. C!Grant
      BY <3>1, <3>2, <2>7, <1>types, UnderWayIs DEF Asking, C!Grant, Return, Full
    <3> QED BY <3>3 DEF C!Next
  <2>8. e = "sender" => call[e] \in {"send", "poll_ready", "closed"}
    BY <1>5 DEF Poll, PollReady, PollClosed
  <2> QED BY <2>1, <2>2, <2>3, <2>4, <2>5, <2>6, <2>7, <2>8, <1>types
<1>7. ASSUME NEW v \in Value, SendReady(v) PROVE [C!Next]_C!vars
  BY <1>6, <1>7 DEF SendReady, IInv, ReadyIsFree
<1>8. CASE UNCHANGED vars
  BY <1>8 DEF vars, C!vars, Pending
<1> QED
  <2>1. ASSUME NEW t \in Task, StartRecv(t) \/ StartPollReady(t) \/ StartClosed(t)
        PROVE  [C!Next]_C!vars
    BY <2>1, <1>1 DEF StartRecv, StartPollReady, StartClosed, Call, C!Next
  <2>2. ASSUME NEW t \in Task, NEW v \in Value, StartSend(v, t) PROVE [C!Next]_C!vars
    BY <2>2, <1>1 DEF StartSend, Call, C!Next
  <2>3. ASSUME NEW e \in End, Cancel(e) PROVE [C!Next]_C!vars
    BY <2>3, <1>2 DEF C!Next
  <2>4. ASSUME NEW e \in End, DropEnd(e) PROVE [C!Next]_C!vars
    BY <2>4, <1>3 DEF C!Next, C!End
  <2> QED BY <2>1, <2>2, <2>3, <2>4, <1>5, <1>7, <1>8 DEF Next, Poll

(* util::spsc is a Channel of one item: what is sent is received once and in  *)
(* order, a call waits only for what it asked, and an end is told of the      *)
(* other's drop, the receiver not before it has what was sent.               *)
THEOREM TheEndsAreAChannel == Spec => IsChannel
<1>1. Spec => []IInv
  BY SpscInit, SpscStep, PTL DEF Spec
<1> QED BY <1>1, IsChannelInit, IsChannelStep, PTL DEF Spec, IsChannel, C!Spec

-----------------------------------------------------------------------------
(* MCLive.                                                                   *)


(* H1Payload under the name that brings its theorems.                        *)
PP == INSTANCE H1PayloadProofs WITH
        Data <- {a, b}, Error <- {err}, Reader <- {"reader"}, MaxFed <- 3,
        woken <- runs, got <- read

(* A step of a behaviour is a step of the channel or leaves it alone.        *)
LEMMA StepOfChannel == NextAll \/ UNCHANGED all => [Next]_vars
<1> SUFFICES ASSUME NextAll \/ UNCHANGED all PROVE [Next]_vars
  OBVIOUS
<1>1. CASE ChannelStep
  BY <1>1 DEF ChannelStep, For, Next, Poll, End
<1>2. CASE PayloadStep
  BY <1>2 DEF PayloadStep, InPayload, channel
<1>3. CASE part = "codec" /\ H!Next /\ InCodec
  BY <1>3 DEF InCodec, channel
<1>4. CASE part = "pool" /\ L!Next /\ InPool
  BY <1>4 DEF InPool, channel
<1>5. CASE UNCHANGED all
  BY <1>5 DEF all, channel
<1> QED BY <1>1, <1>2, <1>3, <1>4, <1>5 DEF NextAll

(* The two names of an action of the payload.                                *)
LEMMA SameActions ==
  /\ P!Item = PP!Item
  /\ \A i : P!Feed(i) => PP!Feed(i)
  /\ P!FeedEof => PP!FeedEof
  /\ P!DropSender => PP!DropSender
  /\ \A r : /\ P!Pop(r) => PP!Pop(r)
            /\ P!End(r) => PP!End(r)
            /\ P!Wait(r) => PP!Wait(r)
            /\ P!Start(r) => PP!Start(r)
            /\ P!Cancel(r) => PP!Cancel(r)
            /\ P!DropReader(r) => PP!DropReader(r)
<1>1. P!Item = PP!Item
  BY DEF P!Item, PP!Item
<1>2. ASSUME NEW i, P!Feed(i) PROVE PP!Feed(i)
  BY <1>2 DEF P!Feed, PP!Feed, P!Feeds, PP!Feeds, P!Upgrades, PP!Upgrades, P!Wake, PP!Wake
<1>3. P!FeedEof => PP!FeedEof
  BY DEF P!FeedEof, PP!FeedEof, P!Upgrades, PP!Upgrades, P!Wake, PP!Wake
<1>4. P!DropSender => PP!DropSender
  BY DEF P!DropSender, PP!DropSender
<1>5. ASSUME NEW r PROVE /\ P!Pop(r) => PP!Pop(r)
                         /\ P!End(r) => PP!End(r)
                         /\ P!Wait(r) => PP!Wait(r)
                         /\ P!Start(r) => PP!Start(r)
                         /\ P!Cancel(r) => PP!Cancel(r)
                         /\ P!DropReader(r) => PP!DropReader(r)
  BY DEF P!Pop, PP!Pop, P!Rest, PP!Rest, P!Answered, PP!Answered, P!End, PP!End, P!Drained,
         PP!Drained, P!Wait, PP!Wait, P!Start, PP!Start, P!Cancel, PP!Cancel,
         P!DropReader, PP!DropReader
<1> QED BY <1>1, <1>2, <1>3, <1>4, <1>5

(* A step of a behaviour is a step of the payload or leaves it alone.        *)
LEMMA StepOfPayload == PP!TypeOK /\ (NextAll \/ UNCHANGED all) => [PP!Next]_(PP!vars)
<1> SUFFICES ASSUME PP!TypeOK, NextAll \/ UNCHANGED all PROVE [PP!Next]_(PP!vars)
  OBVIOUS
<1> USE DEF payload, PP!vars
<1>1. CASE ChannelStep
  BY <1>1 DEF ChannelStep, InChannel
<1>2. CASE PayloadStep
  <2>1. readers \subseteq {"reader"} /\ waits \subseteq {"reader"}
    BY DEF PP!TypeOK
  <2>2. \/ \E i \in P!Item : P!Feed(i)
        \/ P!FeedEof \/ P!DropSender
        \/ \E r \in {"reader"} : P!Start(r) \/ P!Cancel(r) \/ P!DropReader(r)
        \/ \E r \in {"reader"} : r \in waits /\ (P!Pop(r) \/ P!End(r) \/ P!Wait(r))
    BY <1>2, <2>1 DEF PayloadStep, For
  <2> QED BY <2>2, SameActions DEF PP!Next, PP!Poll
<1>3. CASE part = "codec" /\ H!Next /\ InCodec
  BY <1>3 DEF InCodec
<1>4. CASE part = "pool" /\ L!Next /\ InPool
  BY <1>4 DEF InPool
<1>5. CASE UNCHANGED all
  BY <1>5 DEF all
<1> QED BY <1>1, <1>2, <1>3, <1>4, <1>5 DEF NextAll

(* The inductive invariants of the two parts hold together.                  *)
LEMMA PartsInvariant == SpecAll => [](IInv /\ PP!IInv)
<1>1. InitAll => IInv /\ PP!IInv
  <2>1. P!Init => PP!Init
    BY DEF P!Init, PP!Init
  <2> QED BY <2>1, SpscInit, PP!PayloadInit DEF InitAll
<1>2. IInv /\ PP!IInv /\ [NextAll]_all => IInv' /\ PP!IInv'
  <2>1. PP!IInv => PP!TypeOK
    BY DEF PP!IInv
  <2> QED BY <2>1, StepOfChannel, StepOfPayload, SpscStep, PP!PayloadStep
<1> QED BY <1>1, <1>2, PTL DEF SpecAll

(* spsc.rs and payload.rs, in every behaviour of MCLive, for any items and    *)
(* tasks: no pending call is forgotten, no item replaced, repeated or         *)
(* reordered.                                                                *)
THEOREM NothingIsLost == SpecAll => []NothingLost
<1>1. IInv /\ PP!IInv => NothingLost
  <2>1. PP!IInv => PP!TypeOK /\ PP!ReadInOrder
    BY PP!InPlaceIsInOrder DEF PP!IInv
  <2>2. PP!TypeOK => P!TypeOK
    BY DEF P!TypeOK, PP!TypeOK, P!Item, PP!Item
  <2>3. PP!ReadInOrder => P!ReadInOrder
    BY DEF P!ReadInOrder, PP!ReadInOrder, P!Upgrades, PP!Upgrades
  <2> QED BY <2>1, <2>2, <2>3 DEF NothingLost, IInv
<1> QED BY <1>1, PartsInvariant, PTL

(* Both the one-slot channel and the payload implement Channel.              *)
THEOREM TheyAreChannels == SpecAll => AreChannels
<1>1. SpecAll => IsChannel
  <2>1. InitAll => C!Init
    BY IsChannelInit DEF InitAll
  <2>2. IInv /\ IInv' /\ [NextAll]_all => [C!Next]_C!vars
    BY StepOfChannel, IsChannelStep
  <2> QED BY <2>1, <2>2, PartsInvariant, PTL DEF SpecAll, IsChannel, C!Spec
<1>2. SpecAll => P!IsChannel
  <2>1. InitAll => PP!Ch!Init
    <3>1. P!Init => PP!Init
      BY DEF P!Init, PP!Init
    <3> QED BY <3>1, PP!IsChannelInit DEF InitAll
  <2>2. PP!IInv /\ PP!IInv' /\ [NextAll]_all => [PP!Ch!Next]_(PP!Ch!vars)
    <3>1. PP!IInv => PP!TypeOK
      BY DEF PP!IInv
    <3> QED BY <3>1, StepOfPayload, PP!IsChannelStep
  <2>3. PP!Ch!Init => P!Ch!Init
    BY DEF P!Ch!Init, PP!Ch!Init, P!Ch!End, PP!Ch!End, P!Fed, PP!Fed
  <2>4. [PP!Ch!Next]_(PP!Ch!vars) => [P!Ch!Next]_(P!Ch!vars)
    <3> USE DEF P!Fed, PP!Fed
    <3>1. PP!Ch!vars = P!Ch!vars
      BY DEF P!Ch!vars, PP!Ch!vars
    <3>2. PP!Ch!Next => P!Ch!Next
      BY DEF P!Ch!Next, PP!Ch!Next, P!Ch!Ask, PP!Ch!Ask, P!Ch!Withdraw, PP!Ch!Withdraw,
         P!Ch!Tell, PP!Ch!Tell, P!Ch!Put, PP!Ch!Put, P!Ch!Leave, PP!Ch!Leave,
         P!Ch!Grant, PP!Ch!Grant, P!Ch!Take, PP!Ch!Take, P!Ch!UnderWay, PP!Ch!UnderWay,
         P!Ch!EndOf, PP!Ch!EndOf, P!Ch!Calls, PP!Ch!Calls, P!Ch!Call, PP!Ch!Call,
         P!Ch!Other, PP!Ch!Other, P!Ch!End, PP!Ch!End, P!Item, PP!Item
    <3>3. PP!Ch!vars' = P!Ch!vars'
      BY DEF P!Ch!vars, PP!Ch!vars
    <3> QED BY <3>1, <3>2, <3>3
  <2> QED BY <2>1, <2>2, <2>3, <2>4, PartsInvariant, PTL DEF SpecAll, P!IsChannel, P!Ch!Spec
<1> QED BY <1>1, <1>2, PTL DEF AreChannels
=============================================================================
