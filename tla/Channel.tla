------------------------------ MODULE Channel ------------------------------
(***************************************************************************)
(* What a channel with one sender and one receiver promises: the receiver  *)
(* gets what was put, in order and once; a call that waits is answered as  *)
(* soon as it can be; an end is told that the other has left, the receiver *)
(* only after it has everything that was put.                              *)
(*                                                                         *)
(* util::spsc (Spsc) and the payloads of HTTP/1 (H1Payload) implement it.  *)
(***************************************************************************)
EXTENDS Naturals, Sequences

CONSTANTS
  Value,      \* what is sent
  Capacity    \* how much may be under way

VARIABLES
  sent,       \* what was put, in order
  got,        \* what was taken, in order
  open,       \* the ends that have not left
  asking,     \* the calls that wait
  granted,    \* the sender was told that it may put
  told        \* the ends that were told that the other one has left

vars == <<sent, got, open, asking, granted, told>>

End == {"sender", "receiver"}
Call == {"send", "watch", "recv"}
EndOf(c) == IF c = "recv" THEN "receiver" ELSE "sender"
Calls(e) == {c \in Call : EndOf(c) = e}
Other(e) == CHOOSE f \in End : f # e

TypeOK ==
  /\ sent \in Seq(Value) /\ got \in Seq(Value)
  /\ open \subseteq End /\ told \subseteq End
  /\ asking \subseteq Call
  /\ granted \in BOOLEAN

Init ==
  /\ sent = <<>> /\ got = <<>>
  /\ open = End /\ told = {}
  /\ asking = {} /\ granted \in BOOLEAN

UnderWay == Len(sent) - Len(got)

\* An end makes one call at a time, and may give it up.
Ask(c) ==
  /\ EndOf(c) \in open
  /\ asking \cap Calls(EndOf(c)) = {}
  /\ asking' = asking \cup {c}
  /\ granted' = IF c = "recv" THEN granted ELSE FALSE
  /\ UNCHANGED <<sent, got, open, told>>

Withdraw(c) ==
  /\ c \in asking
  /\ asking' = asking \ {c}
  /\ UNCHANGED <<sent, got, open, granted, told>>

Grant ==
  /\ "send" \in asking /\ UnderWay < Capacity
  /\ asking' = asking \ {"send"}
  /\ granted' = TRUE
  /\ UNCHANGED <<sent, got, open, told>>

\* The sender puts a value, and may leave with it.
Put(v, last) ==
  /\ "sender" \in open
  /\ granted \/ "send" \in asking
  /\ UnderWay < Capacity
  /\ sent' = Append(sent, v)
  /\ asking' = asking \ {"send"}
  /\ granted' \in BOOLEAN
  /\ open' = IF last THEN open \ {"sender"} ELSE open
  /\ UNCHANGED <<got, told>>

Take ==
  /\ "recv" \in asking /\ UnderWay > 0
  /\ got' = Append(got, sent[Len(got) + 1])
  /\ asking' = asking \ {"recv"}
  /\ UNCHANGED <<sent, open, granted, told>>

Tell(c) ==
  /\ c \in asking
  /\ Other(EndOf(c)) \notin open
  /\ c = "recv" => UnderWay = 0
  /\ asking' = asking \ {c}
  /\ told' = told \cup {EndOf(c)}
  /\ UNCHANGED <<sent, got, open, granted>>

Leave(e) ==
  /\ e \in open
  /\ open' = open \ {e}
  /\ asking' = asking \ Calls(e)
  /\ granted' = (granted /\ e # "sender")
  /\ UNCHANGED <<sent, got, told>>

Next ==
  \/ \E c \in Call : Ask(c) \/ Withdraw(c) \/ Tell(c)
  \/ \E v \in Value, last \in BOOLEAN : Put(v, last)
  \/ \E e \in End : Leave(e)
  \/ Grant
  \/ Take

Spec == Init /\ [][Next]_vars

\* A call that can be answered is answered, or given up.
CanAnswer(c) ==
  /\ c \in asking
  /\ \/ c = "send" /\ UnderWay < Capacity
     \/ c = "recv" /\ UnderWay > 0
     \/ Other(EndOf(c)) \notin open

Answered == \A c \in Call : CanAnswer(c) ~> (c \notin asking)

\* Nothing is invented, lost on the way, repeated or reordered.
Ordered == Len(got) <= Len(sent) /\ got = SubSeq(sent, 1, Len(got))
=============================================================================
