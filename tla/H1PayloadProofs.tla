-------------------------- MODULE H1PayloadProofs --------------------------
(***************************************************************************)
(* Theorems about H1Payload, for any pieces, errors, readers and number of *)
(* items fed: types, every item is read once and in its place however the  *)
(* reading half is cloned, and the payload of one reader is a Channel.     *)
(***************************************************************************)
EXTENDS H1Payload, SequenceTheorems, TLAPS

(* What was read is the beginning of what was fed, and while somebody can   *)
(* read, the rest is in the cell.                                           *)
InPlace ==
  /\ Len(got) <= Len(fed) /\ \A n \in 1 .. Len(got) : got[n] = fed[n]
  /\ Upgrades => fed = got \o items

(* A feeding half has not ended, a fixed payload is fed once, and what ends  *)
(* a fixed payload is that its item was read.                               *)
Ends ==
  /\ sender => ~Fed
  /\ kind = "fixed" /\ fed = <<>> => items = <<>>
  /\ kind = "fixed" /\ eof => items = <<>>

IInv == TypeOK /\ InPlace /\ Ends

(* Appending to both keeps a concatenation.                                  *)
LEMMA AppendBoth ==
  ASSUME NEW s \in Seq(Item), NEW t \in Seq(Item), NEW v \in Item
  PROVE  Append(s \o t, v) = s \o Append(t, v)
<1>1. <<v>> \in Seq(Item) /\ s \o t \in Seq(Item)
  BY ConcatProperties
<1>2. Append(s \o t, v) = (s \o t) \o <<v>> /\ Append(t, v) = t \o <<v>>
  BY <1>1, AppendIsConcat
<1> QED BY <1>1, <1>2, ConcatAssociative

(* Moving the head of the second to the end of the first keeps it, too.      *)
LEMMA MoveHead ==
  ASSUME NEW S, NEW s \in Seq(S), NEW t \in Seq(S), t # <<>>
  PROVE  /\ Append(s, Head(t)) \o Tail(t) = s \o t
         /\ Append(s, Head(t)) \in Seq(S) /\ Tail(t) \in Seq(S) /\ Head(t) \in S
         /\ Len(Tail(t)) = Len(t) - 1
<1>1. Head(t) \in S /\ Tail(t) \in Seq(S) /\ <<Head(t)>> \in Seq(S) /\ Len(Tail(t)) = Len(t) - 1
  BY HeadTailProperties
<1>2. <<Head(t)>> \o Tail(t) = t
  <2>1. Len(t) \in Nat \ {0}
    BY EmptySeq
  <2>2. t = <<t[1]>> \o SubSeq(t, 2, Len(t))
    BY <2>1, SubSeqRecursiveFirst, SubSeqFull
  <2> QED BY <2>1, <2>2, TailIsSubSeq
<1>3. Append(s, Head(t)) = s \o <<Head(t)>>
  BY <1>1, AppendIsConcat
<1> QED BY <1>1, <1>2, <1>3, ConcatAssociative, AppendProperties

(* fixed_payload_pair and stream_payload_pair.                              *)
LEMMA PayloadInit == Init => IInv
<1> SUFFICES ASSUME Init PROVE IInv
  OBVIOUS
<1>1. TypeOK
  <2>1. <<>> \in Seq(Item) /\ Len(<<>>) = 0
    BY EmptySeq
  <2>2. items \in Seq(Item) /\ fed \in Seq(Item) /\ got \in Seq(Item) /\ Len(items) = 0
    BY <2>1, Zenon DEF Init
  <2>3. /\ kind \in {"fixed", "stream"} /\ eof \in BOOLEAN /\ sender \in BOOLEAN
        /\ task \in Reader \cup {None} /\ readers \subseteq Reader /\ waits \subseteq readers
        /\ fresh \subseteq waits /\ woken \subseteq readers /\ ended \subseteq Reader
    BY DEF Init
  <2> QED BY <2>2, <2>3 DEF TypeOK
<1>2. InPlace
  BY ConcatEmptySeq, EmptySeq DEF Init, InPlace
<1>3. Ends
  BY DEF Init, Ends, Fed
<1> QED BY <1>1, <1>2, <1>3 DEF IInv

(* Every feed, poll, clone's drop and cancellation keeps the invariant.      *)
LEMMA PayloadStep == IInv /\ [Next]_vars => IInv'
<1> SUFFICES ASSUME IInv, [Next]_vars PROVE IInv'
  OBVIOUS
<1>types. /\ TypeOK /\ InPlace /\ Ends
          /\ items \in Seq(Item) /\ fed \in Seq(Item) /\ got \in Seq(Item)
          /\ Len(items) \in Nat /\ Len(fed) \in Nat /\ Len(got) \in Nat
  BY LenProperties DEF IInv, TypeOK
<1>1. ASSUME NEW i \in Item, Feed(i) PROVE IInv'
  <2>1. /\ Append(fed, i) \in Seq(Item) /\ Append(items, i) \in Seq(Item)
        /\ Len(Append(fed, i)) = Len(fed) + 1 /\ Len(Append(items, i)) = Len(items) + 1
        /\ \A n \in 1 .. Len(fed) : Append(fed, i)[n] = fed[n]
        /\ Append(fed, i) # <<>>
    BY <1>types, AppendProperties
  <2>2. TypeOK'
    <3>1. kind = "fixed" => items = <<>>
      BY <1>1, <1>types DEF Feed, Ends, Fed
    <3>2. Len(items') <= 1 \/ kind' # "fixed"
      BY <1>1, <2>1, <3>1, <1>types DEF Feed, Upgrades
    <3>3. items' \in Seq(Item) /\ fed' \in Seq(Item) /\ sender' \in BOOLEAN
      BY <1>1, <1>types, <2>1 DEF Feed, Feeds, Upgrades
    <3>4. task' \in Reader \cup {None} /\ woken' \subseteq readers
      BY <1>1, <1>types DEF Feed, TypeOK, Wake, Upgrades
    <3> QED BY <1>1, <1>types, <3>2, <3>3, <3>4 DEF Feed, TypeOK
  <2>3. InPlace'
    <3>1. Upgrades => fed' = got \o items'
      <4>1. Append(got \o items, i) = got \o Append(items, i)
        <5>1. got \in Seq(Item) /\ items \in Seq(Item)
          BY <1>types
        <5> QED BY <5>1, AppendBoth, Zenon
      <4> QED BY <4>1, <1>1, <1>types DEF Feed, InPlace, Upgrades
    <3>2. /\ Len(got') <= Len(fed') /\ \A n \in 1 .. Len(got') : got'[n] = fed'[n]
      BY <1>1, <2>1, <1>types DEF Feed, InPlace
    <3> QED BY <1>1, <3>1, <3>2 DEF Feed, InPlace, Upgrades
  <2>4. Ends'
    BY <1>1, <2>1, <1>types DEF Feed, Feeds, Ends, Fed, TypeOK
  <2> QED BY <2>2, <2>3, <2>4 DEF IInv
<1>2. CASE FeedEof
  BY <1>2 DEF IInv, TypeOK, InPlace, Ends, Fed, FeedEof, Wake, Upgrades
<1>3. CASE DropSender
  BY <1>3 DEF IInv, TypeOK, InPlace, Ends, Fed, DropSender, Upgrades
<1>4. ASSUME NEW r \in Reader, Start(r) \/ Cancel(r) PROVE IInv'
  BY <1>4 DEF IInv, TypeOK, InPlace, Ends, Fed, Start, Cancel, Upgrades
<1>5. ASSUME NEW r \in Reader, DropReader(r) PROVE IInv'
  BY <1>5 DEF IInv, TypeOK, InPlace, Ends, Fed, DropReader, Upgrades
<1>6. ASSUME NEW r \in Reader, r \in waits, End(r) \/ Wait(r) PROVE IInv'
  <2>1. UNCHANGED <<kind, items, eof, sender, readers, fed, got>>
    BY <1>6 DEF End, Wait, Answered
  <2>2. TypeOK'
    BY <1>6, <1>types DEF TypeOK, End, Wait, Answered
  <2> QED BY <2>1, <2>2, <1>types DEF IInv, InPlace, Ends, Fed, Upgrades
<1>7. ASSUME NEW r \in Reader, r \in waits, Pop(r) PROVE IInv'
  <2>1. /\ items # <<>> /\ items' = Tail(items) /\ got' = Append(got, Head(items))
        /\ eof' = (eof \/ kind = "fixed") /\ Upgrades /\ (kind = "fixed" => ~eof)
        /\ UNCHANGED <<kind, fed, sender, readers, task, ended>>
        /\ waits' = waits \ {r} /\ fresh' = fresh \ {r} /\ woken' = woken \ {r}
    BY <1>7 DEF Pop, Rest, Answered, Upgrades, IInv, TypeOK
  <2>2. /\ items' \in Seq(Item) /\ got' \in Seq(Item) /\ fed = got' \o items'
        /\ Len(items') = Len(items) - 1 /\ Len(got') \in Nat /\ Len(items') \in Nat
    <3>1. fed = got \o items
      BY <2>1, <1>types DEF InPlace
    <3>2. /\ items' \in Seq(Item) /\ got' \in Seq(Item) /\ got' \o items' = got \o items
          /\ Len(items') = Len(items) - 1
      BY <2>1, <1>types, MoveHead
    <3> QED BY <3>1, <3>2, LenProperties
  <2>3. TypeOK'
    BY <2>1, <2>2, <1>types DEF TypeOK
  <2>4. InPlace'
    <3>1. Len(fed) = Len(got') + Len(items') /\ \A n \in 1 .. Len(got') : fed[n] = got'[n]
      <4>1. \A n \in 1 .. Len(got') : n \in 1 .. Len(got') + Len(items') /\ n <= Len(got')
        BY <2>2
      <4> QED BY <2>2, <4>1, ConcatProperties
    <3> QED BY <2>1, <2>2, <3>1 DEF InPlace
  <2>5. Ends'
    <3>1. kind = "fixed" => items' = <<>>
      BY <2>1, <2>2, <1>types, EmptySeq DEF TypeOK
    <3> QED BY <2>1, <3>1, <1>types DEF Ends, Fed
  <2> QED BY <2>3, <2>4, <2>5 DEF IInv
<1>8. CASE UNCHANGED vars
  BY <1>8 DEF vars, IInv, TypeOK, InPlace, Ends, Fed, Upgrades
<1> QED BY <1>1, <1>2, <1>3, <1>4, <1>5, <1>6, <1>7, <1>8 DEF Next, Poll

(* InPlace says what ReadInOrder does, element by element.                  *)
LEMMA InPlaceIsInOrder == IInv => ReadInOrder
<1> SUFFICES ASSUME IInv PROVE ReadInOrder
  OBVIOUS
<1>1. /\ fed \in Seq(Item) /\ got \in Seq(Item) /\ Len(fed) \in Nat /\ Len(got) \in Nat
      /\ Len(got) <= Len(fed) /\ \A n \in 1 .. Len(got) : got[n] = fed[n]
  BY LenProperties DEF IInv, TypeOK, InPlace
<1>2. /\ SubSeq(fed, 1, Len(got)) \in Seq(Item) /\ Len(SubSeq(fed, 1, Len(got))) = Len(got)
      /\ \A n \in 1 .. Len(got) : SubSeq(fed, 1, Len(got))[n] = fed[n]
  <2>1. \A n \in 1 .. Len(got) : fed[n] \in Item
    BY <1>1, ElementOfSeq
  <2> QED BY <1>1, <2>1, SubSeqProperties
<1> QED BY <1>1, <1>2, SeqEqual DEF ReadInOrder, IInv, InPlace

(* h1::payload: a fixed payload holds at most one item, and only readers that *)
(* exist wait or are woken.                                                  *)
THEOREM PayloadTypes == Spec => []TypeOK
BY PayloadInit, PayloadStep, PTL DEF Spec, IInv

(* next(): with any number of clones of the reading half, each polled by a    *)
(* task of its own, an item that was fed is read once and in its place.      *)
THEOREM PayloadReadInOrder == Spec => []ReadInOrder
BY PayloadInit, PayloadStep, InPlaceIsInOrder, PTL DEF Spec

-----------------------------------------------------------------------------
(* The two ends of Channel.                                                  *)
LEMMA OtherIs == Ch!Other("receiver") = "sender" /\ Ch!Other("sender") = "receiver"
BY DEF Ch!Other, Ch!End

(* A new payload is a new Channel whose sender may put.                      *)
LEMMA IsChannelInit ==
  ASSUME Reader # {} PROVE Init => Ch!Init
BY DEF Init, Ch!Init, Ch!End, Fed

(* What is under way is what is in the cell.                                 *)
LEMMA UnderWayIs ==
  ASSUME IInv, Upgrades
  PROVE  /\ Ch!UnderWay = Len(items) /\ Len(items) \in Nat
         /\ items # <<>> => Ch!UnderWay > 0 /\ fed[Len(got) + 1] = Head(items)
<1>1. /\ items \in Seq(Item) /\ got \in Seq(Item) /\ Len(items) \in Nat /\ Len(got) \in Nat
      /\ fed = got \o items
  BY LenProperties DEF IInv, TypeOK, InPlace
<1>2. Len(fed) = Len(got) + Len(items)
  BY <1>1, ConcatProperties
<1>3. ASSUME items # <<>> PROVE Len(items) > 0 /\ fed[Len(got) + 1] = Head(items)
  <2>1. Len(items) > 0
    BY <1>1, <1>3, EmptySeq
  <2>2. Len(got) + 1 \in 1 .. Len(got) + Len(items) /\ Len(got) + 1 - Len(got) = 1
    BY <1>1, <2>1
  <2>3. fed[Len(got) + 1] = items[1]
    BY <1>1, <2>2, ConcatProperties
  <2> QED BY <2>1, <2>3
<1> QED BY <1>1, <1>2, <1>3 DEF Ch!UnderWay

(* With one reader, every step is a step of Channel or a stutter.            *)
LEMMA IsChannelStep ==
  ASSUME MaxFed \in Nat, NEW q, Reader = {q}
  PROVE  IInv /\ IInv' /\ [Next]_vars => [Ch!Next]_(Ch!vars)
<1> SUFFICES ASSUME IInv, IInv', [Next]_vars PROVE [Ch!Next]_(Ch!vars)
  OBVIOUS
<1>types. /\ TypeOK /\ Ends /\ TypeOK' /\ Ends'
  BY DEF IInv
<1>1. ASSUME NEW i \in Item, Feed(i) PROVE Ch!Next
  <2>1. Ch!UnderWay < MaxFed
    BY <1>1, LenProperties DEF Feed, Ch!UnderWay, IInv, TypeOK
  <2>2. fed' # <<>>
    BY <1>1, AppendProperties DEF Feed, IInv, TypeOK
  <2>3. CASE kind = "fixed"
    <3>1. Ch!Put(i, TRUE)
      BY <1>1, <2>1, <2>2, <2>3, <1>types DEF Feed, Feeds, Ch!Put, Fed, Ends, TypeOK
    <3> QED BY <3>1 DEF Ch!Next
  <2>4. CASE kind = "stream"
    <3>1. Ch!Put(i, FALSE)
      BY <1>1, <2>1, <2>4, <1>types DEF Feed, Feeds, Ch!Put, Fed, Ends, TypeOK
    <3> QED BY <3>1 DEF Ch!Next
  <2> QED BY <2>3, <2>4, <1>types DEF TypeOK
<1>2. ASSUME FeedEof PROVE [Ch!Next]_(Ch!vars)
  <2>1. CASE Upgrades
    <3>1. Ch!Leave("sender")
      BY <1>2, <2>1, <1>types DEF FeedEof, Ch!Leave, Ch!Calls, Ch!EndOf, Ch!Call, Ch!End, Fed, Ends
    <3> QED BY <3>1 DEF Ch!Next, Ch!End
  <2>2. CASE ~Upgrades
    BY <1>2, <2>2 DEF FeedEof, Ch!vars, Fed
  <2> QED BY <2>1, <2>2
<1>3. ASSUME DropSender PROVE UNCHANGED Ch!vars
  BY <1>3 DEF DropSender, Ch!vars, Fed
<1>4. ASSUME NEW r \in Reader, Start(r) PROVE Ch!Next
  <2>1. Ch!Ask("recv")
    BY <1>4, <1>types DEF Start, Ch!Ask, Ch!EndOf, Ch!Calls, Ch!Call, Fed, TypeOK
  <2> QED BY <2>1 DEF Ch!Next, Ch!Call
<1>5. ASSUME NEW r \in Reader, Cancel(r) PROVE Ch!Next
  <2>1. Ch!Withdraw("recv")
    BY <1>5, <1>types DEF Cancel, Ch!Withdraw, Fed, TypeOK
  <2> QED BY <2>1 DEF Ch!Next, Ch!Call
<1>6. ASSUME NEW r \in Reader, DropReader(r) PROVE Ch!Next
  <2>1. Ch!Leave("receiver")
    BY <1>6, <1>types DEF DropReader, Ch!Leave, Ch!Calls, Ch!EndOf, Ch!Call, Fed, TypeOK
  <2> QED BY <2>1 DEF Ch!Next, Ch!End
<1>7. ASSUME NEW r \in Reader, r \in waits, End(r) PROVE Ch!Next
  <2>1. items = <<>> /\ Upgrades
    BY <1>7, <1>types DEF End, Drained, Ends, TypeOK, Upgrades
  <2>2. Ch!UnderWay = 0
    BY <2>1, UnderWayIs, EmptySeq
  <2>3. Ch!Tell("recv")
    BY <1>7, <2>2, <1>types, OtherIs DEF End, Answered, Ch!Tell, Ch!EndOf, Fed, TypeOK
  <2> QED BY <2>3 DEF Ch!Next, Ch!Call
<1>8. ASSUME NEW r \in Reader, Wait(r) PROVE UNCHANGED Ch!vars
  BY <1>8 DEF Wait, Ch!vars, Fed
<1>9. ASSUME NEW r \in Reader, r \in waits, Pop(r) PROVE Ch!Next
  <2>1. /\ items # <<>> /\ Upgrades /\ got' = Append(got, Head(items))
        /\ eof' = (eof \/ kind = "fixed") /\ waits = {r} /\ waits' = {}
        /\ UNCHANGED <<kind, fed, readers, ended>>
    BY <1>9, <1>types DEF Pop, Answered, TypeOK, Upgrades
  <2>2. Ch!UnderWay > 0 /\ fed[Len(got) + 1] = Head(items)
    BY <2>1, UnderWayIs
  <2>3. Fed' = Fed
    BY <2>1, <1>types DEF Fed, Ends, TypeOK
  <2>4. Ch!Take
    BY <2>1, <2>2, <2>3 DEF Ch!Take
  <2> QED BY <2>4 DEF Ch!Next
<1>10. CASE UNCHANGED vars
  BY <1>10 DEF vars, Ch!vars, Fed
<1> QED BY <1>1, <1>2, <1>3, <1>4, <1>5, <1>6, <1>7, <1>8, <1>9, <1>10 DEF Next, Poll

(* feed_data, feed_error and next(): with one reader, a payload is a Channel  *)
(* whose sender leaves with the end of the body, and a reader is told the end *)
(* only after it has read everything.                                        *)
THEOREM PayloadIsAChannel ==
  ASSUME MaxFed \in Nat, NEW q, Reader = {q}
  PROVE  Spec => IsChannel
<1>1. Spec => []IInv
  BY PayloadInit, PayloadStep, PTL DEF Spec
<1>2. IInv /\ IInv' /\ [Next]_vars => [Ch!Next]_(Ch!vars)
  BY IsChannelStep
<1>3. Init => Ch!Init
  BY IsChannelInit
<1> QED BY <1>1, <1>2, <1>3, PTL DEF Spec, IsChannel, Ch!Spec
=============================================================================
