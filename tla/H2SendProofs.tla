---------------------------- MODULE H2SendProofs ----------------------------
(***************************************************************************)
(* Theorems about H2Send, for every number of streams, every window, frame *)
(* size and limit, and whatever the peer and the application do.           *)
(***************************************************************************)
EXTENDS MCH2Send, H2CommonProofs, SequenceTheorems

-----------------------------------------------------------------------------
(* Sequences: the queues, the frames of a stream and what is left of a call. *)

\* Induction over the naturals, for a set.
LEMMA NatIn ==
  ASSUME NEW T, 0 \in T, \A n \in Nat : n \in T => n + 1 \in T
  PROVE  Nat \subseteq T
<1> DEFINE B == {n \in Nat : n \notin T}
<1>1. SUFFICES ASSUME B # {} PROVE FALSE
  OBVIOUS
<1>2. B \in SUBSET Nat
  OBVIOUS
<1> HIDE DEF B
<1>3. PICK m \in B : \A n \in B : m <= n
  BY <1>1, <1>2, NatHasMin
<1>4. m \in Nat /\ m \notin T
  BY DEF B
<1>5. m # 0
  BY <1>4
<1>6. m - 1 \in Nat /\ (m - 1) + 1 = m /\ ~(m <= m - 1)
  BY <1>4, <1>5
<1>7. m - 1 \notin B
  BY <1>3, <1>6
<1>8. m - 1 \in T
  BY <1>6, <1>7 DEF B
<1> QED BY <1>4, <1>6, <1>8

\* A sequence that is not empty is its head, followed by its tail.
LEMMA HeadAndTail ==
  ASSUME NEW S, NEW q \in Seq(S), q # <<>>
  PROVE  /\ Head(q) \in S /\ Head(q) = q[1] /\ Tail(q) \in Seq(S)
         /\ Len(q) = Len(Tail(q)) + 1 /\ Len(Tail(q)) \in Nat
         /\ \A i \in 1 .. Len(Tail(q)) : Tail(q)[i] = q[i + 1]
         /\ q = <<Head(q)>> \o Tail(q)
<1>1. /\ Head(q) \in S /\ Tail(q) \in Seq(S) /\ Len(Tail(q)) = Len(q) - 1
      /\ \A i \in 1 .. Len(Tail(q)) : Tail(q)[i] = q[i + 1]
  BY HeadTailProperties
<1>2. Len(q) \in Nat /\ Len(Tail(q)) \in Nat
  BY <1>1, LenProperties
<1>3. Head(q) = q[1]
  OBVIOUS
<1> DEFINE r == <<Head(q)>>
<1>4. r \in Seq(S) /\ Len(r) = 1 /\ r[1] = Head(q)
  BY <1>1
<1> HIDE DEF r
<1>5. /\ r \o Tail(q) \in Seq(S) /\ Len(r \o Tail(q)) = 1 + Len(Tail(q))
      /\ \A i \in 1 .. 1 + Len(Tail(q)) :
           (r \o Tail(q))[i] = IF i <= 1 THEN r[i] ELSE Tail(q)[i - 1]
  <2>1. /\ r \o Tail(q) \in Seq(S) /\ Len(r \o Tail(q)) = Len(r) + Len(Tail(q))
        /\ \A i \in 1 .. Len(r) + Len(Tail(q)) :
             (r \o Tail(q))[i] = IF i <= Len(r) THEN r[i] ELSE Tail(q)[i - Len(r)]
    <3> DEFINE tl == Tail(q)
    <3>1. tl \in Seq(S) /\ r \in Seq(S)
      BY <1>1, <1>4
    <3> HIDE DEF tl
    <3>2. /\ r \o tl \in Seq(S) /\ Len(r \o tl) = Len(r) + Len(tl)
          /\ \A i \in 1 .. Len(r) + Len(tl) :
               (r \o tl)[i] = IF i <= Len(r) THEN r[i] ELSE tl[i - Len(r)]
      BY <3>1, ConcatProperties
    <3> QED BY <3>2 DEF tl
  <2>2. /\ Len(r \o Tail(q)) = 1 + Len(Tail(q))
        /\ \A i \in 1 .. 1 + Len(Tail(q)) :
             (r \o Tail(q))[i] = IF i <= 1 THEN r[i] ELSE Tail(q)[i - 1]
    <3> DEFINE z == r \o Tail(q)
               m == Len(r)
               tl == Tail(q)
    <3>1. m = 1
      BY <1>4
    <3>2. /\ Len(z) = m + Len(tl)
          /\ \A i \in 1 .. m + Len(tl) : z[i] = IF i <= m THEN r[i] ELSE tl[i - m]
      BY <2>1, Zenon
    <3> HIDE DEF z, m, tl
    <3>3. /\ Len(z) = 1 + Len(tl)
          /\ \A i \in 1 .. 1 + Len(tl) : z[i] = IF i <= 1 THEN r[i] ELSE tl[i - 1]
      BY <3>1, <3>2, Zenon
    <3> QED BY <3>3 DEF z, tl
  <2> QED BY <2>1, <2>2
<1>6. Len(r \o Tail(q)) = Len(q)
  BY <1>1, <1>2, <1>5
<1>7. \A i \in 1 .. Len(q) : (r \o Tail(q))[i] = q[i]
  <2>1. SUFFICES ASSUME NEW i \in 1 .. Len(q) PROVE (r \o Tail(q))[i] = q[i]
    OBVIOUS
  <2>2. CASE i = 1
    BY <1>2, <1>3, <1>4, <1>5, <1>6, <2>2
  <2>3. CASE i # 1
    <3>1. i - 1 \in 1 .. Len(Tail(q)) /\ (i - 1) + 1 = i /\ ~(i <= 1)
      BY <1>1, <1>2, <2>3
    <3>2. (r \o Tail(q))[i] = Tail(q)[i - 1]
      BY <1>2, <1>5, <1>6, <3>1
    <3> QED BY <1>1, <3>1, <3>2
  <2> QED BY <2>2, <2>3
<1>8. r \o Tail(q) = q
  BY <1>5, <1>6, <1>7, SeqEqual
<1>9. Len(q) = Len(Tail(q)) + 1
  BY <1>1, <1>2
<1> QED BY <1>1, <1>2, <1>3, <1>8, <1>9 DEF r

\* What an element in front does to a sequence.
LEMMA InFront ==
  ASSUME NEW S, NEW x \in S, NEW r \in Seq(S)
  PROVE  /\ <<x>> \o r \in Seq(S)
         /\ Len(r) \in Nat
         /\ Len(<<x>> \o r) = Len(r) + 1
         /\ (<<x>> \o r)[1] = x
         /\ \A i \in 1 .. Len(r) : (<<x>> \o r)[i + 1] = r[i]
         /\ \A i \in 1 .. Len(r) + 1 :
              (<<x>> \o r)[i] = IF i = 1 THEN x ELSE r[i - 1]
         /\ <<x>> \o r # <<>>
         /\ Head(<<x>> \o r) = x
         /\ Tail(<<x>> \o r) = r
<1> DEFINE s == <<x>>
           q == s \o r
<1>1. s \in Seq(S) /\ Len(s) = 1 /\ s[1] = x
  OBVIOUS
<1> HIDE DEF s
<1>2. Len(r) \in Nat
  BY LenProperties
<1>3. /\ q \in Seq(S) /\ Len(q) = 1 + Len(r)
      /\ \A i \in 1 .. 1 + Len(r) : q[i] = IF i <= 1 THEN s[i] ELSE r[i - 1]
  <2>1. /\ q \in Seq(S) /\ Len(q) = Len(s) + Len(r)
        /\ \A i \in 1 .. Len(s) + Len(r) :
             q[i] = IF i <= Len(s) THEN s[i] ELSE r[i - Len(s)]
    BY <1>1, ConcatProperties
  <2> QED BY <1>1, <2>1, Zenon
<1> HIDE DEF q
<1>4. q[1] = x
  BY <1>1, <1>2, <1>3
<1>5. \A i \in 1 .. Len(r) : q[i + 1] = r[i]
  <2>1. SUFFICES ASSUME NEW i \in 1 .. Len(r) PROVE q[i + 1] = r[i]
    OBVIOUS
  <2>2. i + 1 \in 1 .. 1 + Len(r) /\ ~(i + 1 <= 1) /\ (i + 1) - 1 = i
    BY <1>2
  <2> QED BY <1>3, <2>2
<1>6. \A i \in 1 .. Len(r) + 1 : q[i] = IF i = 1 THEN x ELSE r[i - 1]
  BY <1>1, <1>2, <1>3
<1>7. q # <<>>
  BY <1>2, <1>3
<1>8. /\ Head(q) = q[1] /\ Tail(q) \in Seq(S) /\ Len(q) = Len(Tail(q)) + 1
      /\ Len(Tail(q)) \in Nat
      /\ \A i \in 1 .. Len(Tail(q)) : Tail(q)[i] = q[i + 1]
  BY <1>3, <1>7, HeadAndTail
<1>9. Len(Tail(q)) = Len(r)
  BY <1>2, <1>3, <1>8
<1>10. \A i \in 1 .. Len(Tail(q)) : Tail(q)[i] = r[i]
  BY <1>5, <1>8, <1>9
<1>11. Tail(q) = r
  BY <1>8, <1>9, <1>10, SeqEqual
<1>12. Len(q) = Len(r) + 1
  BY <1>2, <1>3
<1> QED BY <1>2, <1>3, <1>4, <1>5, <1>6, <1>7, <1>8, <1>11, <1>12 DEF q, s

\* The members of a queue.
LEMMA MembersOf ==
  ASSUME NEW S, NEW q \in Seq(S)
  PROVE  /\ Members(q) \subseteq S
         /\ \A T : Members(q) \subseteq T => q \in Seq(T)
<1>1. DOMAIN q = 1 .. Len(q) /\ Len(q) \in Nat /\ q \in [1 .. Len(q) -> S]
  BY LenProperties
<1>2. ASSUME NEW T, Members(q) \subseteq T
      PROVE  q \in Seq(T)
  <2>1. \A i \in 1 .. Len(q) : q[i] \in T
    BY <1>1, <1>2 DEF Members
  <2>2. q \in [1 .. Len(q) -> T]
    BY <1>1, <2>1
  <2> QED BY <1>1, <2>2, SeqDef
<1> QED BY <1>1, <1>2, Zenon DEF Members

\* A queue after a push, and without its head.
LEMMA QueueMoves ==
  ASSUME NEW S, NEW q \in Seq(S)
  PROVE  /\ \A k \in S : Push(q, k) \in Seq(S)
         /\ q # <<>> => Head(q) \in S /\ Tail(q) \in Seq(S)
<1>1. ASSUME NEW k \in S
      PROVE  Push(q, k) \in Seq(S)
  BY AppendProperties DEF Push
<1> QED BY <1>1, HeadAndTail

(* Frames that are not DATA have no size.  The frames that this side queues  *)
(* are such.                                                                 *)
Sent == {f \in Frame : f.type # "data" => f.size = 0}

\* it adds the sizes of the frames of q.
Sums(it, q) ==
  it = [n \in 0 .. Len(q) |-> IF n = 0 THEN 0 ELSE it[n - 1] + q[n].size]

\* There is such a function.
LEMMA SumsExists ==
  ASSUME NEW q, Len(q) \in Nat
  PROVE  \E it : Sums(it, q)
<1> DEFINE Upto(m) == \E g : g = [n \in 0 .. m |->
                                   IF n = 0 THEN 0 ELSE g[n - 1] + q[n].size]
           T == {m \in Nat : Upto(m)}
<1>1. Upto(0)
  <2> DEFINE g == [n \in 0 .. 0 |-> 0]
  <2>1. g = [n \in 0 .. 0 |-> IF n = 0 THEN 0 ELSE g[n - 1] + q[n].size]
    OBVIOUS
  <2> QED BY <2>1
<1>2. ASSUME NEW m \in Nat, Upto(m)
      PROVE  Upto(m + 1)
  <2>1. PICK g : g = [n \in 0 .. m |-> IF n = 0 THEN 0 ELSE g[n - 1] + q[n].size]
    BY <1>2
  <2> DEFINE h == [n \in 0 .. m + 1 |-> IF n = 0 THEN 0 ELSE g[n - 1] + q[n].size]
  <2>2. \A n \in 0 .. m : h[n] = g[n]
    <3>1. SUFFICES ASSUME NEW n \in 0 .. m PROVE h[n] = g[n]
      OBVIOUS
    <3>2. g[n] = IF n = 0 THEN 0 ELSE g[n - 1] + q[n].size
      BY <2>1
    <3>3. n \in 0 .. m + 1
      OBVIOUS
    <3>4. h[n] = IF n = 0 THEN 0 ELSE g[n - 1] + q[n].size
      BY <3>3
    <3> HIDE DEF h
    <3> QED BY <3>2, <3>4
  <2>3. h = [n \in 0 .. m + 1 |-> IF n = 0 THEN 0 ELSE h[n - 1] + q[n].size]
    <3>1. \A n \in 0 .. m + 1 : n # 0 => h[n - 1] = g[n - 1]
      <4>1. \A n \in 0 .. m + 1 : n # 0 => n - 1 \in 0 .. m
        OBVIOUS
      <4> HIDE DEF h
      <4> QED BY <2>2, <4>1
    <3> QED BY <3>1
  <2> QED BY <2>3
<1> HIDE DEF Upto
<1>3. Nat \subseteq T
  <2>1. 0 \in T
    BY <1>1
  <2>2. \A n \in Nat : n \in T => n + 1 \in T
    BY <1>2
  <2> HIDE DEF T
  <2> QED BY <2>1, <2>2, NatIn
<1>4. Upto(Len(q))
  BY <1>3
<1> QED BY <1>4, Zenon DEF Upto, Sums

\* Total is its last value.
LEMMA TotalSums ==
  ASSUME NEW q, Len(q) \in Nat
  PROVE  \E it : /\ Sums(it, q) /\ Total(q) = it[Len(q)]
                 /\ it[0] = 0
                 /\ \A n \in 1 .. Len(q) : it[n] = it[n - 1] + q[n].size
<1> DEFINE size == CHOOSE it : Sums(it, q)
<1>1. Sums(size, q)
  BY SumsExists
<1>2. Total(q) = size[Len(q)]
  BY DEF Total, Sums
<1> HIDE DEF size
<1>3. /\ size[0] = 0
      /\ \A n \in 1 .. Len(q) : size[n] = size[n - 1] + q[n].size
  BY <1>1 DEF Sums
<1> QED BY <1>1, <1>2, <1>3

\* it grows by the numbers e up to m.
Grows(it, e, m) ==
  \A n \in 1 .. m : e[n] \in Nat /\ it[n] = it[n - 1] + e[n]

\* Two sums that grow alike stay as far apart as they were at first.
LEMMA SameSums ==
  ASSUME NEW m \in Nat, NEW it, NEW jt, NEW d \in Nat,
         it[0] \in Nat, jt[0] = it[0] + d,
         NEW e, Grows(it, e, m), Grows(jt, e, m)
  PROVE  it[m] \in Nat /\ jt[m] = it[m] + d
<1> DEFINE T == {n \in Nat : n <= m => it[n] \in Nat /\ jt[n] = it[n] + d}
<1>1. 0 \in T
  OBVIOUS
<1>2. ASSUME NEW n \in Nat, n \in T
      PROVE  n + 1 \in T
  <2>1. SUFFICES ASSUME n + 1 <= m
                 PROVE  it[n + 1] \in Nat /\ jt[n + 1] = it[n + 1] + d
    OBVIOUS
  <2>2. n + 1 \in 1 .. m /\ (n + 1) - 1 = n /\ n <= m
    BY <2>1
  <2>3. it[n] \in Nat /\ jt[n] = it[n] + d
    BY <1>2, <2>2
  <2>4. /\ it[n + 1] = it[n] + e[n + 1] /\ jt[n + 1] = jt[n] + e[n + 1]
        /\ e[n + 1] \in Nat
    BY <2>2 DEF Grows
  <2> QED BY <2>3, <2>4
<1> HIDE DEF T
<1>3. m \in T
  BY <1>1, <1>2, NatIn
<1> QED BY <1>3 DEF T

\* Two sums that start at the same number and grow alike are equal.
LEMMA EqualSums ==
  ASSUME NEW m \in Nat, NEW it, NEW jt, it[0] \in Nat, jt[0] = it[0],
         NEW e, Grows(it, e, m), Grows(jt, e, m)
  PROVE  it[m] \in Nat /\ jt[m] = it[m]
<1> DEFINE T == {n \in Nat : n <= m => it[n] \in Nat /\ jt[n] = it[n]}
<1>1. 0 \in T
  OBVIOUS
<1>2. ASSUME NEW n \in Nat, n \in T
      PROVE  n + 1 \in T
  <2>1. SUFFICES ASSUME n + 1 <= m
                 PROVE  it[n + 1] \in Nat /\ jt[n + 1] = it[n + 1]
    OBVIOUS
  <2>2. n + 1 \in 1 .. m /\ (n + 1) - 1 = n /\ n <= m
    BY <2>1
  <2>3. it[n] \in Nat /\ jt[n] = it[n]
    BY <1>2, <2>2
  <2>4. /\ it[n + 1] = it[n] + e[n + 1] /\ jt[n + 1] = jt[n] + e[n + 1]
        /\ e[n + 1] \in Nat
    BY <2>2 DEF Grows
  <2> QED BY <2>3, <2>4
<1> HIDE DEF T
<1>3. m \in T
  BY <1>1, <1>2, NatIn
<1> QED BY <1>3 DEF T

\* Of no frame.
LEMMA TotalOfNone ==
  Total(<<>>) = 0
<1>1. Len(<<>>) = 0
  OBVIOUS
<1> QED BY <1>1, TotalSums

\* A size is a number, and so is their sum.
LEMMA TotalType ==
  ASSUME NEW q \in Seq(Frame)
  PROVE  Total(q) \in Nat
<1>1. Len(q) \in Nat /\ \A n \in 1 .. Len(q) : q[n].size \in Nat
  <2>1. Len(q) \in Nat /\ \A n \in 1 .. Len(q) : q[n] \in Frame
    BY LenProperties, ElementOfSeq
  <2> QED BY <2>1 DEF Frame
<1>2. PICK it : /\ Total(q) = it[Len(q)] /\ it[0] = 0
                /\ \A n \in 1 .. Len(q) : it[n] = it[n - 1] + q[n].size
  BY <1>1, TotalSums
<1> DEFINE e == [n \in 1 .. Len(q) |-> q[n].size]
<1>3. Grows(it, e, Len(q))
  BY <1>1, <1>2 DEF Grows
<1> HIDE DEF e
<1>4. it[Len(q)] \in Nat
  <2>1. Len(q) \in Nat /\ it[0] \in Nat /\ it[0] = it[0]
    BY <1>1, <1>2
  <2> DEFINE m == Len(q)
  <2> HIDE DEF m
  <2>2. it[m] \in Nat
    BY <1>3, <2>1, EqualSums DEF m
  <2> QED BY <2>2 DEF m
<1> QED BY <1>2, <1>4

\* A frame at the end, and a frame in front.
LEMMA TotalAppend ==
  ASSUME NEW q \in Seq(Frame), NEW f \in Frame
  PROVE  Total(Append(q, f)) = Total(q) + f.size
<1> DEFINE r == Append(q, f)
<1>1. Len(q) \in Nat /\ \A n \in 1 .. Len(q) : q[n].size \in Nat
  <2>1. Len(q) \in Nat /\ \A n \in 1 .. Len(q) : q[n] \in Frame
    BY LenProperties, ElementOfSeq
  <2> QED BY <2>1 DEF Frame
<1>2. /\ Len(r) = Len(q) + 1 /\ r[Len(q) + 1] = f
      /\ \A n \in 1 .. Len(q) : r[n] = q[n]
  BY AppendProperties
<1> HIDE DEF r
<1>3. PICK it : /\ Total(q) = it[Len(q)] /\ it[0] = 0
                /\ \A n \in 1 .. Len(q) : it[n] = it[n - 1] + q[n].size
  BY <1>1, TotalSums
<1>4. PICK jt : /\ Total(r) = jt[Len(r)] /\ jt[0] = 0
                /\ \A n \in 1 .. Len(r) : jt[n] = jt[n - 1] + r[n].size
  <2>1. Len(r) \in Nat
    BY <1>1, <1>2
  <2> QED BY <2>1, TotalSums
<1> DEFINE e == [n \in 1 .. Len(q) |-> q[n].size]
<1>5. Grows(it, e, Len(q))
  BY <1>1, <1>3 DEF Grows
<1>6. Grows(jt, e, Len(q))
  <2>1. ASSUME NEW n \in 1 .. Len(q)
        PROVE  e[n] \in Nat /\ jt[n] = jt[n - 1] + e[n]
    <3>1. n \in 1 .. Len(r) /\ r[n] = q[n] /\ e[n] = q[n].size /\ q[n].size \in Nat
      BY <1>1, <1>2, <2>1
    <3>2. jt[n] = jt[n - 1] + r[n].size
      BY <1>4, <3>1
    <3> QED BY <3>1, <3>2
  <2> QED BY <2>1 DEF Grows
<1> HIDE DEF e
<1>7. it[0] \in Nat /\ jt[0] = it[0]
  BY <1>3, <1>4
<1>8. it[Len(q)] \in Nat /\ jt[Len(q)] = it[Len(q)]
  <2>1. Len(q) \in Nat
    BY <1>1
  <2> QED BY <1>5, <1>6, <1>7, <2>1, EqualSums, Zenon
<1>9. Len(r) \in 1 .. Len(r) /\ Len(r) - 1 = Len(q)
  BY <1>1, <1>2
<1>10. jt[Len(r)] = jt[Len(q)] + r[Len(r)].size
  BY <1>4, <1>9
<1>11. jt[Len(q)] = it[Len(q)]
  BY <1>8
<1>12. Total(r) = Total(q) + f.size
  BY <1>2, <1>3, <1>4, <1>10, <1>11
<1> QED BY <1>12 DEF r

\* A frame in front.
LEMMA TotalInFront ==
  ASSUME NEW q \in Seq(Frame), NEW f \in Frame
  PROVE  Total(<<f>> \o q) = f.size + Total(q)
<1> DEFINE r == <<f>> \o q
<1>1. /\ Len(q) \in Nat /\ \A n \in 1 .. Len(q) : q[n].size \in Nat
      /\ f.size \in Nat
  <2>1. Len(q) \in Nat /\ \A n \in 1 .. Len(q) : q[n] \in Frame
    BY LenProperties, ElementOfSeq
  <2> QED BY <2>1 DEF Frame
<1>2. /\ Len(r) = Len(q) + 1 /\ r[1] = f
      /\ \A n \in 1 .. Len(q) : r[n + 1] = q[n]
  BY InFront
<1> HIDE DEF r
<1>3. PICK it : /\ Total(q) = it[Len(q)] /\ it[0] = 0
                /\ \A n \in 1 .. Len(q) : it[n] = it[n - 1] + q[n].size
  BY <1>1, TotalSums
<1>4. PICK jt : /\ Total(r) = jt[Len(r)] /\ jt[0] = 0
                /\ \A n \in 1 .. Len(r) : jt[n] = jt[n - 1] + r[n].size
  <2>1. Len(r) \in Nat
    BY <1>1, <1>2
  <2> QED BY <2>1, TotalSums
<1> DEFINE e  == [n \in 1 .. Len(q) |-> q[n].size]
           kt == [n \in 0 .. Len(q) |-> jt[n + 1]]
<1>5. Grows(it, e, Len(q))
  BY <1>1, <1>3 DEF Grows
<1>6. ASSUME NEW n \in 1 .. Len(q)
      PROVE  kt[n] = kt[n - 1] + e[n] /\ e[n] \in Nat
  <2>1. /\ n + 1 \in 1 .. Len(r) /\ (n + 1) - 1 = n /\ (n - 1) + 1 = n
        /\ n - 1 \in 0 .. Len(q) /\ n \in 0 .. Len(q)
    BY <1>1, <1>2
  <2>2. jt[n + 1] = jt[n] + r[n + 1].size
    BY <1>4, <2>1
  <2>3. kt[n] = jt[n + 1] /\ kt[n - 1] = jt[n]
    BY <2>1
  <2>4. r[n + 1].size = e[n] /\ e[n] \in Nat
    BY <1>1, <1>2
  <2> HIDE DEF kt, e
  <2> QED BY <2>2, <2>3, <2>4
<1>11. Grows(kt, e, Len(q))
  BY <1>6 DEF Grows
<1>7. kt[0] = f.size /\ kt[Len(q)] = jt[Len(r)]
  <2>1. 1 \in 1 .. Len(r) /\ 1 - 1 = 0
    BY <1>1, <1>2
  <2>2. jt[1] = jt[0] + r[1].size
    BY <1>4, <2>1
  <2>3. kt[0] = jt[1] /\ kt[Len(q)] = jt[Len(q) + 1]
    BY <1>1
  <2>4. jt[1] = f.size
    BY <1>1, <1>2, <1>4, <2>2
  <2> HIDE DEF kt
  <2> QED BY <1>2, <2>3, <2>4
<1> HIDE DEF e, kt
<1> DEFINE d == f.size
<1>8. it[0] \in Nat /\ kt[0] = it[0] + d /\ d \in Nat /\ Len(q) \in Nat
  BY <1>1, <1>3, <1>7
<1> HIDE DEF d
<1>9. it[Len(q)] \in Nat /\ kt[Len(q)] = it[Len(q)] + d
  BY <1>5, <1>11, <1>8, SameSums
<1>10. Total(r) = f.size + Total(q)
  BY <1>1, <1>3, <1>4, <1>7, <1>9 DEF d
<1> QED BY <1>10 DEF r

\* A frame leaves from the front.
LEMMA TotalOfTail ==
  ASSUME NEW q \in Seq(Frame), q # <<>>
  PROVE  Total(q) = Head(q).size + Total(Tail(q))
<1>1. Head(q) \in Frame /\ Tail(q) \in Seq(Frame) /\ q = <<Head(q)>> \o Tail(q)
  BY HeadAndTail
<1>2. Total(<<Head(q)>> \o Tail(q)) = Head(q).size + Total(Tail(q))
  BY <1>1, TotalInFront
<1> QED BY <1>1, <1>2, Zenon

-----------------------------------------------------------------------------
(* What is left of a call.  Steps that work on a stream find it in the slab: *)
(* its handle is still there, or a step that waits keeps it.                 *)

Names == {"assign", "after", "expire", "close", "reserve", "schedule", "queue",
          "abort", "grow", "clear", "fail"}
Steps == [do : Names, k : 0 .. MaxId, arg : Int, frame : Sent]

Uses(sc)       == "drop" \in sc.uses
Unreserved(sc) == Uses(sc) => sc.reservations \subseteq {0}

\* A step may be taken where the streams are str and the slab is st.
Sound(x, str, st, sc) ==
  /\ x.do \in {"close", "queue", "reserve"} => x.k \in st /\ str[x.k].ref_count > 0
  /\ x.do \in {"after", "expire"} => x.k \in StreamId
  /\ x.do = "schedule" => x.k \in st
  /\ x.do \in {"reserve", "grow"} => x.arg \in Nat
  /\ x.do = "reserve" /\ Uses(sc) /\ Unreserved(sc) => x.arg = 0

\* The step x may come before the step y.
Leads(x, y, str) ==
  /\ y.do = "queue" => x.do \in {"close", "assign", "after"}
  /\ x.do = "queue" => y.do = "after"
  /\ y.do = "schedule" =>
       /\ x.do \in {"assign", "after"}
       /\ x.do = "after" /\ x.k = y.k => ~FullyClosed(str[y.k])
  /\ x.do # "grow" /\ y.do # "grow"

LeadsAll(x, r, str) == \A i \in 1 .. Len(r) : Leads(x, r[i], str)

WorkOK(w, str, st, sc) ==
  /\ w \in Seq(Steps)
  /\ \A i \in 1 .. Len(w) : Sound(w[i], str, st, sc)
  /\ \A i \in 1 .. Len(w) : \A j \in 1 .. Len(w) : i < j => Leads(w[i], w[j], str)

\* A call that is over.
LEMMA NoWork ==
  ASSUME NEW str, NEW st, NEW sc
  PROVE  WorkOK(<<>>, str, st, sc)
BY DEF WorkOK

\* A step in front.
LEMMA WorkInFront ==
  ASSUME NEW str, NEW st, NEW sc, NEW r, WorkOK(r, str, st, sc),
         NEW x \in Steps, Sound(x, str, st, sc), LeadsAll(x, r, str)
  PROVE  WorkOK(<<x>> \o r, str, st, sc)
<1> DEFINE w == <<x>> \o r
<1>1. r \in Seq(Steps) /\ Len(r) \in Nat
  BY LenProperties DEF WorkOK
<1>2. /\ w \in Seq(Steps) /\ Len(w) = Len(r) + 1
      /\ \A i \in 1 .. Len(r) + 1 : w[i] = IF i = 1 THEN x ELSE r[i - 1]
  BY <1>1, InFront
<1> HIDE DEF w
<1>3. \A i \in 1 .. Len(w) : i # 1 => i - 1 \in 1 .. Len(r) /\ w[i] = r[i - 1]
  BY <1>1, <1>2
<1>4. w[1] = x
  BY <1>1, <1>2
<1>5. ASSUME NEW i \in 1 .. Len(w)
      PROVE  Sound(w[i], str, st, sc)
  <2>1. CASE i = 1
    BY <1>4, <2>1
  <2>2. CASE i # 1
    BY <1>3, <2>2, Zenon DEF WorkOK
  <2> QED BY <2>1, <2>2
<1>6. ASSUME NEW i \in 1 .. Len(w), NEW j \in 1 .. Len(w), i < j
      PROVE  Leads(w[i], w[j], str)
  <2>1. j # 1
    BY <1>1, <1>2, <1>6
  <2>2. j - 1 \in 1 .. Len(r) /\ w[j] = r[j - 1]
    BY <1>3, <2>1
  <2>3. CASE i = 1
    BY <1>4, <2>2, <2>3 DEF LeadsAll
  <2>4. CASE i # 1
    <3>1. i - 1 \in 1 .. Len(r) /\ w[i] = r[i - 1]
      BY <1>3, <2>4
    <3>2. i - 1 < j - 1
      BY <1>6
    <3>3. Leads(r[i - 1], r[j - 1], str)
      BY <2>2, <3>1, <3>2 DEF WorkOK
    <3> QED BY <2>2, <3>1, <3>3
  <2> QED BY <2>3, <2>4
<1>7. WorkOK(w, str, st, sc)
  BY <1>2, <1>5, <1>6 DEF WorkOK
<1> QED BY <1>7 DEF w

\* The step in front is taken.
LEMMA WorkTaken ==
  ASSUME NEW str, NEW st, NEW sc, NEW w, WorkOK(w, str, st, sc), w # <<>>
  PROVE  /\ Head(w) \in Steps /\ Sound(Head(w), str, st, sc)
         /\ WorkOK(Tail(w), str, st, sc) /\ LeadsAll(Head(w), Tail(w), str)
         /\ w = <<Head(w)>> \o Tail(w)
<1>1. w \in Seq(Steps)
  BY DEF WorkOK
<1>2. /\ Head(w) \in Steps /\ Head(w) = w[1] /\ Tail(w) \in Seq(Steps)
      /\ Len(w) = Len(Tail(w)) + 1 /\ Len(Tail(w)) \in Nat
      /\ \A i \in 1 .. Len(Tail(w)) : Tail(w)[i] = w[i + 1]
      /\ w = <<Head(w)>> \o Tail(w)
  BY <1>1, HeadAndTail
<1> DEFINE r == Tail(w)
           x == Head(w)
<1>3. /\ x = w[1] /\ r \in Seq(Steps) /\ Len(w) = Len(r) + 1 /\ Len(r) \in Nat
      /\ \A i \in 1 .. Len(r) : r[i] = w[i + 1]
  BY <1>2
<1> HIDE DEF r, x
<1>4. 1 \in 1 .. Len(w) /\ \A i \in 1 .. Len(r) : i + 1 \in 1 .. Len(w) /\ 1 < i + 1
  BY <1>3
<1>5. Sound(x, str, st, sc)
  BY <1>3, <1>4, Zenon DEF WorkOK
<1>6. \A i \in 1 .. Len(r) : Sound(r[i], str, st, sc)
  BY <1>3, <1>4, Zenon DEF WorkOK
<1>7. ASSUME NEW i \in 1 .. Len(r), NEW j \in 1 .. Len(r), i < j
      PROVE  Leads(r[i], r[j], str)
  <2>1. i + 1 < j + 1
    BY <1>7
  <2>2. /\ i + 1 \in 1 .. Len(w) /\ j + 1 \in 1 .. Len(w)
        /\ r[i] = w[i + 1] /\ r[j] = w[j + 1]
    BY <1>3, <1>4
  <2>3. Leads(w[i + 1], w[j + 1], str)
    BY <2>1, <2>2 DEF WorkOK
  <2> QED BY <2>2, <2>3
<1>8. \A i \in 1 .. Len(r) : Leads(x, r[i], str)
  BY <1>3, <1>4, Zenon DEF WorkOK
<1>9. WorkOK(r, str, st, sc) /\ LeadsAll(x, r, str)
  BY <1>3, <1>6, <1>7, <1>8 DEF WorkOK, LeadsAll
<1> QED BY <1>2, <1>5, <1>9 DEF r, x

\* The steps that wait stay possible when streams and slab change.
LEMMA WorkStays ==
  ASSUME NEW str, NEW st, NEW sc, NEW w, WorkOK(w, str, st, sc),
         NEW str2, NEW st2,
         \A k \in st : str[k].ref_count > 0 => k \in st2 /\ str2[k].ref_count > 0,
         \A i \in 1 .. Len(w) : w[i].do = "schedule" =>
           /\ w[i].k \in st2
           /\ FullyClosed(str2[w[i].k]) => FullyClosed(str[w[i].k])
  PROVE  WorkOK(w, str2, st2, sc)
<1>1. ASSUME NEW i \in 1 .. Len(w)
      PROVE  Sound(w[i], str2, st2, sc)
  <2>1. Sound(w[i], str, st, sc)
    BY DEF WorkOK
  <2>2. w[i].do \in {"close", "queue", "reserve"} =>
          w[i].k \in st2 /\ str2[w[i].k].ref_count > 0
    BY <2>1, Zenon DEF Sound
  <2>3. w[i].do = "schedule" => w[i].k \in st2
    OBVIOUS
  <2> QED BY <2>1, <2>2, <2>3, Zenon DEF Sound
<1>2. ASSUME NEW i \in 1 .. Len(w), NEW j \in 1 .. Len(w), i < j
      PROVE  Leads(w[i], w[j], str2)
  <2>1. Leads(w[i], w[j], str)
    BY <1>2 DEF WorkOK
  <2>2. w[j].do = "schedule" /\ FullyClosed(str2[w[j].k]) => FullyClosed(str[w[j].k])
    OBVIOUS
  <2> QED BY <2>1, <2>2, Zenon DEF Leads
<1> QED BY <1>1, <1>2 DEF WorkOK

\* Without a step that schedules, the slab alone matters.
LEMMA WorkStaysEasily ==
  ASSUME NEW str, NEW st, NEW sc, NEW w, WorkOK(w, str, st, sc),
         NEW str2, NEW st2,
         \A k \in st : str[k].ref_count > 0 => k \in st2 /\ str2[k].ref_count > 0,
         \A i \in 1 .. Len(w) : w[i].do # "schedule"
  PROVE  WorkOK(w, str2, st2, sc)
BY WorkStays, Zenon

-----------------------------------------------------------------------------
(* The size of the frame that a stream is about to queue.                    *)

Queues(x, k) == x.do = "queue" /\ x.k = k

\* Nothing is about to be queued when the call is over.
LEMMA QueueingNone ==
  \A k : Queueing(<<>>, k) = 0
BY DEF Queueing

\* A step in front counts when it queues a frame of the stream.
LEMMA QueueingInFront ==
  ASSUME NEW str, NEW st, NEW sc, NEW x, NEW r \in Seq(Steps), x \in Steps,
         WorkOK(<<x>> \o r, str, st, sc), NEW k
  PROVE  Queueing(<<x>> \o r, k)
           = IF Queues(x, k) THEN x.frame.size ELSE Queueing(r, k)
<1> DEFINE w == <<x>> \o r
           mine(q) == {i \in DOMAIN q : q[i].do = "queue" /\ q[i].k = k}
<1>1. /\ w \in Seq(Steps) /\ Len(w) = Len(r) + 1 /\ w[1] = x /\ Len(r) \in Nat
      /\ \A i \in 1 .. Len(r) : w[i + 1] = r[i]
      /\ \A i \in 1 .. Len(r) + 1 : w[i] = IF i = 1 THEN x ELSE r[i - 1]
  BY InFront
<1>2. DOMAIN w = 1 .. Len(w) /\ DOMAIN r = 1 .. Len(r)
  BY <1>1, LenProperties
<1>3. WorkOK(w, str, st, sc)
  OBVIOUS
<1> HIDE DEF w
<1>4. \A i \in mine(w) : \A j \in mine(w) : ~(i < j)
  <2>1. SUFFICES ASSUME NEW i \in mine(w), NEW j \in mine(w), i < j
                 PROVE  FALSE
    OBVIOUS
  <2>2. Leads(w[i], w[j], str)
    BY <1>2, <1>3, <2>1 DEF WorkOK
  <2> QED BY <2>2 DEF Leads
<1>5. \A i \in mine(w) : \A j \in mine(w) : i = j
  BY <1>1, <1>2, <1>4
<1>6. \A q : Queueing(q, k) =
               IF mine(q) = {} THEN 0 ELSE q[CHOOSE i \in mine(q) : TRUE].frame.size
  BY DEF Queueing
<1>7. CASE Queues(x, k)
  <2>1. 1 \in mine(w)
    BY <1>1, <1>2, <1>7 DEF Queues
  <2>2. (CHOOSE i \in mine(w) : TRUE) = 1
    <3> HIDE DEF mine
    <3>1. (CHOOSE i \in mine(w) : TRUE) \in mine(w)
      BY <2>1
    <3> QED BY <1>5, <2>1, <3>1
  <2>3. Queueing(w, k) = w[1].frame.size
    BY <1>6, <2>1, <2>2
  <2> QED BY <1>1, <1>7, <2>3 DEF w
<1>8. CASE ~Queues(x, k)
  <2>1. \A i \in mine(r) : i + 1 \in mine(w) /\ w[i + 1] = r[i]
    <3>1. SUFFICES ASSUME NEW i \in mine(r)
                   PROVE  i + 1 \in mine(w) /\ w[i + 1] = r[i]
      OBVIOUS
    <3>2. i \in 1 .. Len(r) /\ i + 1 \in 1 .. Len(w) /\ w[i + 1] = r[i]
      BY <1>1, <1>2
    <3> QED BY <1>2, <3>2
  <2>2. \A i \in mine(w) : i - 1 \in mine(r) /\ w[i] = r[i - 1]
    <3>1. SUFFICES ASSUME NEW i \in mine(w)
                   PROVE  i - 1 \in mine(r) /\ w[i] = r[i - 1]
      OBVIOUS
    <3>2. i \in 1 .. Len(w) /\ i # 1
      BY <1>1, <1>2, <1>8 DEF Queues
    <3>3. i - 1 \in 1 .. Len(r) /\ w[i] = r[i - 1]
      BY <1>1, <3>2
    <3> QED BY <1>2, <3>3
  <2>3. Queueing(w, k) = Queueing(r, k)
    <3>1. CASE mine(r) = {}
      <4>1. mine(w) = {}
        <5> HIDE DEF mine
        <5> QED BY <2>2, <3>1
      <4> HIDE DEF mine
      <4> QED BY <1>6, <3>1, <4>1
    <3>2. CASE mine(r) # {}
      <4> DEFINE a == CHOOSE i \in mine(r) : TRUE
                 b == CHOOSE i \in mine(w) : TRUE
      <4>1. a \in mine(r)
        <5> HIDE DEF mine
        <5> QED BY <3>2
      <4>2. mine(w) # {} /\ b \in mine(w)
        <5> HIDE DEF mine
        <5>1. mine(w) # {}
          BY <2>1, <4>1
        <5> QED BY <5>1
      <4>3. Queueing(r, k) = r[a].frame.size /\ Queueing(w, k) = w[b].frame.size
        <5> HIDE DEF mine
        <5> QED BY <1>6, <3>2, <4>2
      <4>4. a + 1 = b
        <5>1. a + 1 \in mine(w)
          <6> HIDE DEF mine, a, b
          <6> QED BY <2>1, <4>1
        <5> HIDE DEF mine, a, b
        <5> QED BY <1>5, <4>2, <5>1
      <4>5. w[b] = r[a]
        <5> HIDE DEF mine, a, b
        <5> QED BY <2>1, <4>1, <4>4
      <4> QED BY <4>3, <4>5
    <3> QED BY <3>1, <3>2
  <2> QED BY <1>8, <2>3 DEF w
<1> QED BY <1>7, <1>8

-----------------------------------------------------------------------------
(* One stream.                                                               *)

\* A record in order: what is assigned was asked for and fits the window,
\* what is buffered was asked for.
Good(s, sc) ==
  /\ s \in Stream /\ s.pending_send \in Seq(Sent)
  /\ s.send_flow.available <= s.requested_send_capacity
  /\ s.send_flow.available <= AsSize(s.send_flow.window_size)
  /\ s.buffered_send_data <= s.requested_send_capacity
  /\ Unreserved(sc) =>
       /\ 0 <= s.send_flow.available
       /\ Uses(sc) => s.requested_send_capacity = s.buffered_send_data

\* t differs from s in what tasks were told, and in its flow.
Like(s, t) ==
  /\ t.state = s.state /\ t.is_counted = s.is_counted
  /\ t.ref_count = s.ref_count
  /\ t.requested_send_capacity = s.requested_send_capacity
  /\ t.buffered_send_data = s.buffered_send_data
  /\ t.pending_send = s.pending_send
  /\ t.is_pending_push = s.is_pending_push
  /\ t.is_pending_reset = s.is_pending_reset
Silent(s, t) == t \in Stream /\ Like(s, t) /\ t.send_flow = s.send_flow

\* What the capacity of a stream loses, the connection has afterwards.
Moves(s, t, fl, fl2) ==
  /\ fl2 \in FlowControl
  /\ 0 <= fl.available => 0 <= fl2.available
  /\ fl2.available + t.send_flow.available - fl2.window_size
       = fl.available + s.send_flow.available - fl.window_size

\* A record stays in order.
LEMMA SilentGood ==
  ASSUME NEW s, NEW t, NEW sc, Good(s, sc), Silent(s, t)
  PROVE  Good(t, sc)
BY DEF Good, Silent, Like

\* Twice.
LEMMA SilentChains ==
  ASSUME NEW s, NEW t, NEW u, Silent(s, t), Silent(t, u)
  PROVE  Silent(s, u)
BY DEF Silent, Like

\* The types of the fields.
LEMMA StreamFields ==
  ASSUME NEW s \in Stream
  PROVE  /\ s.state \in State /\ s.is_counted \in BOOLEAN /\ s.ref_count \in 0 .. 1
         /\ s.send_flow \in FlowControl /\ s.requested_send_capacity \in Nat
         /\ s.buffered_send_data \in Nat /\ s.send_capacity_inc \in BOOLEAN
         /\ s.pending_send \in Seq(Frame) /\ s.is_pending_push \in BOOLEAN
         /\ s.is_pending_reset \in BOOLEAN /\ s.send_task \in Tasks \cup {"-"}
         /\ s.waiting \in SUBSET Tasks
         /\ s.send_flow.available \in Int /\ s.send_flow.window_size \in Int
<1>1. /\ s.state \in State /\ s.is_counted \in BOOLEAN /\ s.ref_count \in 0 .. 1
      /\ s.send_flow \in FlowControl /\ s.requested_send_capacity \in Nat
      /\ s.buffered_send_data \in Nat /\ s.send_capacity_inc \in BOOLEAN
      /\ s.pending_send \in Seq(Frame) /\ s.is_pending_push \in BOOLEAN
      /\ s.is_pending_reset \in BOOLEAN /\ s.send_task \in Tasks \cup {"-"}
      /\ s.waiting \in SUBSET Tasks
  BY DEF Stream
<1> QED BY <1>1 DEF FlowControl

\* A frame that is queued is a frame.
LEMMA SentFrames ==
  ASSUME NEW q \in Seq(Sent)
  PROVE  q \in Seq(Frame)
<1>1. Sent \subseteq Frame
  BY DEF Sent
<1> QED BY <1>1, SeqMonotonic

\* Stream::notify_send changes the tasks.
LEMMA NotifySendSilent ==
  ASSUME NEW s \in Stream
  PROVE  Silent(s, NotifySend(s))
<1>1. NotifySend(s) \in Stream
  BY StreamFields DEF NotifySend, Stream
<1>2. Like(s, NotifySend(s)) /\ NotifySend(s).send_flow = s.send_flow
  BY DEF NotifySend, Like, Stream
<1> QED BY <1>1, <1>2 DEF Silent

\* So does Stream::notify_capacity.
LEMMA NotifyCapacitySilent ==
  ASSUME NEW s, NEW t \in Stream
  PROVE  Silent(t, NotifyCapacity(s, t))
<1> DEFINE u == [t EXCEPT !.send_capacity_inc = TRUE]
<1>1. Silent(t, t)
  BY DEF Silent, Like
<1>2. Silent(t, u)
  BY DEF Silent, Like, Stream
<1>3. Silent(u, NotifySend(u))
  BY <1>2, NotifySendSilent DEF Silent
<1>4. Silent(t, NotifySend(u))
  BY <1>2, <1>3, SilentChains
<1> QED BY <1>1, <1>4 DEF NotifyCapacity

\* So does a task that runs.
LEMMA RunsSilent ==
  ASSUME NEW s \in Stream
  PROVE  Silent(s, Runs(s))
BY DEF Runs, Silent, Like, Stream

\* A stream is assigned n.
LEMMA Assigned ==
  ASSUME NEW s \in Stream, NEW n \in Int
  PROVE  /\ AssignToStream(s, n) \in Stream
         /\ Like(s, AssignToStream(s, n))
         /\ AssignToStream(s, n).send_flow.available = s.send_flow.available + n
         /\ AssignToStream(s, n).send_flow.window_size = s.send_flow.window_size
<1> DEFINE u == [s EXCEPT !.send_flow = AssignCapacity(@, n)]
<1>1. /\ u.send_flow.available = s.send_flow.available + n
      /\ u.send_flow.window_size = s.send_flow.window_size
      /\ u \in Stream /\ Like(s, u)
  <2>1. /\ AssignCapacity(s.send_flow, n) \in FlowControl
        /\ AssignCapacity(s.send_flow, n).available = s.send_flow.available + n
        /\ AssignCapacity(s.send_flow, n).window_size = s.send_flow.window_size
    BY StreamFields DEF FlowControl, AssignCapacity
  <2>2. u.send_flow = AssignCapacity(s.send_flow, n) /\ u \in Stream
    BY <2>1 DEF Stream
  <2>3. Like(s, u)
    BY DEF Stream, Like
  <2> QED BY <2>1, <2>2, <2>3
<1>2. Silent(u, AssignToStream(s, n))
  BY <1>1, NotifyCapacitySilent DEF AssignToStream
<1> QED BY <1>1, <1>2 DEF Silent, Like

\* A stream sends n of what it has buffered.
LEMMA SentData ==
  ASSUME NEW s \in Stream, NEW n \in Nat,
         n <= s.buffered_send_data, n <= s.requested_send_capacity
  PROVE  LET t == SendDataOf(s, n)
         IN /\ t \in Stream
            /\ t.state = s.state /\ t.is_counted = s.is_counted
            /\ t.ref_count = s.ref_count /\ t.pending_send = s.pending_send
            /\ t.requested_send_capacity = s.requested_send_capacity - n
            /\ t.buffered_send_data = s.buffered_send_data - n
            /\ t.send_flow.available = s.send_flow.available - n
            /\ t.send_flow.window_size = s.send_flow.window_size - n
<1> DEFINE u == [s EXCEPT !.send_flow = SendData(@, n),
                          !.buffered_send_data = @ - n,
                          !.requested_send_capacity = @ - n]
<1>1. /\ s.buffered_send_data - n \in Nat /\ s.requested_send_capacity - n \in Nat
      /\ SendData(s.send_flow, n) \in FlowControl
  BY StreamFields DEF SendData, FlowControl
<1>2. /\ u \in Stream
      /\ u.state = s.state /\ u.is_counted = s.is_counted
      /\ u.ref_count = s.ref_count /\ u.pending_send = s.pending_send
      /\ u.requested_send_capacity = s.requested_send_capacity - n
      /\ u.buffered_send_data = s.buffered_send_data - n
      /\ u.send_flow = SendData(s.send_flow, n)
  BY <1>1 DEF Stream
<1>3. Silent(u, SendDataOf(s, n))
  BY <1>2, NotifyCapacitySilent DEF SendDataOf
<1> QED BY <1>2, <1>3 DEF Silent, Like, SendData

\* A stream gives everything back and forgets its frames.
LEMMA ClearedGood ==
  ASSUME NEW s, NEW sc, Good(s, sc)
  PROVE  /\ Good(Cleared(s), sc)
         /\ Cleared(s).buffered_send_data = 0 /\ Cleared(s).pending_send = <<>>
         /\ Cleared(s).requested_send_capacity = 0
         /\ Cleared(s).state = s.state /\ Cleared(s).is_counted = s.is_counted
         /\ Cleared(s).ref_count = s.ref_count
         /\ Cleared(s).send_flow.available
              = s.send_flow.available - AsSize(s.send_flow.available)
<1> DEFINE a == AsSize(s.send_flow.available)
           t == Cleared(s)
<1>1. s \in Stream
  BY DEF Good
<1>2. s.send_flow.available \in Int /\ s.send_flow.window_size \in Int
  BY <1>1, StreamFields
<1>3. a \in Nat
  BY <1>2 DEF AsSize
<1>4. ClaimCapacity(s.send_flow, a) \in FlowControl
  BY <1>1, <1>3, StreamFields DEF ClaimCapacity, FlowControl
<1>5. <<>> \in Seq(Frame) /\ <<>> \in Seq(Sent)
  OBVIOUS
<1>6. t = [s EXCEPT !.pending_send = <<>>, !.buffered_send_data = 0,
                    !.requested_send_capacity = 0,
                    !.send_flow = ClaimCapacity(@, a)]
  BY DEF Cleared
<1> HIDE DEF a, t
<1>7. /\ t \in Stream /\ t.pending_send = <<>> /\ t.buffered_send_data = 0
      /\ t.requested_send_capacity = 0 /\ t.state = s.state
      /\ t.is_counted = s.is_counted /\ t.ref_count = s.ref_count
      /\ t.send_flow = ClaimCapacity(s.send_flow, a)
  BY <1>1, <1>4, <1>5, <1>6 DEF Stream
<1>8. /\ t.send_flow.available = s.send_flow.available - a
      /\ t.send_flow.window_size = s.send_flow.window_size
  BY <1>1, <1>7, StreamFields DEF ClaimCapacity, FlowControl
<1>9. /\ t.send_flow.available <= 0 /\ 0 <= AsSize(t.send_flow.window_size)
      /\ 0 <= s.send_flow.available => t.send_flow.available = 0
  BY <1>2, <1>8 DEF AsSize, a
<1>10. t.send_flow.available \in Int
  BY <1>2, <1>3, <1>8
<1>11. /\ t.send_flow.available <= t.requested_send_capacity
       /\ t.send_flow.available <= AsSize(t.send_flow.window_size)
       /\ t.buffered_send_data <= t.requested_send_capacity
  <2>1. AsSize(t.send_flow.window_size) \in Int
    BY <1>2, <1>8 DEF AsSize
  <2> QED BY <1>7, <1>9, <1>10, <2>1
<1>12. Good(t, sc)
  BY <1>5, <1>7, <1>9, <1>11 DEF Good
<1> QED BY <1>7, <1>8, <1>12 DEF t, a

\* What a stream gains, the connection gives.
LEMMA GivenMoves ==
  ASSUME NEW s, NEW t, NEW fl \in FlowControl, NEW fl2 \in FlowControl,
         NEW n \in Int, s.send_flow.available \in Int,
         t.send_flow.available = s.send_flow.available + n,
         fl2.available = fl.available - n, fl2.window_size = fl.window_size,
         0 <= fl.available => 0 <= fl2.available
  PROVE  Moves(s, t, fl, fl2)
<1>1. fl.available \in Int /\ fl.window_size \in Int
  BY DEF FlowControl
<1> DEFINE a == s.send_flow.available
           b == fl.available
           w == fl.window_size
<1>2. a \in Int /\ b \in Int /\ w \in Int
  BY <1>1
<1>3. fl2.available = b - n /\ fl2.window_size = w /\ t.send_flow.available = a + n
  OBVIOUS
<1> HIDE DEF a, b, w
<1>4. (b - n) + (a + n) - w = b + a - w
  BY <1>2
<1> QED BY <1>3, <1>4 DEF Moves, a, b, w

\* reclaim_all_capacity gives back what it takes.
LEMMA ReclaimedMoves ==
  ASSUME NEW s \in Stream, NEW t, flow \in FlowControl,
         t.send_flow.available = s.send_flow.available - AsSize(s.send_flow.available)
  PROVE  Moves(s, t, flow, Reclaimed(s))
<1>1. s.send_flow.available \in Int /\ AsSize(s.send_flow.available) \in Nat
  BY StreamFields DEF AsSize
<1>2. flow.available \in Int /\ flow.window_size \in Int
  BY DEF FlowControl
<1>3. /\ Reclaimed(s) \in FlowControl
      /\ Reclaimed(s).available = flow.available + AsSize(s.send_flow.available)
      /\ Reclaimed(s).window_size = flow.window_size
  BY <1>1, <1>2 DEF Reclaimed, AssignCapacity, FlowControl
<1> QED BY <1>1, <1>2, <1>3 DEF Moves

\* Nothing moves.
LEMMA StillMoves ==
  ASSUME NEW s \in Stream, NEW t, NEW fl \in FlowControl,
         t.send_flow.available = s.send_flow.available
  PROVE  Moves(s, t, fl, fl)
BY StreamFields DEF Moves, FlowControl

-----------------------------------------------------------------------------
(* The calls that several actions make, each as one change of one stream.    *)

\* t owns the same frames as s, and is as alive.
Same(s, t) ==
  /\ t.state = s.state /\ t.is_counted = s.is_counted
  /\ t.ref_count = s.ref_count
  /\ t.buffered_send_data = s.buffered_send_data
  /\ t.pending_send = s.pending_send

\* To keep more is to keep these.
LEMMA LikeSame ==
  ASSUME NEW s, NEW t, Like(s, t)
  PROVE  Same(s, t)
BY DEF Like, Same

\* try_assign_capacity: what a stream still lacks.
LEMMA AdditionalFits ==
  ASSUME NEW s, NEW sc, Good(s, sc)
  PROVE  /\ Additional(s) \in Nat
         /\ \A n \in Nat : 0 < n /\ n <= Additional(s) =>
              /\ s.send_flow.available + n <= s.requested_send_capacity
              /\ s.send_flow.available + n <= AsSize(s.send_flow.window_size)
<1> DEFINE a == s.send_flow.available
           w == s.send_flow.window_size
           r == s.requested_send_capacity
<1>1. a \in Int /\ w \in Int /\ r \in Nat /\ a <= r /\ a <= AsSize(w)
  BY StreamFields DEF Good
<1>2. Additional(s) = Least(r - AsSize(a), AsSize(w) - AsSize(a))
  BY DEF Additional
<1> HIDE DEF a, w, r
<1>3. AsSize(w) \in Nat /\ AsSize(a) \in Nat /\ a <= AsSize(a)
  BY <1>1 DEF AsSize
<1>4. AsSize(a) <= r /\ AsSize(a) <= AsSize(w)
  BY <1>1, <1>3 DEF AsSize
<1>5. Additional(s) \in Nat
  BY <1>1, <1>2, <1>3, <1>4 DEF Least
<1>6. Additional(s) <= r - AsSize(a) /\ Additional(s) <= AsSize(w) - AsSize(a)
  BY <1>1, <1>2, <1>3, <1>4 DEF Least
<1>7. ASSUME NEW n \in Nat, n <= Additional(s)
      PROVE  a + n <= r /\ a + n <= AsSize(w)
  BY <1>1, <1>3, <1>5, <1>6, <1>7
<1> QED BY <1>5, <1>7 DEF a, w, r

\* try_assign_capacity: what the stream gets, the connection loses.
LEMMA TryAssigned ==
  ASSUME NEW S, pending_send \in Seq(S), NEW capacity \in Seq(S), NEW k \in S,
         k \in StreamId, flow \in FlowControl, NEW sc,
         NEW str \in [StreamId -> Stream], Good(str[k], sc),
         TryAssign(str, capacity, k)
  PROVE  /\ pending_send' \in Seq(S) /\ pending_capacity' \in Seq(S)
         /\ \E t : /\ streams' = [str EXCEPT ![k] = t]
                   /\ Good(t, sc) /\ Like(str[k], t)
                   /\ Moves(str[k], t, flow, flow')
<1> DEFINE s == str[k]
           n == Least(AsSize(flow.available), Additional(s))
           t == IF n > 0 THEN AssignToStream(s, n) ELSE s
<1>1. s \in Stream /\ flow.available \in Int /\ flow.window_size \in Int
  BY DEF FlowControl
<1>2. CASE Additional(s) = 0
  <2>1. streams' = str /\ pending_capacity' = capacity
    BY <1>2 DEF TryAssign
  <2>2. flow' = flow /\ pending_send' = pending_send
    BY <1>2 DEF TryAssign
  <2>3. streams' = [str EXCEPT ![k] = s]
    BY <2>1
  <2>4. Like(s, s) /\ Moves(s, s, flow, flow')
    <3>1. Like(s, s)
      BY DEF Like
    <3>2. Moves(s, s, flow, flow)
      BY <1>1, StillMoves
    <3> QED BY <2>2, <3>1, <3>2
  <2> QED BY <2>1, <2>2, <2>3, <2>4
<1>3. CASE Additional(s) # 0
  <2>1. /\ streams' = [str EXCEPT ![k] = t]
        /\ flow' = ClaimCapacity(flow, n)
        /\ pending_capacity' = IF WaitsForCapacity(t) THEN Push(capacity, k) ELSE capacity
        /\ pending_send' = IF t.buffered_send_data > 0 /\ IsSendReady(t, k)
                           THEN Push(pending_send, k) ELSE pending_send
    BY <1>3 DEF TryAssign
  <2>2. /\ pending_send' \in Seq(S) /\ pending_capacity' \in Seq(S)
    <3> HIDE DEF t, n
    <3>1. Push(capacity, k) \in Seq(S) /\ Push(pending_send, k) \in Seq(S)
      BY QueueMoves
    <3> QED BY <2>1, <3>1
  <2>3. Additional(s) \in Nat
    BY AdditionalFits
  <2>4. n \in Nat /\ n <= Additional(s) /\ (0 <= flow.available => n <= flow.available)
    BY <1>1, <2>3 DEF Least, AsSize
  <2>5. /\ t \in Stream /\ Like(s, t)
        /\ t.send_flow.available = s.send_flow.available + n
        /\ t.send_flow.window_size = s.send_flow.window_size
    <3>1. CASE n > 0
      <4>1. t = AssignToStream(s, n)
        BY <3>1
      <4>2. n \in Int
        BY <2>4
      <4> HIDE DEF t, n, s
      <4> QED BY <1>1, <4>1, <4>2, Assigned
    <3>2. CASE ~(n > 0)
      <4>1. n = 0 /\ t = s
        BY <2>4, <3>2
      <4> HIDE DEF t, n
      <4>2. s.send_flow.available = s.send_flow.available + 0
        BY <1>1, StreamFields
      <4> QED BY <1>1, <4>1, <4>2 DEF Like
    <3> QED BY <3>1, <3>2
  <2>6. flow' \in FlowControl /\ flow'.available = flow.available - n
          /\ flow'.window_size = flow.window_size
    <3> HIDE DEF n, t
    <3> QED BY <1>1, <2>1, <2>4 DEF ClaimCapacity, FlowControl
  <2> HIDE DEF t, n
  <2>7. s.send_flow.available \in Int /\ t.send_flow.available \in Int
    BY <1>1, <2>5, StreamFields
  <2>8. Moves(s, t, flow, flow')
    <3> HIDE DEF s
    <3>1. n \in Int /\ (0 <= flow.available => 0 <= flow'.available)
      BY <1>1, <2>4, <2>6
    <3> QED BY <2>5, <2>6, <2>7, <3>1, GivenMoves
  <2>9. Good(t, sc)
    <3>1. \/ n = 0
          \/ /\ s.send_flow.available + n <= s.requested_send_capacity
             /\ s.send_flow.available + n <= AsSize(s.send_flow.window_size)
      <4>1. n = 0 \/ 0 < n
        BY <2>4
      <4> QED BY <2>4, <4>1, AdditionalFits
    <3>2. /\ t.send_flow.available <= s.requested_send_capacity
          /\ t.send_flow.available <= AsSize(s.send_flow.window_size)
          /\ 0 <= s.send_flow.available => 0 <= t.send_flow.available
      BY <2>4, <2>5, <2>7, <3>1 DEF Good
    <3> QED BY <2>5, <3>2 DEF Good, Like
  <2> QED BY <2>1, <2>2, <2>5, <2>8, <2>9
<1> QED BY <1>2, <1>3

\* The part of the frame in the codec that a stream still counts.
Flight(fl, ch, k) == IF fl = k THEN ch.size ELSE 0
Backed(s, k, fl, ch) == s.buffered_send_data = Total(s.pending_send) + Flight(fl, ch, k)

\* The frame in the codec is forgotten.
LEMMA Forgotten ==
  ASSUME NEW k \in StreamId, ForgetInFlight(k), in_flight \in 0 .. Dropped, NEW ch
  PROVE  /\ in_flight' \in 0 .. Dropped /\ Flight(in_flight', ch, k) = 0
         /\ \A j \in StreamId : j # k =>
              Flight(in_flight', ch, j) = Flight(in_flight, ch, j)
         /\ in_flight = 0 => in_flight' = 0
<1>1. MaxId \in Nat /\ Dropped = MaxId + 1 /\ Dropped \notin StreamId /\ 0 \notin StreamId
  BY SendAssumption DEF Dropped, StreamId
<1> QED BY <1>1 DEF ForgetInFlight, Flight

\* A stream that was cleared, and may have a RST_STREAM to send.
LEMMA ClearedBacked ==
  ASSUME NEW t, NEW k \in StreamId, ForgetInFlight(k), in_flight \in 0 .. Dropped,
         NEW ch, t.buffered_send_data = 0,
         t.pending_send = <<>> \/ t.pending_send = <<ResetFrame>>
  PROVE  Backed(t, k, in_flight', ch)
<1>1. Flight(in_flight', ch, k) = 0
  BY Forgotten
<1>2. Total(<<>>) = 0
  BY TotalOfNone
<1>3. Total(<<ResetFrame>>) = 0
  <2>1. ResetFrame \in Frame /\ ResetFrame.size = 0
    BY SendAssumption DEF ResetFrame, Frame
  <2>2. <<>> \in Seq(Frame) /\ Append(<<>>, ResetFrame) = <<ResetFrame>>
    OBVIOUS
  <2>3. Total(Append(<<>>, ResetFrame)) = Total(<<>>) + ResetFrame.size
    BY <2>1, <2>2, TotalAppend
  <2> QED BY <1>2, <2>1, <2>2, <2>3
<1> QED BY <1>1, <1>2, <1>3 DEF Backed

\* schedule_send.
LEMMA Scheduled ==
  ASSUME NEW S, pending_send \in Seq(S), NEW k \in S, NEW s, task \in BOOLEAN,
         ScheduleSend(s, k)
  PROVE  pending_send' \in Seq(S) /\ task' \in BOOLEAN
BY QueueMoves DEF ScheduleSend

\* RST_STREAM is a frame that this side queues.
LEMMA ResetFrameSent ==
  ResetFrame \in Sent /\ <<ResetFrame>> \in Seq(Sent) /\ <<ResetFrame>> \in Seq(Frame)
<1>1. ResetFrame \in Frame /\ ResetFrame \in Sent
  BY SendAssumption DEF ResetFrame, Frame, Sent
<1> QED BY <1>1

\* send_reset leaves a stream in order, whose frames are what it counts.
LEMMA ResetSent ==
  ASSUME NEW S, pending_send \in Seq(S), NEW k \in S, k \in StreamId,
         flow \in FlowControl, in_flight \in 0 .. Dropped, task \in BOOLEAN,
         NEW sc, NEW s, Good(s, sc), NEW rest, SendReset(k, s, rest)
  PROVE  /\ pending_send' \in Seq(S) /\ task' \in BOOLEAN
         /\ in_flight' \in 0 .. Dropped
         /\ \A j \in StreamId : j # k =>
              Flight(in_flight', chunk, j) = Flight(in_flight, chunk, j)
         /\ in_flight = 0 => in_flight' = 0
         /\ work' = rest \/ work' = AssignStep \o rest \/ work' = <<>> \o rest
         /\ \E t : /\ streams' = [streams EXCEPT ![k] = t]
                   /\ Good(t, sc) /\ t.is_counted = s.is_counted
                   /\ t.ref_count = s.ref_count
                   /\ Moves(s, t, flow, flow')
                   /\ Backed(s, k, in_flight, chunk) => Backed(t, k, in_flight', chunk)
<1> DEFINE t == [Cleared(s) EXCEPT !.state = SetReset,
                                   !.pending_send = <<ResetFrame>>]
           u == [s EXCEPT !.state = SetReset]
<1>1. s \in Stream
  BY DEF Good
<1>2. CASE /\ streams' = [streams EXCEPT ![k] = s] /\ work' = rest
           /\ UNCHANGED <<flow, in_flight, pending_send, task>>
  <2>1. Moves(s, s, flow, flow')
    BY <1>1, <1>2, StillMoves
  <2> QED BY <1>2, <2>1
<1>3. CASE /\ streams' = [streams EXCEPT ![k] = u] /\ work' = rest
           /\ UNCHANGED <<flow, in_flight, pending_send, task>>
  <2>1. /\ u \in Stream /\ u.pending_send = s.pending_send
        /\ u.send_flow = s.send_flow /\ u.buffered_send_data = s.buffered_send_data
        /\ u.requested_send_capacity = s.requested_send_capacity
        /\ u.is_counted = s.is_counted /\ u.ref_count = s.ref_count
    BY <1>1, StateValues DEF Stream
  <2> HIDE DEF u
  <2>2. Moves(s, u, flow, flow')
    BY <1>1, <1>3, <2>1, StillMoves
  <2>3. Good(u, sc)
    BY <2>1 DEF Good
  <2>4. Backed(s, k, in_flight, chunk) => Backed(u, k, in_flight', chunk)
    BY <1>3, <2>1 DEF Backed
  <2> QED BY <1>3, <2>1, <2>2, <2>3, <2>4
<1>4. CASE /\ streams' = [streams EXCEPT ![k] = t]
           /\ ForgetInFlight(k) /\ ScheduleSend(t, k)
           /\ flow' = Reclaimed(s) /\ work' = ReclaimStep(s) \o rest
  <2>1. /\ Good(Cleared(s), sc)
        /\ Cleared(s).buffered_send_data = 0
        /\ Cleared(s).requested_send_capacity = 0
        /\ Cleared(s).is_counted = s.is_counted
        /\ Cleared(s).ref_count = s.ref_count
        /\ Cleared(s).send_flow.available
             = s.send_flow.available - AsSize(s.send_flow.available)
    BY ClearedGood
  <2>2. Cleared(s) \in Stream
    BY <2>1 DEF Good
  <2>3. /\ t \in Stream /\ t.pending_send = <<ResetFrame>>
        /\ t.send_flow = Cleared(s).send_flow
        /\ t.buffered_send_data = Cleared(s).buffered_send_data
        /\ t.requested_send_capacity = Cleared(s).requested_send_capacity
        /\ t.is_counted = Cleared(s).is_counted /\ t.ref_count = Cleared(s).ref_count
    <3> HIDE DEF Cleared
    <3> QED BY <2>2, StateValues, ResetFrameSent DEF Stream
  <2> HIDE DEF t
  <2>4. Good(t, sc)
    BY <2>1, <2>3, ResetFrameSent DEF Good
  <2>5. Moves(s, t, flow, flow')
    BY <1>1, <1>4, <2>1, <2>3, ReclaimedMoves
  <2>6. Backed(t, k, in_flight', chunk)
    BY <1>4, <2>1, <2>3, ClearedBacked
  <2>7. /\ in_flight' \in 0 .. Dropped
        /\ \A j \in StreamId : j # k =>
             Flight(in_flight', chunk, j) = Flight(in_flight, chunk, j)
        /\ in_flight = 0 => in_flight' = 0
    BY <1>4, Forgotten
  <2>8. pending_send' \in Seq(S) /\ task' \in BOOLEAN
    BY <1>4, Scheduled
  <2>9. work' = AssignStep \o rest \/ work' = <<>> \o rest
    BY <1>4 DEF ReclaimStep
  <2> QED BY <1>4, <2>1, <2>3, <2>4, <2>5, <2>6, <2>7, <2>8, <2>9
<1> QED BY <1>2, <1>3, <1>4 DEF SendReset

\* recv_stream_window_update.
LEMMA WindowUpdated ==
  ASSUME NEW S, pending_send \in Seq(S), pending_capacity \in Seq(S),
         NEW k \in S, k \in StreamId, flow \in FlowControl,
         in_flight \in 0 .. Dropped, task \in BOOLEAN, NEW sc,
         streams \in [StreamId -> Stream], Good(streams[k], sc),
         NEW n \in Nat, NEW rest, NEW onError, WindowUpdate(k, n, rest, onError)
  PROVE  /\ pending_send' \in Seq(S) /\ pending_capacity' \in Seq(S)
         /\ task' \in BOOLEAN /\ in_flight' \in 0 .. Dropped
         /\ \A j \in StreamId : j # k =>
              Flight(in_flight', chunk, j) = Flight(in_flight, chunk, j)
         /\ in_flight = 0 => in_flight' = 0
         /\ \/ work' = rest \/ work' = onError \/ work' = AssignStep \o onError
            \/ work' = <<>> \o onError
         /\ \E t : /\ streams' = [streams EXCEPT ![k] = t]
                   /\ Good(t, sc) /\ t.is_counted = streams[k].is_counted
                   /\ t.ref_count = streams[k].ref_count
                   /\ Moves(streams[k], t, flow, flow')
                   /\ Backed(streams[k], k, in_flight, chunk)
                        => Backed(t, k, in_flight', chunk)
<1> DEFINE s == streams[k]
           u == [s EXCEPT !.send_flow = IncWindow(@, n)]
           str == [streams EXCEPT ![k].send_flow = IncWindow(@, n)]
<1>1. s \in Stream
  OBVIOUS
<1>2. CASE UNCHANGED <<streams, flow, in_flight, pending_send, pending_capacity, task>>
             /\ work' = rest
  <2>1. Moves(s, s, flow, flow')
    BY <1>1, <1>2, StillMoves
  <2>2. streams' = [streams EXCEPT ![k] = s]
    BY <1>2
  <2> QED BY <1>2, <2>1, <2>2
<1>3. CASE /\ TryAssign(str, pending_capacity, k) /\ work' = rest
           /\ UNCHANGED <<in_flight, task>>
  <2>1. /\ u \in Stream /\ Like(s, u)
        /\ u.send_flow.available = s.send_flow.available
        /\ u.send_flow.window_size = s.send_flow.window_size + n
    <3>1. IncWindow(s.send_flow, n) \in FlowControl
          /\ IncWindow(s.send_flow, n).available = s.send_flow.available
          /\ IncWindow(s.send_flow, n).window_size = s.send_flow.window_size + n
      BY <1>1, StreamFields DEF IncWindow, FlowControl
    <3>2. u \in Stream /\ u.send_flow = IncWindow(s.send_flow, n)
      BY <1>1, <3>1 DEF Stream
    <3>3. Like(s, u)
      BY <1>1 DEF Like, Stream
    <3> QED BY <3>1, <3>2, <3>3
  <2>2. str = [streams EXCEPT ![k] = u]
    OBVIOUS
  <2> HIDE DEF u, str
  <2>3. str \in [StreamId -> Stream] /\ str[k] = u
    BY <2>1, <2>2
  <2>4. Good(u, sc)
    <3> DEFINE w == s.send_flow.window_size
               a == s.send_flow.available
    <3>1. w \in Int /\ a \in Int
      BY <1>1, StreamFields
    <3> HIDE DEF w, a
    <3>2. a <= AsSize(w) => a <= AsSize(w + n)
      BY <3>1 DEF AsSize
    <3>3. u.send_flow.available <= AsSize(u.send_flow.window_size)
      BY <2>1, <3>2 DEF Good, w, a
    <3> HIDE DEF s
    <3> QED BY <2>1, <3>3 DEF Good, Like, s
  <2>5. /\ pending_send' \in Seq(S) /\ pending_capacity' \in Seq(S)
        /\ \E t : /\ streams' = [str EXCEPT ![k] = t]
                  /\ Good(t, sc) /\ Like(u, t) /\ Moves(u, t, flow, flow')
    BY <1>3, <2>3, <2>4, TryAssigned
  <2>6. PICK t : /\ streams' = [str EXCEPT ![k] = t]
                 /\ Good(t, sc) /\ Like(u, t) /\ Moves(u, t, flow, flow')
    BY <2>5
  <2>7. streams' = [streams EXCEPT ![k] = t]
    BY <2>2, <2>6
  <2>8. Moves(s, t, flow, flow')
    BY <2>1, <2>6 DEF Moves
  <2>9. /\ t.is_counted = s.is_counted /\ t.ref_count = s.ref_count
        /\ t.buffered_send_data = s.buffered_send_data
        /\ t.pending_send = s.pending_send
    BY <2>1, <2>6 DEF Like
  <2>10. Backed(s, k, in_flight, chunk) => Backed(t, k, in_flight', chunk)
    BY <1>3, <2>9 DEF Backed
  <2> QED BY <1>3, <2>5, <2>6, <2>7, <2>8, <2>9, <2>10
<1>4. CASE SendReset(k, s, onError) /\ UNCHANGED pending_capacity
  BY <1>4, ResetSent
<1> QED BY <1>2, <1>3, <1>4 DEF WindowUpdate

\* reserve_capacity.
LEMMA CapacityReserved ==
  ASSUME pending_send \in Seq(store), pending_capacity \in Seq(store),
         NEW k \in StreamId, k \in store, flow \in FlowControl, NEW sc,
         streams \in [StreamId -> Stream], NEW s, Good(s, sc),
         NEW capacity \in Nat, Uses(sc) /\ Unreserved(sc) => capacity = 0,
         Reserve(k, s, capacity)
  PROVE  /\ pending_send' \in Seq(store) /\ pending_capacity' \in Seq(store)
         /\ \/ work' = Tail(work) \/ work' = AssignStep \o Tail(work)
            \/ work' = <<>> \o Tail(work)
         /\ \E t : /\ streams' = [streams EXCEPT ![k] = t]
                   /\ Good(t, sc) /\ Same(s, t) /\ Moves(s, t, flow, flow')
<1> DEFINE n == capacity + s.buffered_send_data
           a == s.send_flow.available
<1>1. s \in Stream
  BY DEF Good
<1>2. a \in Int /\ s.send_flow.window_size \in Int /\ n \in Nat
        /\ s.requested_send_capacity \in Nat /\ s.buffered_send_data \in Nat
  BY <1>1, StreamFields
<1>3. Uses(sc) /\ Unreserved(sc) => n = s.requested_send_capacity
  <2>1. Uses(sc) /\ Unreserved(sc) =>
          s.requested_send_capacity = s.buffered_send_data /\ capacity = 0
    BY DEF Good
  <2> QED BY <1>2, <2>1
<1>4. CASE n < s.requested_send_capacity /\ Lowered(k, s, n)
  <2> DEFINE excess == AsSize(a) - n
             back == IF excess > 0 THEN excess ELSE 0
             t == [s EXCEPT !.requested_send_capacity = n,
                            !.send_flow = ClaimCapacity(@, back)]
  <2>1. /\ streams' = [streams EXCEPT ![k] = t] /\ flow' = AssignCapacity(flow, back)
        /\ work' = (IF back > 0 THEN AssignStep ELSE <<>>) \o Tail(work)
        /\ UNCHANGED <<pending_send, pending_capacity>>
    BY <1>4 DEF Lowered
  <2> HIDE DEF a, n
  <2>2. back \in Nat /\ a - back <= n /\ (0 <= a => 0 <= a - back) /\ a - back <= a
    BY <1>2 DEF AsSize
  <2> HIDE DEF back
  <2>3. /\ t \in Stream /\ Same(s, t) /\ t.requested_send_capacity = n
        /\ t.send_flow.available = a - back
        /\ t.send_flow.window_size = s.send_flow.window_size
    <3>1. /\ ClaimCapacity(s.send_flow, back) \in FlowControl
          /\ ClaimCapacity(s.send_flow, back).available = a - back
          /\ ClaimCapacity(s.send_flow, back).window_size = s.send_flow.window_size
      BY <1>1, <2>2, StreamFields DEF ClaimCapacity, FlowControl, a
    <3>2. t \in Stream /\ t.send_flow = ClaimCapacity(s.send_flow, back)
            /\ t.requested_send_capacity = n
      BY <1>1, <1>2, <3>1 DEF Stream
    <3>3. Same(s, t)
      BY <1>1 DEF Stream, Same
    <3> QED BY <3>1, <3>2, <3>3
  <2> HIDE DEF t
  <2>4. Good(t, sc)
    <3>1. /\ t.send_flow.available <= t.requested_send_capacity
          /\ 0 <= a => 0 <= t.send_flow.available
      BY <2>2, <2>3
    <3>2. t.send_flow.available <= AsSize(t.send_flow.window_size)
      <4>1. a <= AsSize(s.send_flow.window_size)
        BY DEF Good, a
      <4> QED BY <1>2, <2>2, <2>3, <4>1 DEF AsSize
    <3>3. t.buffered_send_data <= t.requested_send_capacity
      BY <1>2, <2>3 DEF Same, n
    <3>4. ~(Uses(sc) /\ Unreserved(sc))
      BY <1>2, <1>3, <1>4
    <3> QED BY <2>3, <3>1, <3>2, <3>3, <3>4 DEF Good, Same, a
  <2>5. Moves(s, t, flow, flow')
    <3>1. flow.available \in Int /\ flow.window_size \in Int
      BY DEF FlowControl
    <3>2. /\ flow' \in FlowControl /\ flow'.window_size = flow.window_size
          /\ flow'.available = flow.available + back
      BY <2>1, <2>2, <3>1 DEF AssignCapacity, FlowControl
    <3>3. /\ t.send_flow.available = a + (-back) /\ -back \in Int
          /\ flow'.available = flow.available - (-back)
          /\ 0 <= flow.available => 0 <= flow'.available
      BY <1>2, <2>2, <2>3, <3>1, <3>2
    <3> QED BY <1>2, <3>2, <3>3, GivenMoves DEF a
  <2>6. work' = AssignStep \o Tail(work) \/ work' = <<>> \o Tail(work)
    BY <2>1
  <2> QED BY <2>1, <2>3, <2>4, <2>5, <2>6
<1>5. CASE /\ n > s.requested_send_capacity
           /\ TryAssign([streams EXCEPT ![k] = [s EXCEPT !.requested_send_capacity = n]],
                        pending_capacity, k)
           /\ work' = Tail(work)
  <2> DEFINE u == [s EXCEPT !.requested_send_capacity = n]
             str == [streams EXCEPT ![k] = u]
  <2> HIDE DEF n
  <2>1. /\ u \in Stream /\ Same(s, u) /\ u.send_flow = s.send_flow
        /\ u.requested_send_capacity = n
    BY <1>1, <1>2 DEF Stream, Same
  <2> HIDE DEF u
  <2>2. Good(u, sc)
    <3>1. /\ a <= s.requested_send_capacity => a <= n
          /\ s.buffered_send_data <= s.requested_send_capacity
               => s.buffered_send_data <= n
      BY <1>2, <1>5
    <3>2. ~(Uses(sc) /\ Unreserved(sc))
      BY <1>2, <1>3, <1>5
    <3> QED BY <2>1, <3>1, <3>2 DEF Good, Same
  <2>3. str \in [StreamId -> Stream] /\ str[k] = u
    BY <2>1
  <2>4. TryAssign(str, pending_capacity, k) /\ work' = Tail(work)
    BY <1>5 DEF u
  <2> HIDE DEF str
  <2>5. /\ pending_send' \in Seq(store) /\ pending_capacity' \in Seq(store)
        /\ \E t : /\ streams' = [str EXCEPT ![k] = t]
                  /\ Good(t, sc) /\ Like(u, t) /\ Moves(u, t, flow, flow')
    BY <2>2, <2>3, <2>4, TryAssigned
  <2>6. PICK t : /\ streams' = [str EXCEPT ![k] = t]
                 /\ Good(t, sc) /\ Like(u, t) /\ Moves(u, t, flow, flow')
    BY <2>5
  <2>7. streams' = [streams EXCEPT ![k] = t]
    BY <2>6 DEF str
  <2>8. Moves(s, t, flow, flow') /\ Same(s, t)
    BY <2>1, <2>6 DEF Moves, Like, Same
  <2> QED BY <2>4, <2>5, <2>6, <2>7, <2>8
<1>6. CASE /\ streams' = [streams EXCEPT ![k] = s] /\ work' = Tail(work)
           /\ UNCHANGED <<flow, pending_send, pending_capacity>>
  <2>1. Moves(s, s, flow, flow') /\ Same(s, s)
    BY <1>1, <1>6, StillMoves DEF Same
  <2> QED BY <1>6, <2>1
<1>7. \/ n < s.requested_send_capacity /\ Lowered(k, s, n)
      \/ /\ n > s.requested_send_capacity
         /\ TryAssign([streams EXCEPT ![k] = [s EXCEPT !.requested_send_capacity = n]],
                      pending_capacity, k)
         /\ work' = Tail(work)
      \/ /\ streams' = [streams EXCEPT ![k] = s] /\ work' = Tail(work)
         /\ UNCHANGED <<flow, pending_send, pending_capacity>>
  BY DEF Reserve
<1> QED BY <1>4, <1>5, <1>6, <1>7, Zenon

-----------------------------------------------------------------------------
(* The inductive invariant.                                                  *)

\* Every record is in order.
Records(str, sc) ==
  str \in [StreamId -> Stream] /\ \A k \in StreamId : Good(str[k], sc)

\* A stream outside the slab has nothing left; one inside, whose handles are
\* not dropped, is still held.
Absent(str, st, sc) ==
  /\ \A k \in StreamId \ st :
       /\ str[k].buffered_send_data = 0 /\ str[k].pending_send = <<>>
       /\ Unreserved(sc) => str[k].send_flow.available = 0
  /\ ~Uses(sc) => \A k \in st : str[k].ref_count = 1

\* No more streams are counted than num_send_streams says.
Marked(str) == {k \in StreamId : str[k].is_counted}
Counted(str, n) == n \in Int /\ Cardinality(Marked(str)) <= n

\* CapacityAddsUp, over every stream there is or was.
Balance(str, fl, sc) ==
  LET held == [k \in StreamId |-> str[k].send_flow.available]
  IN Unreserved(sc) =>
       /\ 0 <= fl.available
       /\ fl.available + SumOf(held, StreamId) = fl.window_size

Core(str, st, fl, n, sc) ==
  /\ Records(str, sc) /\ Absent(str, st, sc) /\ Counted(str, n)
  /\ fl \in FlowControl /\ Balance(str, fl, sc)

\* BufferedIsQueued, of any streams.
Buffered(str, w, fl, ch) ==
  \A k \in StreamId :
    str[k].buffered_send_data
      = Total(str[k].pending_send) + Queueing(w, k) + Flight(fl, ch, k)

Ranges ==
  /\ scope \in Scopes
  /\ init_window_sz \in InitWindows /\ max_send_streams \in SendLimits
  /\ next_stream_id \in 1 .. MaxId + 1
  /\ in_flight \in 0 .. Dropped /\ chunk \in [size : Nat, eos : BOOLEAN]
  /\ task \in BOOLEAN /\ conn_error \in BOOLEAN
  /\ todo \subseteq StreamId

\* The queues hold streams of the slab, and no stream is ahead of the counter.
Slab ==
  /\ store \subseteq StreamId /\ ids \subseteq store
  /\ pending_send \in Seq(store) /\ pending_capacity \in Seq(store)
  /\ pending_open \in Seq(store)
  /\ \A k \in store \cup Remote : k < next_stream_id

\* The loop that raises windows visits known streams; a frame is popped when
\* the codec holds none.
Loops ==
  /\ \A i \in 1 .. Len(work) : work[i].do = "grow" => todo \subseteq ids
  /\ conn = "send" => in_flight = 0

SInv ==
  /\ Ranges /\ Slab /\ Loops
  /\ Core(streams, store, flow, num_send_streams, scope)
  /\ WorkOK(work, streams, store, scope)
  /\ Buffered(streams, work, in_flight, chunk)

\* The streams are numbered from 1.
LEMMA StreamIds ==
  /\ MaxId \in Nat /\ IsFiniteSet(StreamId) /\ StreamId \subseteq Nat
  /\ 0 \notin StreamId /\ Dropped \notin StreamId
<1>1. MaxId \in Nat
  BY SendAssumption
<1>2. IsFiniteSet(StreamId)
  BY <1>1, FS_Interval DEF StreamId
<1> QED BY <1>1, <1>2 DEF StreamId, Dropped

\* A sum moves by b - a, and what it adds up with moves the other way.
LEMMA SumShifts ==
  ASSUME NEW a \in Int, NEW b \in Int, NEW x \in Int, NEW y \in Int,
         NEW p \in Int, NEW q \in Int, NEW u \in Int, NEW v \in Int,
         y = x + (b - a), p + b - q = u + a - v, u + x = v
  PROVE  p + y = q
OBVIOUS

\* One stream changes, and with it the window of the connection.
LEMMA BalanceMoves ==
  ASSUME NEW str, NEW sc, Records(str, sc), NEW fl \in FlowControl,
         Balance(str, fl, sc),
         NEW k \in StreamId, NEW t, Good(t, sc), NEW fl2, Moves(str[k], t, fl, fl2)
  PROVE  Balance([str EXCEPT ![k] = t], fl2, sc)
<1> DEFINE str2 == [str EXCEPT ![k] = t]
           f == [j \in StreamId |-> str[j].send_flow.available]
           g == [j \in StreamId |-> str2[j].send_flow.available]
<1>1. SUFFICES ASSUME Unreserved(sc)
               PROVE  0 <= fl2.available /\ fl2.available + SumOf(g, StreamId) = fl2.window_size
  BY DEF Balance
<1>2. 0 <= fl.available /\ fl.available + SumOf(f, StreamId) = fl.window_size
  BY <1>1 DEF Balance
<1>3. str \in [StreamId -> Stream] /\ t \in Stream
  BY DEF Records, Good
<1>4. /\ \A j \in StreamId : str[j].send_flow.available \in Int
      /\ t.send_flow.available \in Int
  BY <1>3, StreamFields
<1>5. str2[k] = t /\ \A j \in StreamId : j # k => str2[j] = str[j]
  BY <1>3
<1> HIDE DEF str2
<1>6. f \in [StreamId -> Int] /\ g \in [StreamId -> Int]
  BY <1>4, <1>5
<1>7. /\ f[k] = str[k].send_flow.available /\ g[k] = t.send_flow.available
      /\ \A j \in StreamId : j # k => g[j] = f[j]
  BY <1>5
<1> HIDE DEF f, g
<1>8. /\ SumOf(f, StreamId) \in Int /\ SumOf(g, StreamId) \in Int
      /\ SumOf(g, StreamId) = SumOf(f, StreamId) + (g[k] - f[k])
  <2>1. IsFiniteSet(StreamId) /\ \A j \in StreamId : j # k => g[j] = f[j]
    BY <1>7, StreamIds
  <2> QED BY <1>6, <2>1, SumMoves, Zenon
<1> DEFINE a == f[k]
           b == g[k]
           x == SumOf(f, StreamId)
           y == SumOf(g, StreamId)
<1>9. a \in Int /\ b \in Int /\ x \in Int /\ y \in Int /\ y = x + (b - a)
  BY <1>6, <1>8
<1>10. /\ fl2.available \in Int /\ fl2.window_size \in Int
       /\ fl.available \in Int /\ fl.window_size \in Int
       /\ 0 <= fl2.available
       /\ fl2.available + b - fl2.window_size = fl.available + a - fl.window_size
  BY <1>2, <1>7 DEF Moves, FlowControl
<1>11. fl.available + x = fl.window_size
  BY <1>2
<1>12. fl2.available + y = fl2.window_size
  <2> DEFINE p == fl2.available
             q == fl2.window_size
             u == fl.available
             v == fl.window_size
  <2>1. p \in Int /\ q \in Int /\ u \in Int /\ v \in Int
    BY <1>10
  <2>2. p + b - q = u + a - v /\ u + x = v
    BY <1>10, <1>11
  <2> HIDE DEF a, b, x, y, p, q, u, v
  <2>3. p + y = q
    BY <1>9, <2>1, <2>2, SumShifts
  <2> QED BY <2>3 DEF p, q
<1> QED BY <1>10, <1>12 DEF y

\* One stream is counted or no longer counted.
LEMMA CountMoves ==
  ASSUME NEW str \in [StreamId -> Stream], NEW n, Counted(str, n),
         NEW k \in StreamId, NEW t \in Stream, NEW m \in Int,
         n + (IF t.is_counted THEN 1 ELSE 0) <= m + (IF str[k].is_counted THEN 1 ELSE 0)
  PROVE  Counted([str EXCEPT ![k] = t], m)
<1> DEFINE str2 == [str EXCEPT ![k] = t]
           A == Marked(str)
           B == Marked(str2)
<1>1. str2[k] = t /\ \A j \in StreamId : j # k => str2[j] = str[j]
  OBVIOUS
<1>2. A \subseteq StreamId /\ B \subseteq StreamId
  BY DEF Marked
<1>3. IsFiniteSet(A) /\ IsFiniteSet(B)
  BY <1>2, StreamIds, FS_Subset
<1>4. Cardinality(A) \in Nat /\ Cardinality(B) \in Nat
  BY <1>3, FS_CardinalityType
<1>5. n \in Int /\ Cardinality(A) <= n
  BY DEF Counted
<1>6. (k \in A <=> str[k].is_counted) /\ (k \in B <=> t.is_counted)
  BY <1>1 DEF Marked
<1>7. \A j : j # k => (j \in A <=> j \in B)
  BY <1>1 DEF Marked
<1> HIDE DEF A, B
<1>8. Cardinality(B) + (IF k \in A THEN 1 ELSE 0) = Cardinality(A) + (IF k \in B THEN 1 ELSE 0)
  <2>1. CASE k \in A /\ k \notin B
    <3>1. B = A \ {k}
      BY <1>7, <2>1
    <3>2. Cardinality(B) = Cardinality(A) - 1
      BY <1>3, <2>1, <3>1, FS_RemoveElement
    <3> QED BY <1>4, <2>1, <3>2
  <2>2. CASE k \notin A /\ k \in B
    <3>1. B = A \cup {k}
      BY <1>7, <2>2
    <3>2. Cardinality(B) = Cardinality(A) + 1
      BY <1>3, <2>2, <3>1, FS_AddElement
    <3> QED BY <1>4, <2>2, <3>2
  <2>3. CASE (k \in A) <=> (k \in B)
    <3>1. A = B
      BY <1>7, <2>3
    <3> QED BY <1>4, <3>1
  <2> QED BY <2>1, <2>2, <2>3
<1>9. Cardinality(B) <= m
  BY <1>4, <1>5, <1>6, <1>8
<1>10. Counted(str2, m)
  BY <1>9 DEF Counted, B
<1> QED BY <1>10

\* A number of streams is not negative.
LEMMA CountIsNat ==
  ASSUME NEW str, NEW n, Counted(str, n)
  PROVE  n \in Nat
<1>1. Marked(str) \subseteq StreamId
  BY DEF Marked
<1>2. Cardinality(Marked(str)) \in Nat
  BY <1>1, StreamIds, FS_Subset, FS_CardinalityType
<1> QED BY <1>2 DEF Counted

\* One stream changes: what that needs of it.
LEMMA CoreMoves ==
  ASSUME NEW str, NEW st, NEW fl, NEW n, NEW sc, Core(str, st, fl, n, sc),
         NEW k \in StreamId, NEW t, Good(t, sc), NEW fl2 \in FlowControl,
         Unreserved(sc) => Moves(str[k], t, fl, fl2),
         NEW st2, \A j \in StreamId : j # k => (j \in st2 <=> j \in st),
         k \notin st2 => /\ t.buffered_send_data = 0 /\ t.pending_send = <<>>
                         /\ Unreserved(sc) => t.send_flow.available = 0,
         st2 \subseteq StreamId,
         k \in st2 /\ ~Uses(sc) => t.ref_count = 1,
         NEW m \in Int,
         n + (IF t.is_counted THEN 1 ELSE 0) <= m + (IF str[k].is_counted THEN 1 ELSE 0)
  PROVE  Core([str EXCEPT ![k] = t], st2, fl2, m, sc)
<1> DEFINE str2 == [str EXCEPT ![k] = t]
<1>1. str \in [StreamId -> Stream] /\ t \in Stream
  BY DEF Core, Records, Good
<1>2. str2[k] = t /\ \A j \in StreamId : j # k => str2[j] = str[j]
  BY <1>1
<1>3. str2 \in [StreamId -> Stream]
  BY <1>1
<1>4. Balance(str2, fl2, sc)
  <2>1. CASE Unreserved(sc)
    BY <2>1, BalanceMoves DEF Core
  <2>2. CASE ~Unreserved(sc)
    BY <2>2 DEF Balance
  <2> QED BY <2>1, <2>2
<1>5. Counted(str2, m)
  BY <1>1, CountMoves DEF Core
<1> HIDE DEF str2
<1>6. Records(str2, sc)
  <2>1. \A j \in StreamId : Good(str[j], sc)
    BY DEF Core, Records
  <2>2. \A j \in StreamId : Good(str2[j], sc)
    BY <1>2, <2>1, Zenon
  <2> QED BY <1>3, <2>2 DEF Records
<1>7. Absent(str2, st2, sc)
  <2>1. ASSUME NEW j \in StreamId \ st2
        PROVE  /\ str2[j].buffered_send_data = 0 /\ str2[j].pending_send = <<>>
               /\ Unreserved(sc) => str2[j].send_flow.available = 0
    <3>1. CASE j = k
      BY <1>2, <2>1, <3>1
    <3>2. CASE j # k
      <4>1. j \in StreamId \ st /\ str2[j] = str[j]
        BY <1>2, <3>2
      <4> QED BY <4>1, Zenon DEF Core, Absent
    <3> QED BY <3>1, <3>2
  <2>2. ASSUME ~Uses(sc), NEW j \in st2
        PROVE  str2[j].ref_count = 1
    <3>1. CASE j = k
      BY <1>2, <2>2, <3>1
    <3>2. CASE j # k
      <4>1. j \in StreamId /\ j \in st /\ str2[j] = str[j]
        BY <1>2, <3>2
      <4> QED BY <2>2, <4>1, Zenon DEF Core, Absent
    <3> QED BY <3>1, <3>2
  <2> QED BY <2>1, <2>2 DEF Absent
<1>8. Core(str2, st2, fl2, m, sc)
  BY <1>1, <1>4, <1>5, <1>6, <1>7 DEF Core
<1> QED BY <1>8 DEF str2

\* The usual case: the slab stays, and so does what is counted.
LEMMA CoreKeeps ==
  ASSUME SInv, NEW k \in StreamId, NEW t, Good(t, scope),
         NEW fl2, Moves(streams[k], t, flow, fl2),
         t.is_counted = streams[k].is_counted, t.ref_count = streams[k].ref_count,
         k \notin store => /\ t.buffered_send_data = 0 /\ t.pending_send = <<>>
                           /\ Unreserved(scope) => t.send_flow.available = 0
  PROVE  Core([streams EXCEPT ![k] = t], store, fl2, num_send_streams, scope)
<1>1. Core(streams, store, flow, num_send_streams, scope) /\ store \subseteq StreamId
  BY DEF SInv, Slab
<1>2. num_send_streams \in Int
  BY <1>1 DEF Core, Counted
<1>3. k \in store /\ ~Uses(scope) => t.ref_count = 1
  BY <1>1 DEF Core, Absent
<1>4. num_send_streams + (IF t.is_counted THEN 1 ELSE 0)
        <= num_send_streams + (IF streams[k].is_counted THEN 1 ELSE 0)
  BY <1>2
<1>5. fl2 \in FlowControl
  BY DEF Moves
<1>6. \A j \in StreamId : j # k => (j \in store <=> j \in store)
  OBVIOUS
<1> QED BY <1>1, <1>2, <1>3, <1>4, <1>5, <1>6, CoreMoves

\* Only the record of k changes, and it becomes t.
Swaps(str, str2, k, t) ==
  str2[k] = t /\ \A j \in StreamId : j # k => str2[j] = str[j]

\* The frames that the other streams have elsewhere stay there.
Elsewhere(k, w, fl, ch, w2, fl2, ch2) ==
  \A j \in StreamId : j # k => /\ Queueing(w2, j) = Queueing(w, j)
                               /\ Flight(fl2, ch2, j) = Flight(fl, ch, j)

\* Of one stream that changes, what it counts as buffered is shown anew.
LEMMA BufferedMoves ==
  ASSUME NEW str, NEW w, NEW fl, NEW ch, Buffered(str, w, fl, ch),
         NEW k \in StreamId, NEW t, NEW w2, NEW fl2, NEW ch2,
         Elsewhere(k, w, fl, ch, w2, fl2, ch2),
         t.buffered_send_data
           = Total(t.pending_send) + Queueing(w2, k) + Flight(fl2, ch2, k),
         NEW str2, Swaps(str, str2, k, t)
  PROVE  Buffered(str2, w2, fl2, ch2)
<1>1. str2[k] = t /\ \A j \in StreamId : j # k => str2[j] = str[j]
  BY DEF Swaps
<1>2. ASSUME NEW j \in StreamId
      PROVE  str2[j].buffered_send_data
               = Total(str2[j].pending_send) + Queueing(w2, j) + Flight(fl2, ch2, j)
  <2>1. CASE j = k
    BY <1>1, <2>1
  <2>2. CASE j # k
    <3>1. str2[j] = str[j]
      BY <1>1, <2>2
    <3>2. Queueing(w2, j) = Queueing(w, j) /\ Flight(fl2, ch2, j) = Flight(fl, ch, j)
      BY <2>2 DEF Elsewhere
    <3>3. str[j].buffered_send_data
            = Total(str[j].pending_send) + Queueing(w, j) + Flight(fl, ch, j)
      BY DEF Buffered
    <3> QED BY <3>1, <3>2, <3>3, Zenon
  <2> QED BY <2>1, <2>2
<1> QED BY <1>2 DEF Buffered

-----------------------------------------------------------------------------
(* The steps that the actions leave.                                         *)

Free(w, dos) == \A i \in 1 .. Len(w) : w[i].do \notin dos

\* Steps that queue nothing, and do not raise windows.
Calm(w, str, st, sc) ==
  /\ WorkOK(w, str, st, sc) /\ Free(w, {"grow"})
  /\ \A k : Queueing(w, k) = 0

\* The fields of a step.
LEMMA StepType ==
  ASSUME NEW do \in Names, NEW k \in 0 .. MaxId, NEW arg \in Int, NEW f \in Sent
  PROVE  /\ Step(do, k, arg, f) \in Steps
         /\ Step(do, k, arg, f).do = do /\ Step(do, k, arg, f).k = k
         /\ Step(do, k, arg, f).arg = arg /\ Step(do, k, arg, f).frame = f
BY DEF Step, Steps

\* A step in front that is of none of the kinds.
LEMMA FreeInFront ==
  ASSUME NEW x \in Steps, NEW r \in Seq(Steps), NEW dos, Free(r, dos), x.do \notin dos
  PROVE  Free(<<x>> \o r, dos)
<1> DEFINE w == <<x>> \o r
<1>1. /\ Len(r) \in Nat /\ Len(w) = Len(r) + 1
      /\ \A i \in 1 .. Len(r) + 1 : w[i] = IF i = 1 THEN x ELSE r[i - 1]
  BY InFront
<1> HIDE DEF w
<1>2. ASSUME NEW i \in 1 .. Len(w)
      PROVE  w[i].do \notin dos
  <2>1. CASE i = 1
    BY <1>1, <2>1
  <2>2. CASE i # 1
    <3>1. i - 1 \in 1 .. Len(r) /\ w[i] = r[i - 1]
      BY <1>1, <2>2
    <3> QED BY <3>1 DEF Free
  <2> QED BY <2>1, <2>2
<1>3. Free(w, dos)
  BY <1>2 DEF Free
<1> QED BY <1>3 DEF w

\* No steps.
LEMMA CalmNone ==
  ASSUME NEW str, NEW st, NEW sc
  PROVE  Calm(<<>>, str, st, sc)
<1>1. Free(<<>>, {"grow"})
  BY DEF Free
<1> QED BY <1>1, NoWork, QueueingNone DEF Calm

\* A step in front.
LEMMA CalmInFront ==
  ASSUME NEW str, NEW st, NEW sc, NEW r, Calm(r, str, st, sc),
         NEW x \in Steps, Sound(x, str, st, sc), LeadsAll(x, r, str),
         x.do # "grow", x.do # "queue"
  PROVE  Calm(<<x>> \o r, str, st, sc)
<1>1. WorkOK(r, str, st, sc) /\ r \in Seq(Steps)
  BY DEF Calm, WorkOK
<1>2. WorkOK(<<x>> \o r, str, st, sc)
  BY <1>1, WorkInFront
<1>3. Free(<<x>> \o r, {"grow"})
  BY <1>1, FreeInFront DEF Calm
<1>4. ASSUME NEW k
      PROVE  Queueing(<<x>> \o r, k) = 0
  <2>1. ~Queues(x, k)
    BY DEF Queues
  <2>2. Queueing(<<x>> \o r, k) = Queueing(r, k)
    BY <1>1, <1>2, <2>1, QueueingInFront
  <2> QED BY <2>2 DEF Calm
<1> QED BY <1>2, <1>3, <1>4 DEF Calm

\* One step.
LEMMA CalmOne ==
  ASSUME NEW str, NEW st, NEW sc, NEW x \in Steps, Sound(x, str, st, sc),
         x.do # "grow", x.do # "queue"
  PROVE  Calm(<<x>>, str, st, sc)
<1>1. LeadsAll(x, <<>>, str)
  BY DEF LeadsAll
<1>2. Calm(<<x>> \o <<>>, str, st, sc)
  BY <1>1, CalmNone, CalmInFront
<1>3. <<x>> \o <<>> = <<x>>
  OBVIOUS
<1> QED BY <1>2, <1>3

\* Two steps.
LEMMA CalmTwo ==
  ASSUME NEW str, NEW st, NEW sc, NEW x \in Steps, Sound(x, str, st, sc),
         x.do # "grow", x.do # "queue",
         NEW y \in Steps, Sound(y, str, st, sc), y.do # "grow", y.do # "queue",
         y.do # "schedule"
  PROVE  Calm(<<x>> \o <<y>>, str, st, sc)
<1>1. Leads(x, y, str)
  BY DEF Leads
<1>2. LeadsAll(x, <<y>>, str)
  BY <1>1 DEF LeadsAll
<1>3. Calm(<<y>>, str, st, sc)
  BY CalmOne
<1> QED BY <1>2, <1>3, CalmInFront

\* What the steps need of the state.
LEMMA StepsAreSound ==
  ASSUME NEW str, NEW st, NEW sc
  PROVE  /\ Sound(AssignStep[1], str, st, sc) /\ AssignStep[1] \in Steps
         /\ Sound(ClearStep[1], str, st, sc) /\ ClearStep[1] \in Steps
         /\ Sound(FailStep[1], str, st, sc) /\ FailStep[1] \in Steps
         /\ \A n \in Int : Sound(AbortStep(n)[1], str, st, sc) /\ AbortStep(n)[1] \in Steps
         /\ \A k \in StreamId :
              /\ Sound(AfterStep(k)[1], str, st, sc) /\ AfterStep(k)[1] \in Steps
              /\ Sound(ExpireStep(k)[1], str, st, sc) /\ ExpireStep(k)[1] \in Steps
<1>1. /\ ResetFrame \in Sent /\ 0 \in 0 .. MaxId /\ 0 \in Int
      /\ \A k \in StreamId : k \in 0 .. MaxId
  BY ResetFrameSent, SendAssumption DEF StreamId
<1>2. /\ "assign" \in Names /\ "clear" \in Names /\ "fail" \in Names
      /\ "abort" \in Names /\ "after" \in Names /\ "expire" \in Names
  BY DEF Names
<1>3. AssignStep[1] \in Steps /\ AssignStep[1].do = "assign"
  BY <1>1, <1>2, StepType DEF AssignStep
<1>4. ClearStep[1] \in Steps /\ ClearStep[1].do = "clear"
  BY <1>1, <1>2, StepType DEF ClearStep
<1>5. FailStep[1] \in Steps /\ FailStep[1].do = "fail"
  BY <1>1, <1>2, StepType DEF FailStep
<1>6. ASSUME NEW n \in Int
      PROVE  AbortStep(n)[1] \in Steps /\ AbortStep(n)[1].do = "abort"
  BY <1>1, <1>2, StepType DEF AbortStep
<1>7. ASSUME NEW k \in StreamId
      PROVE  /\ AfterStep(k)[1] \in Steps /\ AfterStep(k)[1].do = "after"
             /\ AfterStep(k)[1].k = k
             /\ ExpireStep(k)[1] \in Steps /\ ExpireStep(k)[1].do = "expire"
             /\ ExpireStep(k)[1].k = k
  BY <1>1, <1>2, StepType DEF AfterStep, ExpireStep
<1>8. ASSUME NEW x, x.do \in {"assign", "clear", "fail", "abort"}
      PROVE  Sound(x, str, st, sc)
  BY <1>8 DEF Sound
<1>9. ASSUME NEW x, x.do \in {"after", "expire"}, x.k \in StreamId
      PROVE  Sound(x, str, st, sc)
  BY <1>9 DEF Sound
<1>10. /\ Sound(AssignStep[1], str, st, sc) /\ Sound(ClearStep[1], str, st, sc)
       /\ Sound(FailStep[1], str, st, sc)
  BY <1>3, <1>4, <1>5, <1>8
<1>11. \A n \in Int : Sound(AbortStep(n)[1], str, st, sc)
  BY <1>6, <1>8
<1>12. \A k \in StreamId : Sound(AfterStep(k)[1], str, st, sc)
                             /\ Sound(ExpireStep(k)[1], str, st, sc)
  BY <1>7, <1>9
<1> QED BY <1>3, <1>4, <1>5, <1>6, <1>7, <1>10, <1>11, <1>12

\* What the constants of steps are.
LEMMA StepFacts ==
  /\ AssignStep = <<AssignStep[1]>> /\ AssignStep[1].do = "assign"
  /\ ClearStep = <<ClearStep[1]>> /\ ClearStep[1].do = "clear"
  /\ FailStep = <<FailStep[1]>> /\ FailStep[1].do = "fail"
  /\ \A n : AbortStep(n) = <<AbortStep(n)[1]>> /\ AbortStep(n)[1].do = "abort"
  /\ \A k : /\ AfterStep(k) = <<AfterStep(k)[1]>> /\ AfterStep(k)[1].do = "after"
            /\ AfterStep(k)[1].k = k
            /\ ExpireStep(k) = <<ExpireStep(k)[1]>> /\ ExpireStep(k)[1].do = "expire"
            /\ ExpireStep(k)[1].k = k
BY DEF AssignStep, ClearStep, FailStep, AbortStep, AfterStep, ExpireStep, Step

\* The calls that queue nothing.
LEMMA CalmSteps ==
  ASSUME NEW str, NEW st, NEW sc
  PROVE  /\ Calm(AssignStep, str, st, sc) /\ Calm(FailStep, str, st, sc)
         /\ Calm(AssignStep \o FailStep, str, st, sc)
         /\ \A n \in Int : /\ Calm(AbortStep(n), str, st, sc)
                           /\ Calm(AbortStep(n) \o ClearStep, str, st, sc)
         /\ \A k \in StreamId : /\ Calm(AfterStep(k), str, st, sc)
                                /\ Calm(ExpireStep(k), str, st, sc)
                                /\ Calm(AssignStep \o AfterStep(k), str, st, sc)
                                /\ Calm(AssignStep \o ExpireStep(k), str, st, sc)
<1>1. Calm(<<AssignStep[1]>>, str, st, sc) /\ Calm(<<FailStep[1]>>, str, st, sc)
  BY StepFacts, StepsAreSound, CalmOne
<1>2. Calm(<<AssignStep[1]>> \o <<FailStep[1]>>, str, st, sc)
  BY StepFacts, StepsAreSound, CalmTwo
<1>3. ASSUME NEW n \in Int
      PROVE  /\ Calm(<<AbortStep(n)[1]>>, str, st, sc)
             /\ Calm(<<AbortStep(n)[1]>> \o <<ClearStep[1]>>, str, st, sc)
  <2> DEFINE x == AbortStep(n)[1]
  <2>1. x \in Steps /\ Sound(x, str, st, sc) /\ x.do = "abort"
    BY StepFacts, StepsAreSound
  <2> HIDE DEF x
  <2>2. Calm(<<x>>, str, st, sc)
    BY <2>1, CalmOne
  <2>3. Calm(<<x>> \o <<ClearStep[1]>>, str, st, sc)
    BY <2>1, StepFacts, StepsAreSound, CalmTwo
  <2> QED BY <2>2, <2>3 DEF x
<1>4. ASSUME NEW k \in StreamId
      PROVE  /\ Calm(<<AfterStep(k)[1]>>, str, st, sc)
             /\ Calm(<<ExpireStep(k)[1]>>, str, st, sc)
             /\ Calm(<<AssignStep[1]>> \o <<AfterStep(k)[1]>>, str, st, sc)
             /\ Calm(<<AssignStep[1]>> \o <<ExpireStep(k)[1]>>, str, st, sc)
  <2> DEFINE x == AfterStep(k)[1]
             y == ExpireStep(k)[1]
             z == AssignStep[1]
  <2>1. /\ x \in Steps /\ Sound(x, str, st, sc) /\ x.do = "after"
        /\ y \in Steps /\ Sound(y, str, st, sc) /\ y.do = "expire"
        /\ z \in Steps /\ Sound(z, str, st, sc) /\ z.do = "assign"
    BY StepFacts, StepsAreSound
  <2> HIDE DEF x, y, z
  <2>2. Calm(<<x>>, str, st, sc) /\ Calm(<<y>>, str, st, sc)
    BY <2>1, CalmOne
  <2>3. Calm(<<z>> \o <<x>>, str, st, sc)
    BY <2>1, CalmTwo
  <2>4. Calm(<<z>> \o <<y>>, str, st, sc)
    BY <2>1, CalmTwo
  <2> QED BY <2>2, <2>3, <2>4 DEF x, y, z
<1>5. Calm(AssignStep, str, st, sc) /\ Calm(FailStep, str, st, sc)
        /\ Calm(AssignStep \o FailStep, str, st, sc)
  BY <1>1, <1>2, StepFacts, Zenon
<1>6. ASSUME NEW n \in Int
      PROVE  Calm(AbortStep(n), str, st, sc) /\ Calm(AbortStep(n) \o ClearStep, str, st, sc)
  <2>1. AbortStep(n) = <<AbortStep(n)[1]>> /\ ClearStep = <<ClearStep[1]>>
    BY StepFacts
  <2> QED BY <1>3, <2>1, Zenon
<1>7. ASSUME NEW k \in StreamId
      PROVE  /\ Calm(AfterStep(k), str, st, sc) /\ Calm(ExpireStep(k), str, st, sc)
             /\ Calm(AssignStep \o AfterStep(k), str, st, sc)
             /\ Calm(AssignStep \o ExpireStep(k), str, st, sc)
  <2>1. /\ AfterStep(k) = <<AfterStep(k)[1]>> /\ ExpireStep(k) = <<ExpireStep(k)[1]>>
        /\ AssignStep = <<AssignStep[1]>>
    BY StepFacts
  <2> QED BY <1>4, <2>1, Zenon
<1> QED BY <1>5, <1>6, <1>7

\* Nothing in front.
LEMMA CalmAlone ==
  ASSUME NEW str, NEW st, NEW sc, NEW w, Calm(w, str, st, sc)
  PROVE  <<>> \o w = w
BY ConcatEmptySeq DEF Calm, WorkOK

\* A reservation.
LEMMA CalmReserves ==
  ASSUME NEW str, NEW st, NEW sc, NEW k \in StreamId, k \in st,
         str[k].ref_count > 0, NEW n \in Nat, Uses(sc) /\ Unreserved(sc) => n = 0
  PROVE  /\ Calm(ReserveStep(k, n), str, st, sc)
         /\ Calm(ReserveStep(k, n) \o AfterStep(k), str, st, sc)
<1> DEFINE x == Step("reserve", k, n, ResetFrame)
<1>1. "reserve" \in Names /\ k \in 0 .. MaxId /\ n \in Int /\ ResetFrame \in Sent
  BY ResetFrameSent, SendAssumption DEF Names, StreamId
<1>2. x \in Steps /\ x.do = "reserve" /\ x.k = k /\ x.arg = n
  BY <1>1, StepType
<1> HIDE DEF x
<1>3. Sound(x, str, st, sc)
  BY <1>2 DEF Sound
<1>4. Calm(<<x>>, str, st, sc)
  BY <1>2, <1>3, CalmOne
<1> DEFINE y == AfterStep(k)[1]
<1>5. y \in Steps /\ Sound(y, str, st, sc) /\ y.do = "after" /\ AfterStep(k) = <<y>>
  BY StepFacts, StepsAreSound
<1> HIDE DEF y
<1>6. Calm(<<x>> \o <<y>>, str, st, sc)
  BY <1>2, <1>3, <1>5, CalmTwo
<1> QED BY <1>4, <1>5, <1>6 DEF x, ReserveStep

\* The steps of a handle that is dropped.
LEMMA CalmDrops ==
  ASSUME NEW str, NEW st, NEW sc, NEW k \in StreamId, k \in st
  PROVE  /\ Calm((AssignStep \o ScheduleStep(k)) \o ExpireStep(k), str, st, sc)
         /\ Calm((<<>> \o ScheduleStep(k)) \o ExpireStep(k), str, st, sc)
<1> DEFINE x == Step("schedule", k, 0, ResetFrame)
           y == ExpireStep(k)[1]
           z == AssignStep[1]
<1>1. "schedule" \in Names /\ k \in 0 .. MaxId /\ 0 \in Int /\ ResetFrame \in Sent
  BY ResetFrameSent, SendAssumption DEF Names, StreamId
<1>2. x \in Steps /\ x.do = "schedule" /\ x.k = k
  BY <1>1, StepType
<1>3. /\ y \in Steps /\ Sound(y, str, st, sc) /\ y.do = "expire" /\ ExpireStep(k) = <<y>>
      /\ z \in Steps /\ Sound(z, str, st, sc) /\ z.do = "assign" /\ AssignStep = <<z>>
  BY StepFacts, StepsAreSound
<1> HIDE DEF x, y, z
<1>4. Sound(x, str, st, sc)
  BY <1>2 DEF Sound
<1> DEFINE r == <<x>> \o <<y>>
<1>5. Calm(r, str, st, sc)
  BY <1>2, <1>3, <1>4, CalmTwo
<1>6. Len(r) = 2 /\ r[1] = x /\ r[2] = y
  OBVIOUS
<1>7. LeadsAll(z, r, str)
  <2>1. Leads(z, x, str) /\ Leads(z, y, str)
    BY <1>2, <1>3 DEF Leads
  <2>2. \A i \in 1 .. Len(r) : i = 1 \/ i = 2
    BY <1>6
  <2> HIDE DEF r
  <2> QED BY <1>6, <2>1, <2>2 DEF LeadsAll
<1>8. Calm(<<z>> \o r, str, st, sc)
  <2> HIDE DEF r
  <2> QED BY <1>3, <1>5, <1>7, CalmInFront
<1>9. /\ <<x>> \in Seq(Steps) /\ <<y>> \in Seq(Steps) /\ <<z>> \in Seq(Steps)
  BY <1>2, <1>3
<1>10. (<<z>> \o <<x>>) \o <<y>> = <<z>> \o r
  BY <1>9, ConcatAssociative
<1>11. (<<>> \o <<x>>) \o <<y>> = r
  BY <1>9, ConcatEmptySeq
<1>12. ScheduleStep(k) = <<x>>
  BY DEF ScheduleStep, x
<1> HIDE DEF r
<1> QED BY <1>3, <1>5, <1>8, <1>10, <1>11, <1>12, Zenon

-----------------------------------------------------------------------------
(* A step in front of what is left of a call.                                *)

\* w does first what does not queue, then r.
Follows(w, r, str, st, sc) ==
  /\ WorkOK(w, str, st, sc) /\ Free(w, {"grow"})
  /\ \A k : Queueing(w, k) = Queueing(r, k)

\* A step in front.
LEMMA FollowsInFront ==
  ASSUME NEW str, NEW st, NEW sc, NEW r, NEW v, Follows(r, v, str, st, sc),
         NEW x \in Steps, Sound(x, str, st, sc), LeadsAll(x, r, str),
         x.do # "grow", x.do # "queue"
  PROVE  Follows(<<x>> \o r, v, str, st, sc)
<1>1. WorkOK(r, str, st, sc) /\ r \in Seq(Steps)
  BY DEF Follows, WorkOK
<1>2. WorkOK(<<x>> \o r, str, st, sc)
  BY <1>1, WorkInFront
<1>3. Free(<<x>> \o r, {"grow"})
  BY <1>1, FreeInFront DEF Follows
<1>4. ASSUME NEW k
      PROVE  Queueing(<<x>> \o r, k) = Queueing(v, k)
  <2>1. ~Queues(x, k)
    BY DEF Queues
  <2>2. Queueing(<<x>> \o r, k) = Queueing(r, k)
    BY <1>1, <1>2, <2>1, QueueingInFront
  <2> QED BY <2>2 DEF Follows
<1> QED BY <1>2, <1>3, <1>4 DEF Follows

\* assign_connection_capacity comes first.
LEMMA AssignInFront ==
  ASSUME NEW str, NEW st, NEW sc, NEW r, NEW v, Follows(r, v, str, st, sc)
  PROVE  Follows(AssignStep \o r, v, str, st, sc) /\ Follows(<<>> \o r, v, str, st, sc)
<1> DEFINE z == AssignStep[1]
<1>1. z \in Steps /\ Sound(z, str, st, sc) /\ z.do = "assign" /\ AssignStep = <<z>>
  BY StepFacts, StepsAreSound
<1> HIDE DEF z
<1>2. LeadsAll(z, r, str)
  BY <1>1 DEF LeadsAll, Leads, Follows, Free
<1>3. Follows(<<z>> \o r, v, str, st, sc)
  BY <1>1, <1>2, FollowsInFront
<1>4. <<>> \o r = r
  BY ConcatEmptySeq DEF Follows, WorkOK
<1> QED BY <1>1, <1>3, <1>4

\* transition_after comes first.
LEMMA AfterInFront ==
  ASSUME NEW str, NEW st, NEW sc, NEW r, NEW v, Follows(r, v, str, st, sc),
         NEW k \in StreamId, ~FullyClosed(str[k]) \/ Free(r, {"schedule"})
  PROVE  Follows(AfterStep(k) \o r, v, str, st, sc)
<1> DEFINE y == AfterStep(k)[1]
<1>1. /\ y \in Steps /\ Sound(y, str, st, sc) /\ y.do = "after" /\ y.k = k
      /\ AfterStep(k) = <<y>>
  BY StepFacts, StepsAreSound
<1> HIDE DEF y
<1>2. ASSUME NEW i \in 1 .. Len(r)
      PROVE  Leads(y, r[i], str)
  <2>1. r[i].do # "grow" /\ (r[i].do = "schedule" => ~FullyClosed(str[k]))
    BY DEF Follows, Free
  <2> QED BY <1>1, <2>1 DEF Leads
<1>3. LeadsAll(y, r, str)
  BY <1>2 DEF LeadsAll
<1>4. Follows(<<y>> \o r, v, str, st, sc)
  BY <1>1, <1>3, FollowsInFront
<1> QED BY <1>1, <1>4

\* A step that queues nothing is taken.
LEMMA CallTaken ==
  ASSUME NEW str, NEW st, NEW sc, WorkOK(work, str, st, sc), work # <<>>,
         Head(work).do # "queue"
  PROVE  /\ Follows(Tail(work), work, str, st, sc)
         /\ Head(work) \in Steps /\ Sound(Head(work), str, st, sc)
         /\ LeadsAll(Head(work), Tail(work), str)
         /\ Head(work).do \notin {"assign", "after"} => Free(Tail(work), {"schedule"})
         /\ \A k : Head(work).do # "close" /\ Head(work).do # "assign"
                     /\ Head(work).do # "after" => Queueing(work, k) = 0
<1>1. /\ Head(work) \in Steps /\ Sound(Head(work), str, st, sc)
      /\ WorkOK(Tail(work), str, st, sc) /\ LeadsAll(Head(work), Tail(work), str)
      /\ work = <<Head(work)>> \o Tail(work)
  BY WorkTaken
<1> DEFINE x == Head(work)
           r == Tail(work)
<1>2. r \in Seq(Steps) /\ WorkOK(<<x>> \o r, str, st, sc)
  BY <1>1 DEF WorkOK
<1>3. ASSUME NEW k
      PROVE  Queueing(work, k) = Queueing(r, k)
  <2>1. ~Queues(x, k)
    BY DEF Queues
  <2>2. Queueing(<<x>> \o r, k) = Queueing(r, k)
    <3> HIDE DEF x, r
    <3> QED BY <1>1, <1>2, <2>1, QueueingInFront DEF x
  <2> QED BY <1>1, <2>2
<1>4. \A i \in 1 .. Len(r) : Leads(x, r[i], str)
  BY <1>1 DEF LeadsAll
<1>5. Free(r, {"grow"}) /\ (x.do \notin {"assign", "after"} => Free(r, {"schedule"}))
  <2> HIDE DEF x, r
  <2> QED BY <1>4 DEF Free, Leads
<1>6. ASSUME NEW k, x.do \notin {"close", "assign", "after"}
      PROVE  Queueing(r, k) = 0
  <2> HIDE DEF x, r
  <2>1. \A i \in 1 .. Len(r) : r[i].do # "queue"
    BY <1>4, <1>6 DEF Leads
  <2>2. DOMAIN r = 1 .. Len(r)
    BY <1>2, LenProperties
  <2> QED BY <2>1, <2>2 DEF Queueing
<1> QED BY <1>1, <1>3, <1>5, <1>6 DEF Follows

-----------------------------------------------------------------------------
(* The invariant, put together again after a step.                           *)

\* The parts that most steps leave alone.
LEMMA Steady ==
  ASSUME SInv, UNCHANGED <<store, ids, settings, next_stream_id>>,
         conn_error' \in BOOLEAN, task' \in BOOLEAN, todo' \subseteq StreamId,
         in_flight' \in 0 .. Dropped, chunk' \in [size : Nat, eos : BOOLEAN],
         pending_send' \in Seq(store), pending_capacity' \in Seq(store),
         pending_open' \in Seq(store)
  PROVE  Ranges' /\ Slab'
<1>1. Ranges /\ Slab
  BY DEF SInv
<1>2. Ranges'
  BY <1>1 DEF Ranges, settings, InitWindows, SendLimits
<1>3. Slab'
  BY <1>1 DEF Slab, settings, Remote
<1> QED BY <1>2, <1>3

\* What the invariant says of the variables.
LEMMA Facts ==
  ASSUME SInv
  PROVE  /\ scope \in Scopes /\ conn_error \in BOOLEAN /\ task \in BOOLEAN
         /\ todo \subseteq StreamId /\ in_flight \in 0 .. Dropped
         /\ chunk \in [size : Nat, eos : BOOLEAN]
         /\ store \subseteq StreamId /\ ids \subseteq store
         /\ pending_send \in Seq(store) /\ pending_capacity \in Seq(store)
         /\ pending_open \in Seq(store)
         /\ streams \in [StreamId -> Stream]
         /\ \A k \in StreamId : Good(streams[k], scope)
         /\ flow \in FlowControl /\ num_send_streams \in Nat
         /\ WorkOK(work, streams, store, scope)
         /\ Buffered(streams, work, in_flight, chunk)
         /\ Core(streams, store, flow, num_send_streams, scope)
<1>1. Core(streams, store, flow, num_send_streams, scope)
  BY DEF SInv
<1>2. num_send_streams \in Nat
  BY <1>1, CountIsNat DEF Core
<1>3. Records(streams, scope) /\ flow \in FlowControl
  BY <1>1 DEF Core
<1> QED BY <1>1, <1>2, <1>3 DEF SInv, Ranges, Slab, Records

\* Nothing of the steps that are left raises windows.
LEMMA LoopsKept ==
  ASSUME Free(work', {"grow"}), conn' = "send" => in_flight' = 0
  PROVE  Loops'
BY DEF Loops, Free

\* Steps that wait, after a change that keeps their streams.
LEMMA FollowsStays ==
  ASSUME NEW str, NEW st, NEW sc, NEW w, NEW v, Follows(w, v, str, st, sc),
         NEW str2, NEW st2, WorkOK(w, str2, st2, sc)
  PROVE  Follows(w, v, str2, st2, sc)
BY DEF Follows

\* A call begins.
LEMMA CalmFollows ==
  ASSUME NEW w, NEW str, NEW st, NEW sc, Calm(w, str, st, sc), work = <<>>
  PROVE  Follows(w, work, str, st, sc)
BY QueueingNone DEF Calm, Follows

\* No record changes.
LEMMA NoStream ==
  ASSUME SInv, Ranges', Slab', UNCHANGED <<streams, store, scope, num_send_streams>>,
         flow' \in FlowControl, flow'.window_size - flow.window_size
                                  = flow'.available - flow.available,
         0 <= flow.available => 0 <= flow'.available,
         Follows(work', work, streams, store, scope),
         \A j \in StreamId : Flight(in_flight', chunk', j) = Flight(in_flight, chunk, j),
         conn' = "send" => in_flight' = 0
  PROVE  SInv'
<1>1. Loops'
  BY LoopsKept DEF Follows
<1>2. WorkOK(work', streams', store', scope')
  BY DEF Follows
<1>3. Core(streams', store', flow', num_send_streams', scope')
  <2>1. Core(streams, store, flow, num_send_streams, scope)
    BY Facts
  <2>2. Balance(streams, flow', scope)
    <3> DEFINE held == [k \in StreamId |-> streams[k].send_flow.available]
    <3>1. SUFFICES ASSUME Unreserved(scope)
                   PROVE  /\ 0 <= flow'.available
                          /\ flow'.available + SumOf(held, StreamId) = flow'.window_size
      BY DEF Balance
    <3>2. 0 <= flow.available /\ flow.available + SumOf(held, StreamId) = flow.window_size
      BY <2>1, <3>1 DEF Core, Balance
    <3>3. held \in [StreamId -> Int]
      BY Facts, StreamFields
    <3> HIDE DEF held
    <3>4. SumOf(held, StreamId) \in Int
      BY <3>3, StreamIds, SumType
    <3>5. /\ flow.available \in Int /\ flow.window_size \in Int
          /\ flow'.available \in Int /\ flow'.window_size \in Int
      BY Facts DEF FlowControl
    <3> QED BY <3>2, <3>4, <3>5
  <2> QED BY <2>1, <2>2 DEF Core
<1>4. Buffered(streams', work', in_flight', chunk')
  BY Facts DEF Buffered, Follows
<1> QED BY <1>1, <1>2, <1>3, <1>4 DEF SInv

\* One record changes, and stays counted, held and in the slab.
LEMMA OneStreamAnyhow ==
  ASSUME SInv, Ranges', Slab', Loops', UNCHANGED <<store, scope, num_send_streams>>,
         NEW k \in StreamId, NEW t, streams' = [streams EXCEPT ![k] = t],
         Good(t, scope), Moves(streams[k], t, flow, flow'),
         t.is_counted = streams[k].is_counted, t.ref_count = streams[k].ref_count,
         k \notin store => /\ t.buffered_send_data = 0 /\ t.pending_send = <<>>
                           /\ Unreserved(scope) => t.send_flow.available = 0,
         WorkOK(work', streams', store, scope),
         \A j \in StreamId : j # k =>
           /\ Queueing(work', j) = Queueing(work, j)
           /\ Flight(in_flight', chunk', j) = Flight(in_flight, chunk, j),
         t.buffered_send_data
           = Total(t.pending_send) + Queueing(work', k) + Flight(in_flight', chunk', k)
  PROVE  SInv'
<1>1. WorkOK(work', streams', store', scope')
  OBVIOUS
<1>2. Core(streams', store', flow', num_send_streams', scope')
  BY CoreKeeps
<1>3. Buffered(streams', work', in_flight', chunk')
  <2>1. streams \in [StreamId -> Stream] /\ Buffered(streams, work, in_flight, chunk)
    BY Facts
  <2>2. Elsewhere(k, work, in_flight, chunk, work', in_flight', chunk')
    BY DEF Elsewhere
  <2>3. Swaps(streams, streams', k, t)
    BY <2>1 DEF Swaps
  <2> QED BY <2>1, <2>2, <2>3, BufferedMoves
<1> QED BY <1>1, <1>2, <1>3 DEF SInv

\* The usual steps: none of what is left raises windows.
LEMMA OneStream ==
  ASSUME SInv, Ranges', Slab', UNCHANGED <<store, scope, num_send_streams>>,
         NEW k \in StreamId, NEW t, streams' = [streams EXCEPT ![k] = t],
         Good(t, scope), Moves(streams[k], t, flow, flow'),
         t.is_counted = streams[k].is_counted, t.ref_count = streams[k].ref_count,
         k \notin store => /\ t.buffered_send_data = 0 /\ t.pending_send = <<>>
                           /\ Unreserved(scope) => t.send_flow.available = 0,
         NEW v, Follows(work', v, streams', store, scope),
         \A j \in StreamId : j # k =>
           /\ Queueing(v, j) = Queueing(work, j)
           /\ Flight(in_flight', chunk', j) = Flight(in_flight, chunk, j),
         t.buffered_send_data
           = Total(t.pending_send) + Queueing(v, k) + Flight(in_flight', chunk', k),
         conn' = "send" => in_flight' = 0
  PROVE  SInv'
<1>1. Loops'
  BY LoopsKept DEF Follows
<1>2. /\ WorkOK(work', streams', store, scope)
      /\ \A j \in StreamId : Queueing(work', j) = Queueing(v, j)
  BY DEF Follows
<1>3. /\ \A j \in StreamId : j # k => Queueing(work', j) = Queueing(work, j)
      /\ t.buffered_send_data
           = Total(t.pending_send) + Queueing(work', k) + Flight(in_flight', chunk', k)
  BY <1>2
<1> QED BY <1>1, <1>2, <1>3, OneStreamAnyhow

\* The same, while the stream keeps its frames or forgets them.
LEMMA OneStreamBacked ==
  ASSUME SInv, Ranges', Slab', UNCHANGED <<store, scope, num_send_streams>>,
         NEW k \in StreamId, k \in store, NEW t, streams' = [streams EXCEPT ![k] = t],
         Good(t, scope), Moves(streams[k], t, flow, flow'),
         t.is_counted = streams[k].is_counted, t.ref_count = streams[k].ref_count,
         work = <<>>, Follows(work', work, streams', store, scope),
         \A j \in StreamId : j # k =>
           Flight(in_flight', chunk', j) = Flight(in_flight, chunk, j),
         Backed(streams[k], k, in_flight, chunk) => Backed(t, k, in_flight', chunk'),
         conn' = "send" => in_flight' = 0
  PROVE  SInv'
<1>1. Queueing(work, k) = 0
  BY QueueingNone
<1>2. streams[k] \in Stream /\ t \in Stream
  BY Facts DEF Good
<1>3. Total(streams[k].pending_send) \in Nat /\ Total(t.pending_send) \in Nat
  BY <1>2, StreamFields, TotalType
<1>4. Backed(streams[k], k, in_flight, chunk)
  BY <1>1, <1>3, Facts DEF Buffered, Backed
<1>5. t.buffered_send_data
        = Total(t.pending_send) + Queueing(work, k) + Flight(in_flight', chunk', k)
  BY <1>1, <1>3, <1>4 DEF Backed
<1> QED BY <1>5, OneStream

\* No record and no window changes.
LEMMA Quiet ==
  ASSUME SInv, Ranges', Slab',
         UNCHANGED <<streams, store, scope, num_send_streams, flow, codec>>,
         Follows(work', work, streams, store, scope), conn' = "send" => in_flight = 0
  PROVE  SInv'
<1>1. flow \in FlowControl
  BY Facts
<1>2. /\ flow' \in FlowControl
      /\ flow'.window_size - flow.window_size = flow'.available - flow.available
      /\ 0 <= flow.available => 0 <= flow'.available
  BY <1>1 DEF FlowControl
<1>3. \A j \in StreamId : Flight(in_flight', chunk', j) = Flight(in_flight, chunk, j)
  BY DEF codec
<1> QED BY <1>2, <1>3, NoStream DEF codec

\* Nor any queue.
LEMMA QuietKept ==
  ASSUME SInv, UNCHANGED <<streams, slab, queues, settings, next_stream_id, flow, codec>>,
         conn_error' \in BOOLEAN, task' \in BOOLEAN, todo' \subseteq StreamId,
         Follows(work', work, streams, store, scope), conn' = "send" => in_flight = 0
  PROVE  SInv'
<1>1. UNCHANGED <<streams, store, ids, num_send_streams, scope, pending_send,
                  pending_capacity, pending_open, in_flight, chunk, flow>>
  BY DEF slab, queues, settings, codec
<1>2. Ranges' /\ Slab'
  BY <1>1, Facts, Steady
<1> QED BY <1>1, <1>2, Quiet

\* Nothing is left to do, and nothing comes.
LEMMA IdleStays ==
  ASSUME SInv, work = <<>>, work' = work
  PROVE  Follows(work', work, streams, store, scope)
BY CalmNone, CalmFollows

\* A call that queues nothing is cut short, or begins.
LEMMA CalmReplaces ==
  ASSUME SInv, NEW w, Calm(w, streams, store, scope),
         \A k : Queueing(work, k) = 0
  PROVE  Follows(w, work, streams, store, scope)
BY DEF Calm, Follows

\* BeginPoll
LEMMA BeginPollKeeps ==
  ASSUME SInv, BeginPoll
  PROVE  SInv'
<1>1. Follows(work', work, streams, store, scope)
  BY IdleStays DEF BeginPoll
<1> QED BY <1>1, Facts, QuietKept DEF BeginPoll, peer

\* RecvLimit
LEMMA RecvLimitKeeps ==
  ASSUME SInv, NEW n \in SendLimits, RecvLimit(n)
  PROVE  SInv'
<1>1. work = <<>> /\ conn' = "recv"
  BY DEF RecvLimit, Reading
<1>2. Follows(work', work, streams, store, scope)
  BY <1>1, IdleStays DEF RecvLimit
<1>3. Ranges /\ Slab
  BY DEF SInv
<1>4. Ranges'
  BY <1>3 DEF Ranges, RecvLimit, SendLimits, InitWindows, peer, codec
<1>5. Slab'
  BY <1>3 DEF Slab, RecvLimit, Remote, slab, queues
<1> QED BY <1>1, <1>2, <1>4, <1>5, Quiet DEF RecvLimit, slab

\* RecvGoAway
LEMMA RecvGoAwayKeeps ==
  ASSUME SInv, NEW last, RecvGoAway(last)
  PROVE  SInv'
<1>1. work = <<>> /\ conn' = "recv"
  BY DEF RecvGoAway, Reading
<1>2. Follows(work', work, streams, store, scope)
  <2>1. Calm(AbortStep(1), streams, store, scope)
    <3>1. 1 \in Int
      OBVIOUS
    <3> QED BY <3>1, CalmSteps, Zenon
  <2> QED BY <1>1, <2>1, CalmFollows DEF RecvGoAway
<1>3. todo' \subseteq StreamId /\ conn_error' \in BOOLEAN
  BY Facts DEF RecvGoAway
<1> QED BY <1>1, <1>2, <1>3, Facts, QuietKept DEF RecvGoAway

\* Fail
LEMMA FailKeeps ==
  ASSUME SInv, Fail
  PROVE  SInv'
<1>1. \A k : Queueing(work, k) = 0
  BY Facts, CallTaken DEF Fail, Doing
<1>2. Follows(work', work, streams, store, scope)
  <2>1. Calm(AbortStep(0), streams, store, scope)
    <3>1. 0 \in Int
      OBVIOUS
    <3> QED BY <3>1, CalmSteps, Zenon
  <2> QED BY <1>1, <2>1, CalmReplaces DEF Fail
<1>3. todo' \subseteq StreamId /\ conn_error' \in BOOLEAN
  BY Facts DEF Fail
<1> QED BY <1>2, <1>3, Facts, QuietKept DEF Fail

\* RecvInvalid
LEMMA RecvInvalidKeeps ==
  ASSUME SInv, RecvInvalid
  PROVE  SInv'
<1>1. work = <<>> /\ conn' = "recv"
  BY DEF RecvInvalid, Reading
<1>2. Follows(work', work, streams, store, scope)
  BY <1>1, CalmSteps, CalmFollows DEF RecvInvalid
<1> QED BY <1>1, <1>2, Facts, QuietKept DEF RecvInvalid, peer

\* ConnectionEnds
LEMMA ConnectionEndsKeeps ==
  ASSUME SInv, ConnectionEnds
  PROVE  SInv'
<1>1. Follows(work', work, streams, store, scope)
  <2>1. Calm(AbortStep(0) \o ClearStep, streams, store, scope)
    <3>1. 0 \in Int
      OBVIOUS
    <3> QED BY <3>1, CalmSteps, Zenon
  <2> QED BY <2>1, CalmFollows DEF ConnectionEnds
<1>2. todo' \subseteq StreamId /\ conn_error' \in BOOLEAN
  BY Facts DEF ConnectionEnds
<1> QED BY <1>1, <1>2, Facts, QuietKept DEF ConnectionEnds

\* Blocked
LEMMA BlockedKeeps ==
  ASSUME SInv, Blocked
  PROVE  SInv'
<1>1. work = <<>>
  BY DEF Blocked, Sending
<1>2. Follows(work', work, streams, store, scope)
  BY <1>1, IdleStays DEF Blocked
<1> QED BY <1>2, Facts, QuietKept DEF Blocked, peer

\* Park
LEMMA ParkKeeps ==
  ASSUME SInv, Park
  PROVE  SInv'
<1>1. Follows(work', work, streams, store, scope)
  BY IdleStays DEF Park, Sending
<1> QED BY <1>1, Facts, QuietKept DEF Park, peer

\* Of the stream whose turn it is.
LEMMA TurnFacts ==
  ASSUME SInv, NEW k, Turn(k)
  PROVE  /\ work = <<>> /\ conn = "send" /\ in_flight = 0
         /\ k \in store /\ k \in StreamId /\ Tail(pending_send) \in Seq(store)
<1>1. /\ pending_send \in Seq(store) /\ pending_send # <<>> /\ k = Head(pending_send)
      /\ store \subseteq StreamId
  BY Facts DEF Turn
<1>2. k \in store /\ Tail(pending_send) \in Seq(store)
  BY <1>1, QueueMoves
<1> QED BY <1>1, <1>2 DEF Turn, Sending, SInv, Loops

\* PopStalled
LEMMA PopStalledKeeps ==
  ASSUME SInv, NEW k \in StreamId, PopStalled(k)
  PROVE  SInv'
<1>1. work = <<>> /\ in_flight = 0 /\ Tail(pending_send) \in Seq(store)
  BY TurnFacts DEF PopStalled
<1>2. Follows(work', work, streams, store, scope)
  BY <1>1, IdleStays DEF PopStalled
<1>3. UNCHANGED <<streams, store, ids, num_send_streams, scope, settings,
                  next_stream_id, conn_error, task, todo, in_flight, chunk, codec,
                  pending_capacity, pending_open, flow>>
  BY DEF PopStalled, slab, settings, peer, codec
<1>4. pending_send' \in Seq(store)
  BY <1>1 DEF PopStalled
<1>5. Ranges' /\ Slab'
  BY <1>3, <1>4, Facts, Steady
<1> QED BY <1>1, <1>2, <1>3, <1>5, Quiet

\* PopDangling
LEMMA PopDanglingKeeps ==
  ASSUME SInv, NEW k \in StreamId, PopDangling(k)
  PROVE  SInv'
<1>1. work = <<>> /\ in_flight = 0 /\ Tail(pending_send) \in Seq(store)
  BY TurnFacts DEF PopDangling
<1>2. Follows(work', work, streams, store, scope)
  BY <1>1, CalmSteps, CalmFollows DEF PopDangling
<1>3. UNCHANGED <<streams, store, ids, num_send_streams, scope, settings,
                  next_stream_id, conn_error, task, todo, in_flight, chunk, codec,
                  pending_capacity, pending_open, flow>>
  BY DEF PopDangling, slab, settings, peer, codec
<1>4. pending_send' \in Seq(store)
  BY <1>1 DEF PopDangling
<1>5. Ranges' /\ Slab'
  BY <1>3, <1>4, Facts, Steady
<1> QED BY <1>1, <1>2, <1>3, <1>5, Quiet

\* AbortDone
LEMMA AbortDoneKeeps ==
  ASSUME SInv, AbortDone
  PROVE  SInv'
<1>1. Follows(Tail(work), work, streams, store, scope)
  BY Facts, CallTaken DEF AbortDone, Doing
<1>2. conn' = "send" => in_flight = 0
  BY DEF AbortDone, SInv, Loops
<1> QED BY <1>1, <1>2, Facts, QuietKept DEF AbortDone, peer

\* Schedule
LEMMA ScheduleKeeps ==
  ASSUME SInv, Schedule
  PROVE  SInv'
<1>1. /\ Follows(Tail(work), work, streams, store, scope)
      /\ Sound(Head(work), streams, store, scope)
  BY Facts, CallTaken DEF Schedule, Doing
<1>2. Head(work).k \in store
  BY <1>1 DEF Schedule, Doing, Sound
<1>3. pending_send' \in Seq(store) /\ task' \in BOOLEAN
  BY <1>2, Facts, Scheduled DEF Schedule
<1>4. UNCHANGED <<streams, store, ids, num_send_streams, scope, settings,
                  next_stream_id, conn_error, todo, in_flight, chunk, codec,
                  pending_capacity, pending_open, flow, conn>>
  BY DEF Schedule, slab, settings, peer, codec
<1>5. Ranges' /\ Slab'
  BY <1>3, <1>4, Facts, Steady
<1>6. conn' = "send" => in_flight = 0
  BY <1>4 DEF SInv, Loops
<1>7. work' = Tail(work)
  BY DEF Schedule
<1> QED BY <1>1, <1>4, <1>5, <1>6, <1>7, Quiet

\* A loop over streams or queues goes on.
LEMMA CallWaits ==
  ASSUME SInv, Doing("abort") \/ Doing("clear")
  PROVE  Follows(work, work, streams, store, scope) /\ Free(work, {"schedule"})
<1>1. /\ work # <<>> /\ WorkOK(work, streams, store, scope)
      /\ Head(work).do = "abort" \/ Head(work).do = "clear"
  BY Facts DEF Doing
<1>2. /\ work = <<Head(work)>> \o Tail(work) /\ Head(work) \in Steps
      /\ Tail(work) \in Seq(Steps)
  BY <1>1, WorkTaken DEF WorkOK
<1>3. Free(Tail(work), {"grow"}) /\ Free(Tail(work), {"schedule"})
  BY <1>1, CallTaken DEF Follows
<1>4. Free(<<Head(work)>> \o Tail(work), {"grow"})
  BY <1>1, <1>2, <1>3, FreeInFront
<1>5. Free(<<Head(work)>> \o Tail(work), {"schedule"})
  BY <1>1, <1>2, <1>3, FreeInFront
<1> QED BY <1>1, <1>2, <1>4, <1>5, Zenon DEF Follows

\* ClearQueue
LEMMA ClearQueueKeeps ==
  ASSUME SInv, ClearQueue
  PROVE  SInv'
<1> DEFINE all == pending_capacity \o pending_send \o pending_open
<1>1. UNCHANGED <<streams, store, ids, num_send_streams, scope, settings,
                  next_stream_id, conn_error, todo, task, in_flight, chunk, codec,
                  flow, conn, slab>>
  BY DEF ClearQueue, slab, settings, peer, codec
<1>2. conn' = "send" => in_flight = 0
  BY <1>1 DEF SInv, Loops
<1>3. all \in Seq(store)
  <2>1. pending_capacity \o pending_send \in Seq(store)
    BY Facts, ConcatProperties
  <2> QED BY <2>1, Facts, ConcatProperties
<1>4. CASE all = <<>>
  <2>1. work' = Tail(work) /\ UNCHANGED queues
    BY <1>4 DEF ClearQueue
  <2>2. Follows(Tail(work), work, streams, store, scope)
    BY Facts, CallTaken DEF ClearQueue, Doing
  <2> QED BY <1>1, <1>2, <2>1, <2>2, Facts, QuietKept
<1>5. CASE all # <<>>
  <2>1. Head(all) \in StreamId
    BY <1>3, <1>5, HeadAndTail, Facts
  <2> HIDE DEF all
  <2>2. work' = AfterStep(Head(all)) \o work
    BY <1>5 DEF ClearQueue, all
  <2>3. Follows(work, work, streams, store, scope) /\ Free(work, {"schedule"})
    BY CallWaits DEF ClearQueue
  <2>4. Follows(work', work, streams, store, scope)
    BY <2>1, <2>2, <2>3, AfterInFront
  <2>5. /\ pending_send' \in Seq(store) /\ pending_capacity' \in Seq(store)
        /\ pending_open' \in Seq(store)
    <3>1. /\ pending_send \in Seq(store) /\ pending_capacity \in Seq(store)
          /\ pending_open \in Seq(store)
      BY Facts
    <3>2. /\ pending_send # <<>> => Tail(pending_send) \in Seq(store)
          /\ pending_capacity # <<>> => Tail(pending_capacity) \in Seq(store)
          /\ pending_open # <<>> => Tail(pending_open) \in Seq(store)
      BY <3>1, QueueMoves
    <3>3. pending_capacity = <<>> /\ pending_send = <<>> => pending_open # <<>>
      BY <1>5 DEF all
    <3> QED BY <1>5, <3>1, <3>2, <3>3 DEF ClearQueue, all
  <2>6. Ranges' /\ Slab'
    BY <1>1, <2>5, Facts, Steady
  <2> QED BY <1>1, <1>2, <2>4, <2>6, Quiet
<1> QED BY <1>4, <1>5

\* RecvConnWindow
LEMMA RecvConnWindowKeeps ==
  ASSUME SInv, NEW n \in Nat, RecvConnWindow(n)
  PROVE  SInv'
<1>1. work = <<>> /\ conn' = "recv"
  BY DEF RecvConnWindow, Reading
<1>2. Follows(work', work, streams, store, scope)
  BY <1>1, CalmSteps, CalmFollows DEF RecvConnWindow
<1>3. UNCHANGED <<streams, store, ids, num_send_streams, scope, settings,
                  next_stream_id, conn_error, todo, task, in_flight, chunk,
                  pending_send, pending_capacity, pending_open>>
  BY DEF RecvConnWindow, slab, settings, peer, codec, queues
<1>4. Ranges' /\ Slab'
  BY <1>3, Facts, Steady
<1>5. flow \in FlowControl
  BY Facts
<1>6. /\ flow' \in FlowControl /\ flow'.window_size = flow.window_size + n
      /\ flow'.available = flow.available + n
  <2> DEFINE u == IncWindow(flow, n)
  <2>1. u \in FlowControl /\ u.window_size = flow.window_size + n /\ u.available = flow.available
    BY <1>5 DEF IncWindow, FlowControl
  <2>2. flow' = AssignCapacity(u, n)
    BY DEF RecvConnWindow
  <2> HIDE DEF u
  <2> QED BY <2>1, <2>2 DEF AssignCapacity, FlowControl
<1>7. /\ flow'.window_size - flow.window_size = flow'.available - flow.available
      /\ 0 <= flow.available => 0 <= flow'.available
  BY <1>5, <1>6 DEF FlowControl
<1>8. \A j \in StreamId : Flight(in_flight', chunk', j) = Flight(in_flight, chunk, j)
  BY <1>3
<1> QED BY <1>1, <1>2, <1>3, <1>4, <1>6, <1>7, <1>8, NoStream

\* The windows are raised one by one.
LEMMA RaiseWindowsKeeps ==
  ASSUME SInv, NEW v \in InitWindows, RaiseWindows(v)
  PROVE  SInv'
<1> DEFINE n == v - init_window_sz
           x == Step("grow", 0, n, ResetFrame)
<1>1. Ranges /\ Slab /\ Core(streams, store, flow, num_send_streams, scope)
  BY DEF SInv
<1>2. /\ v > init_window_sz /\ init_window_sz' = v /\ todo' = ids /\ work' = <<x>>
      /\ work = <<>> /\ conn = "recv"
  BY DEF RaiseWindows, Reading, GrowStep
<1>3. UNCHANGED <<scope, streams, store, ids, num_send_streams, pending_send,
                  pending_capacity, pending_open, flow, max_send_streams,
                  next_stream_id, conn_error, in_flight, chunk, task, conn>>
  BY DEF RaiseWindows, slab, queues, peer, codec
<1>4. v \in Nat /\ init_window_sz \in Nat
  <2>1. scope \in Scope
    BY <1>1, SendAssumption DEF Ranges
  <2>2. InitWindows \subseteq Nat
    BY <2>1 DEF Scope, InitWindows
  <2> QED BY <1>1, <2>2 DEF Ranges
<1>5. n \in Nat
  BY <1>2, <1>4
<1>6. Ranges'
  BY <1>1, <1>2, <1>3 DEF Ranges, InitWindows, SendLimits, Slab
<1>7. Slab'
  BY <1>1, <1>3 DEF Slab, Remote
<1>8. x \in Steps /\ x.do = "grow" /\ x.arg = n
  BY <1>5, StepType, ResetFrameSent, SendAssumption DEF Names
<1> HIDE DEF n, x
<1>9. Sound(x, streams, store, scope)
  BY <1>5, <1>8 DEF Sound
<1>10. WorkOK(<<x>>, streams, store, scope) /\ \A k : Queueing(<<x>>, k) = 0
  <2> DEFINE r == <<>>
  <2>1. /\ LeadsAll(x, r, streams) /\ r \in Seq(Steps) /\ <<x>> \o r = <<x>>
        /\ WorkOK(r, streams, store, scope) /\ \A k : Queueing(r, k) = 0
    BY NoWork, QueueingNone DEF LeadsAll
  <2> HIDE DEF r
  <2>2. WorkOK(<<x>> \o r, streams, store, scope)
    BY <1>8, <1>9, <2>1, WorkInFront
  <2>3. \A k : ~Queues(x, k)
    BY <1>8 DEF Queues
  <2>4. ASSUME NEW k PROVE Queueing(<<x>> \o r, k) = 0
    BY <1>8, <2>1, <2>2, <2>3, QueueingInFront
  <2> QED BY <2>1, <2>2, <2>4, Zenon
<1>11. WorkOK(work', streams', store', scope')
  BY <1>2, <1>3, <1>10
<1>12. Loops'
  BY <1>2, <1>3 DEF Loops
<1>13. Buffered(streams', work', in_flight', chunk')
  BY <1>2, <1>3, <1>10, Facts, QueueingNone DEF Buffered
<1>14. Core(streams', store', flow', num_send_streams', scope')
  BY <1>1, <1>3
<1> QED BY <1>6, <1>7, <1>11, <1>12, <1>13, <1>14 DEF SInv

-----------------------------------------------------------------------------
(* The actions that change one record, while nothing is left of a call.      *)

\* A record that keeps its flow, what it asked for and what it buffers.
LEMMA GoodKept ==
  ASSUME NEW s, NEW sc, Good(s, sc), NEW t \in Stream, t.pending_send \in Seq(Sent),
         t.send_flow = s.send_flow,
         t.requested_send_capacity = s.requested_send_capacity,
         t.buffered_send_data = s.buffered_send_data
  PROVE  Good(t, sc)
BY DEF Good

\* Every state that a transition leads to is one.
LEMMA StatesFollow ==
  ASSUME NEW s \in State
  PROVE  /\ SendClose(s) \in State /\ RecvClose(s) \in State
         /\ RecvOpen(s, TRUE, FALSE) \in State
<1>1. "EndStream" \in Causes /\ "AwaitingHeaders" \in Peers
  BY DEF Causes, Peers
<1>2. /\ s.inner = "Open" => s.local \in Peers /\ s.remote \in Peers
  BY StateFields
<1>3. SendClose(s) \in State /\ RecvClose(s) \in State
  BY <1>1, <1>2, StateValues DEF SendClose, RecvClose
<1>4. /\ s.inner = "Idle" => RecvOpen(s, TRUE, FALSE) = HalfClosedRemote("AwaitingHeaders")
      /\ s.inner = "Open" => RecvOpen(s, TRUE, FALSE) = HalfClosedRemote(s.local)
      /\ s.inner # "Idle" /\ s.inner # "Open" => RecvOpen(s, TRUE, FALSE) = Closed("EndStream")
  BY DEF RecvOpen
<1>5. RecvOpen(s, TRUE, FALSE) \in State
  BY <1>1, <1>2, <1>4, StateValues
<1> QED BY <1>3, <1>5

\* Only the state, what tasks were told and flags of a record change.
LEMMA Relabelled ==
  ASSUME SInv, Ranges', Slab', UNCHANGED <<store, scope, num_send_streams, flow, codec>>,
         NEW k \in StreamId, k \in store, NEW t \in Stream,
         streams' = [streams EXCEPT ![k] = t],
         t.is_counted = streams[k].is_counted, t.ref_count = streams[k].ref_count,
         t.send_flow = streams[k].send_flow, t.pending_send = streams[k].pending_send,
         t.requested_send_capacity = streams[k].requested_send_capacity,
         t.buffered_send_data = streams[k].buffered_send_data,
         work = <<>>, Follows(work', work, streams', store, scope),
         conn' = "send" => in_flight = 0
  PROVE  SInv'
<1>1. Good(streams[k], scope) /\ streams[k] \in Stream /\ flow \in FlowControl
  BY Facts
<1>2. Good(t, scope)
  <2>1. t.pending_send \in Seq(Sent)
    BY <1>1 DEF Good
  <2> QED BY <1>1, <2>1, GoodKept
<1>3. Moves(streams[k], t, flow, flow')
  BY <1>1, StillMoves
<1>4. /\ \A j \in StreamId : j # k =>
           Flight(in_flight', chunk', j) = Flight(in_flight, chunk, j)
      /\ Backed(streams[k], k, in_flight, chunk) => Backed(t, k, in_flight', chunk')
  BY DEF codec, Backed
<1>5. conn' = "send" => in_flight' = 0
  BY DEF codec
<1> QED BY <1>2, <1>3, <1>4, <1>5, OneStreamBacked

\* The queues stay too.
LEMMA RelabelledKept ==
  ASSUME SInv,
         UNCHANGED <<slab, queues, settings, next_stream_id, flow, codec, todo>>,
         conn_error' \in BOOLEAN, task' \in BOOLEAN,
         NEW k \in StreamId, k \in store, NEW t \in Stream,
         streams' = [streams EXCEPT ![k] = t],
         t.is_counted = streams[k].is_counted, t.ref_count = streams[k].ref_count,
         t.send_flow = streams[k].send_flow, t.pending_send = streams[k].pending_send,
         t.requested_send_capacity = streams[k].requested_send_capacity,
         t.buffered_send_data = streams[k].buffered_send_data,
         work = <<>>, Follows(work', work, streams', store, scope),
         conn' = "send" => in_flight = 0
  PROVE  SInv'
<1>1. UNCHANGED <<store, ids, num_send_streams, scope, pending_send,
                  pending_capacity, pending_open, in_flight, chunk, flow>>
  BY DEF slab, queues, settings, codec
<1>2. Ranges' /\ Slab'
  BY <1>1, Facts, Steady
<1> QED BY <1>1, <1>2, Relabelled

\* A new state or flag.
LEMMA WithState ==
  ASSUME NEW s \in Stream, NEW st \in State
  PROVE  LET t == [s EXCEPT !.state = st]
         IN /\ t \in Stream /\ t.state = st
            /\ t.is_counted = s.is_counted /\ t.ref_count = s.ref_count
            /\ t.send_flow = s.send_flow /\ t.pending_send = s.pending_send
            /\ t.requested_send_capacity = s.requested_send_capacity
            /\ t.buffered_send_data = s.buffered_send_data
BY DEF Stream

\* ExpireReset
LEMMA ExpireResetKeeps ==
  ASSUME SInv, NEW k \in StreamId, ExpireReset(k)
  PROVE  SInv'
<1> DEFINE t == [streams[k] EXCEPT !.is_pending_reset = FALSE]
<1>1. work = <<>> /\ conn' = "recv" /\ k \in store /\ streams[k] \in Stream
  BY Facts DEF ExpireReset, Reading
<1>2. /\ t \in Stream /\ t.is_counted = streams[k].is_counted
      /\ t.ref_count = streams[k].ref_count
      /\ t.send_flow = streams[k].send_flow /\ t.pending_send = streams[k].pending_send
      /\ t.requested_send_capacity = streams[k].requested_send_capacity
      /\ t.buffered_send_data = streams[k].buffered_send_data
  BY <1>1 DEF Stream
<1>3. streams' = [streams EXCEPT ![k] = t]
  BY DEF ExpireReset
<1>4. Follows(work', work, streams', store, scope)
  BY <1>1, CalmSteps, CalmFollows DEF ExpireReset
<1>5. /\ UNCHANGED <<slab, queues, settings, next_stream_id, flow, codec, todo>>
      /\ conn_error' \in BOOLEAN /\ task' \in BOOLEAN
  BY Facts DEF ExpireReset, peer
<1> HIDE DEF t
<1> QED BY <1>1, <1>2, <1>3, <1>4, <1>5, RelabelledKept

\* RecvEnd
LEMMA RecvEndKeeps ==
  ASSUME SInv, NEW k \in StreamId, RecvEnd(k)
  PROVE  SInv'
<1>1. work = <<>> /\ conn' = "recv" /\ k \in store /\ streams[k] \in Stream
  BY Facts DEF RecvEnd, Reading
<1>2. PICK st \in State : streams' = [streams EXCEPT ![k].state = st]
  <2>1. streams[k].state \in State
    BY <1>1, StreamFields
  <2> QED BY <2>1, StatesFollow DEF RecvEnd
<1> DEFINE t == [streams[k] EXCEPT !.state = st]
<1>3. /\ t \in Stream /\ t.is_counted = streams[k].is_counted
      /\ t.ref_count = streams[k].ref_count
      /\ t.send_flow = streams[k].send_flow /\ t.pending_send = streams[k].pending_send
      /\ t.requested_send_capacity = streams[k].requested_send_capacity
      /\ t.buffered_send_data = streams[k].buffered_send_data
  BY <1>1, WithState
<1>4. streams' = [streams EXCEPT ![k] = t]
  BY <1>2
<1>5. Follows(work', work, streams', store, scope)
  BY <1>1, CalmSteps, CalmFollows DEF RecvEnd
<1>6. /\ UNCHANGED <<slab, queues, settings, next_stream_id, flow, codec, todo>>
      /\ conn_error' \in BOOLEAN /\ task' \in BOOLEAN
  BY Facts DEF RecvEnd, peer
<1> HIDE DEF t
<1> QED BY <1>1, <1>3, <1>4, <1>5, <1>6, RelabelledKept

\* A handle that may be used.
LEMMA HeldFacts ==
  ASSUME SInv, NEW k, Held(k)
  PROVE  /\ work = <<>> /\ conn # "send" /\ k \in store /\ k \in StreamId
         /\ streams[k] \in Stream /\ streams[k].ref_count = 1
<1>1. work = <<>> /\ conn # "send" /\ k \in store /\ streams[k].ref_count > 0
  BY DEF Held, Idling
<1>2. k \in StreamId /\ streams[k] \in Stream
  BY <1>1, Facts
<1>3. streams[k].ref_count \in 0 .. 1
  BY <1>2, StreamFields
<1> QED BY <1>1, <1>2, <1>3

\* A task waits.
LEMMA WaitsSilently ==
  ASSUME NEW s \in Stream, NEW who \in Tasks
  PROVE  Silent(s, WaitSend(s, who))
<1>1. s.waiting \cup {who} \in SUBSET Tasks /\ who \in Tasks \cup {"-"}
  BY StreamFields
<1> QED BY <1>1 DEF WaitSend, Silent, Like, Stream

\* PollCapacity
LEMMA PollCapacityKeeps ==
  ASSUME SInv, NEW k \in StreamId, PollCapacity(k)
  PROVE  SInv'
<1> DEFINE s == streams[k]
           t == IF s.send_capacity_inc
                THEN [Runs(s) EXCEPT !.send_capacity_inc = FALSE]
                ELSE WaitSend(s, "producer")
<1>1. work = <<>> /\ conn' # "send" /\ k \in store /\ s \in Stream
  BY HeldFacts DEF PollCapacity
<1>2. t \in Stream /\ Like(s, t) /\ t.send_flow = s.send_flow
  <2>1. Silent(s, Runs(s)) /\ Runs(s) \in Stream
    BY <1>1, RunsSilent DEF Silent
  <2>2. CASE s.send_capacity_inc
    <3>1. t = [Runs(s) EXCEPT !.send_capacity_inc = FALSE]
      BY <2>2
    <3> HIDE DEF s, t
    <3>2. t \in Stream /\ Like(Runs(s), t) /\ t.send_flow = Runs(s).send_flow
      BY <2>1, <3>1 DEF Stream, Like
    <3> QED BY <2>1, <3>2 DEF Silent, Like
  <2>3. CASE ~s.send_capacity_inc
    <3>1. t = WaitSend(s, "producer") /\ "producer" \in Tasks
      BY <2>3 DEF Tasks
    <3> HIDE DEF s, t
    <3> QED BY <1>1, <3>1, WaitsSilently DEF Silent
  <2> QED BY <2>2, <2>3
<1>3. streams' = [streams EXCEPT ![k] = t]
  BY DEF PollCapacity
<1>4. Follows(work', work, streams', store, scope)
  BY <1>1, CalmNone, CalmFollows DEF PollCapacity
<1>5. /\ UNCHANGED <<slab, queues, settings, next_stream_id, flow, codec, todo>>
      /\ conn_error' \in BOOLEAN /\ task' \in BOOLEAN
  BY Facts DEF PollCapacity, peer
<1> HIDE DEF t
<1> QED BY <1>1, <1>2, <1>3, <1>4, <1>5, RelabelledKept DEF Like

\* PollReady
LEMMA PollReadyKeeps ==
  ASSUME SInv, NEW k \in StreamId, PollReady(k)
  PROVE  SInv'
<1> DEFINE s == streams[k]
           t == WaitSend(s, "opener")
<1>1. work = <<>> /\ conn' # "send" /\ k \in store /\ s \in Stream
  BY HeldFacts DEF PollReady
<1>2. t \in Stream /\ Like(s, t) /\ t.send_flow = s.send_flow
  <2>1. "opener" \in Tasks
    BY DEF Tasks
  <2> HIDE DEF s
  <2> QED BY <1>1, <2>1, WaitsSilently DEF Silent
<1>3. streams' = [streams EXCEPT ![k] = t]
  BY DEF PollReady
<1>4. Follows(work', work, streams', store, scope)
  BY <1>1, CalmNone, CalmFollows DEF PollReady
<1>5. /\ UNCHANGED <<slab, queues, settings, next_stream_id, flow, codec, todo>>
      /\ conn_error' \in BOOLEAN /\ task' \in BOOLEAN
  BY Facts DEF PollReady, peer
<1> HIDE DEF t
<1> QED BY <1>1, <1>2, <1>3, <1>4, <1>5, RelabelledKept DEF Like

\* ReserveCapacity
LEMMA ReserveCapacityKeeps ==
  ASSUME SInv, NEW k \in StreamId, NEW n \in scope.reservations, ReserveCapacity(k, n)
  PROVE  SInv'
<1> DEFINE s == streams[k]
           t == Runs(s)
<1>1. work = <<>> /\ conn' # "send" /\ k \in store /\ s \in Stream /\ s.ref_count = 1
  BY HeldFacts DEF ReserveCapacity
<1>2. t \in Stream /\ Like(s, t) /\ t.send_flow = s.send_flow
  BY <1>1, RunsSilent DEF Silent
<1>3. streams' = [streams EXCEPT ![k] = t]
  BY DEF ReserveCapacity
<1>4. Follows(work', work, streams', store, scope)
  <2>1. n \in Nat /\ (Uses(scope) /\ Unreserved(scope) => n = 0)
    <3>1. scope \in Scope
      BY Facts, SendAssumption
    <3>2. scope.reservations \subseteq Nat
      BY <3>1 DEF Scope
    <3> QED BY <3>2 DEF Unreserved
  <2>2. streams'[k].ref_count > 0
    <3>1. streams'[k] = t
      BY <1>3, Facts
    <3> HIDE DEF t
    <3> QED BY <1>1, <1>2, <3>1 DEF Like
  <2>3. Calm(ReserveStep(k, n), streams', store, scope)
    BY <1>1, <2>1, <2>2, CalmReserves
  <2> QED BY <1>1, <2>3, CalmFollows DEF ReserveCapacity
<1>5. /\ UNCHANGED <<slab, queues, settings, next_stream_id, flow, codec, todo>>
      /\ conn_error' \in BOOLEAN /\ task' \in BOOLEAN
  BY Facts DEF ReserveCapacity, peer
<1> HIDE DEF t
<1> QED BY <1>1, <1>2, <1>3, <1>4, <1>5, RelabelledKept DEF Like

\* PopScheduledReset
LEMMA PopScheduledResetKeeps ==
  ASSUME SInv, NEW k \in StreamId, PopScheduledReset(k)
  PROVE  SInv'
<1> DEFINE t == [streams[k] EXCEPT !.state = SetReset]
<1>1. /\ work = <<>> /\ k \in store /\ streams[k] \in Stream
      /\ Tail(pending_send) \in Seq(store) /\ conn' = "write"
  BY TurnFacts, Facts DEF PopScheduledReset
<1>2. /\ t \in Stream /\ t.is_counted = streams[k].is_counted
      /\ t.ref_count = streams[k].ref_count
      /\ t.send_flow = streams[k].send_flow /\ t.pending_send = streams[k].pending_send
      /\ t.requested_send_capacity = streams[k].requested_send_capacity
      /\ t.buffered_send_data = streams[k].buffered_send_data
  BY <1>1, StateValues, WithState
<1>3. streams' = [streams EXCEPT ![k] = t]
  BY DEF PopScheduledReset
<1>4. Follows(work', work, streams', store, scope)
  BY <1>1, CalmSteps, CalmFollows DEF PopScheduledReset
<1>5. UNCHANGED <<store, ids, num_send_streams, scope, settings, next_stream_id,
                  conn_error, task, todo, in_flight, chunk, codec, flow,
                  pending_capacity, pending_open>>
  BY DEF PopScheduledReset, slab, settings, peer, codec
<1>6. pending_send' \in Seq(store)
  BY <1>1 DEF PopScheduledReset
<1>7. Ranges' /\ Slab'
  BY <1>5, <1>6, Facts, Steady
<1> HIDE DEF t
<1> QED BY <1>1, <1>2, <1>3, <1>4, <1>5, <1>7, Relabelled

-----------------------------------------------------------------------------
(* The actions that move capacity.                                           *)

\* The record keeps its frames while a call goes on.
LEMMA OneStreamSame ==
  ASSUME SInv, Ranges', Slab', UNCHANGED <<store, scope, num_send_streams, codec, conn>>,
         NEW k \in StreamId, k \in store, NEW t, streams' = [streams EXCEPT ![k] = t],
         Good(t, scope), Moves(streams[k], t, flow, flow'),
         t.is_counted = streams[k].is_counted, t.ref_count = streams[k].ref_count,
         t.buffered_send_data = streams[k].buffered_send_data,
         t.pending_send = streams[k].pending_send,
         Follows(work', work, streams', store, scope)
  PROVE  SInv'
<1>1. \A j \in StreamId : Flight(in_flight', chunk', j) = Flight(in_flight, chunk, j)
  BY DEF codec
<1>2. t.buffered_send_data
        = Total(t.pending_send) + Queueing(work, k) + Flight(in_flight', chunk', k)
  BY <1>1, Facts DEF Buffered
<1>3. conn' = "send" => in_flight' = 0
  BY DEF SInv, Loops, codec
<1>4. \A j \in StreamId : j # k =>
        /\ Queueing(work, j) = Queueing(work, j)
        /\ Flight(in_flight', chunk', j) = Flight(in_flight, chunk, j)
  BY <1>1
<1> QED BY <1>2, <1>3, <1>4, OneStream

\* What is put in front of a call is a sequence of steps.
LEMMA StepSeqs ==
  /\ AssignStep \in Seq(Steps) /\ <<>> \in Seq(Steps)
  /\ \A k \in StreamId : AfterStep(k) \in Seq(Steps) /\ ExpireStep(k) \in Seq(Steps)
<1>1. Calm(AssignStep, streams, store, scope)
  BY CalmSteps
<1>2. \A k \in StreamId : Calm(AfterStep(k), streams, store, scope)
                             /\ Calm(ExpireStep(k), streams, store, scope)
  BY CalmSteps
<1>3. \A w : Calm(w, streams, store, scope) => w \in Seq(Steps)
  BY DEF Calm, WorkOK
<1> QED BY <1>1, <1>2, <1>3

\* Capacity is reclaimed first, if there is some.
LEMMA ReclaimsFirst ==
  ASSUME NEW s, NEW w
  PROVE  \/ ReclaimStep(s) \o w = AssignStep \o w
         \/ ReclaimStep(s) \o w = <<>> \o w
<1>1. ReclaimStep(s) = AssignStep \/ ReclaimStep(s) = <<>>
  BY DEF ReclaimStep
<1> QED BY <1>1, Zenon

\* A stream that loses its frames and its capacity.
LEMMA Cancelled ==
  ASSUME SInv, NEW k \in StreamId, NEW st \in State, NEW t,
         t = Cleared([NotifySend(streams[k]) EXCEPT !.state = st]),
         flow' = Reclaimed(streams[k]), ForgetInFlight(k), UNCHANGED chunk
  PROVE  /\ Good(t, scope) /\ Moves(streams[k], t, flow, flow')
         /\ t.is_counted = streams[k].is_counted /\ t.ref_count = streams[k].ref_count
         /\ t.buffered_send_data = 0 /\ t.pending_send = <<>>
         /\ Unreserved(scope) => t.send_flow.available = 0
         /\ Backed(t, k, in_flight', chunk')
         /\ in_flight' \in 0 .. Dropped /\ (in_flight = 0 => in_flight' = 0)
         /\ \A j \in StreamId : j # k =>
              Flight(in_flight', chunk', j) = Flight(in_flight, chunk, j)
<1> DEFINE s == streams[k]
           u == NotifySend(s)
           v == [u EXCEPT !.state = st]
<1>1. Good(s, scope) /\ s \in Stream /\ flow \in FlowControl /\ in_flight \in 0 .. Dropped
  BY Facts
<1>2. Silent(s, u) /\ u \in Stream
  BY <1>1, NotifySendSilent DEF Silent
<1>3. Good(u, scope)
  BY <1>1, <1>2, SilentGood
<1>4. t = Cleared(v)
  OBVIOUS
<1> HIDE DEF u
<1>5. /\ v \in Stream
      /\ v.is_counted = u.is_counted /\ v.ref_count = u.ref_count
      /\ v.send_flow = u.send_flow /\ v.pending_send = u.pending_send
      /\ v.requested_send_capacity = u.requested_send_capacity
      /\ v.buffered_send_data = u.buffered_send_data
  BY <1>2, WithState
<1> HIDE DEF v
<1>6. Good(v, scope)
  <2>1. v.pending_send \in Seq(Sent)
    BY <1>3, <1>5 DEF Good
  <2> QED BY <1>3, <1>5, <2>1, GoodKept
<1>7. /\ Good(t, scope)
      /\ t.buffered_send_data = 0 /\ t.pending_send = <<>>
      /\ t.is_counted = v.is_counted /\ t.ref_count = v.ref_count
      /\ t.send_flow.available = v.send_flow.available - AsSize(v.send_flow.available)
  BY <1>4, <1>6, ClearedGood
<1>8. /\ v.send_flow = s.send_flow /\ v.is_counted = s.is_counted
      /\ v.ref_count = s.ref_count
  BY <1>2, <1>5 DEF Silent, Like
<1>9. Moves(s, t, flow, flow')
  BY <1>1, <1>7, <1>8, ReclaimedMoves
<1>10. Unreserved(scope) => t.send_flow.available = 0
  <2>1. s.send_flow.available \in Int
    BY <1>1, StreamFields
  <2>2. Unreserved(scope) => 0 <= s.send_flow.available
    BY <1>1 DEF Good
  <2> QED BY <1>7, <1>8, <2>1, <2>2 DEF AsSize
<1>11. /\ in_flight' \in 0 .. Dropped /\ (in_flight = 0 => in_flight' = 0)
       /\ \A j \in StreamId : j # k =>
            Flight(in_flight', chunk, j) = Flight(in_flight, chunk, j)
  BY <1>1, Forgotten
<1>12. Backed(t, k, in_flight', chunk)
  BY <1>1, <1>7, ClearedBacked
<1> QED BY <1>7, <1>8, <1>9, <1>10, <1>11, <1>12

\* RecvRst
LEMMA RecvRstKeeps ==
  ASSUME SInv, NEW k \in StreamId, RecvRst(k)
  PROVE  SInv'
<1> DEFINE st == RecvReset(NotifySend(streams[k]).state, k \in Members(pending_send))
           t == Cleared([NotifySend(streams[k]) EXCEPT !.state = st])
<1>1. work = <<>> /\ conn' = "recv" /\ k \in store /\ streams[k] \in Stream
  BY Facts DEF RecvRst, Reading
<1>2. st \in State
  <2>1. NotifySend(streams[k]).state \in State
    BY <1>1, NotifySendSilent, StreamFields DEF Silent
  <2> QED BY <2>1, RecvResetType
<1>3. /\ streams' = [streams EXCEPT ![k] = t] /\ flow' = Reclaimed(streams[k])
      /\ ForgetInFlight(k)
      /\ UNCHANGED <<store, ids, num_send_streams, scope, settings, next_stream_id,
                     conn_error, task, todo, chunk, pending_send,
                     pending_capacity, pending_open>>
      /\ work' = ReclaimStep(streams[k]) \o AfterStep(k)
  BY DEF RecvRst, slab, queues, settings, peer
<1> HIDE DEF st, t
<1>4. /\ Good(t, scope) /\ Moves(streams[k], t, flow, flow')
      /\ t.is_counted = streams[k].is_counted /\ t.ref_count = streams[k].ref_count
      /\ Backed(t, k, in_flight', chunk')
      /\ in_flight' \in 0 .. Dropped /\ (in_flight = 0 => in_flight' = 0)
      /\ \A j \in StreamId : j # k =>
           Flight(in_flight', chunk', j) = Flight(in_flight, chunk, j)
  BY <1>2, <1>3, Cancelled DEF t
<1>5. Follows(work', work, streams', store, scope)
  <2>1. work' = AssignStep \o AfterStep(k) \/ work' = AfterStep(k)
    <3>1. <<>> \o AfterStep(k) = AfterStep(k)
      BY CalmSteps, CalmAlone
    <3> QED BY <1>3, <3>1 DEF ReclaimStep
  <2>2. Calm(work', streams', store, scope)
    BY <2>1, CalmSteps
  <2> QED BY <1>1, <2>2, CalmFollows
<1>6. Ranges' /\ Slab'
  BY <1>3, <1>4, Facts, Steady
<1> QED BY <1>1, <1>3, <1>4, <1>5, <1>6, OneStreamBacked

\* AbortOne
LEMMA AbortOneKeeps ==
  ASSUME SInv, AbortOne
  PROVE  SInv'
<1>1. PICK k \in todo :
        /\ streams' = [streams EXCEPT ![k] =
             Cleared([NotifySend(streams[k]) EXCEPT
               !.state = HandleError(@, IF Head(work).arg = 1 THEN "RemoteError"
                                                              ELSE "LocalError")])]
        /\ flow' = Reclaimed(streams[k]) /\ ForgetInFlight(k) /\ todo' = todo \ {k}
        /\ work' = ReclaimStep(streams[k]) \o AfterStep(k) \o work
  BY DEF AbortOne
<1> DEFINE c == IF Head(work).arg = 1 THEN "RemoteError" ELSE "LocalError"
           st == HandleError(NotifySend(streams[k]).state, c)
           t == Cleared([NotifySend(streams[k]) EXCEPT !.state = st])
<1>2. k \in StreamId /\ streams[k] \in Stream /\ todo' \subseteq StreamId
  BY <1>1, Facts
<1>3. st \in State
  <2>1. NotifySend(streams[k]).state \in State
    BY <1>2, NotifySendSilent, StreamFields DEF Silent
  <2>2. c \in Causes
    BY DEF Causes
  <2> HIDE DEF c
  <2> QED BY <2>1, <2>2, HandleErrorType
<1>4. /\ streams' = [streams EXCEPT ![k] = t]
      /\ UNCHANGED <<store, ids, num_send_streams, scope, settings, next_stream_id,
                     conn_error, task, chunk, pending_send, conn,
                     pending_capacity, pending_open>>
  BY <1>1 DEF AbortOne, slab, queues, settings, peer
<1> HIDE DEF c, st, t
<1>5. /\ Good(t, scope) /\ Moves(streams[k], t, flow, flow')
      /\ t.is_counted = streams[k].is_counted /\ t.ref_count = streams[k].ref_count
      /\ t.buffered_send_data = 0 /\ t.pending_send = <<>>
      /\ Unreserved(scope) => t.send_flow.available = 0
      /\ Backed(t, k, in_flight', chunk')
      /\ in_flight' \in 0 .. Dropped /\ (in_flight = 0 => in_flight' = 0)
      /\ \A j \in StreamId : j # k =>
           Flight(in_flight', chunk', j) = Flight(in_flight, chunk, j)
  BY <1>1, <1>2, <1>3, <1>4, Cancelled DEF t
<1>6. /\ Follows(work, work, streams, store, scope) /\ Free(work, {"schedule"})
      /\ \A j : Queueing(work, j) = 0
  <2>1. Follows(work, work, streams, store, scope) /\ Free(work, {"schedule"})
    BY CallWaits DEF AbortOne
  <2> QED BY <2>1, Facts, CallTaken DEF AbortOne, Doing
<1>7. Follows(work, work, streams', store, scope)
  <2>1. \A j \in store : streams[j].ref_count > 0 => j \in store /\ streams'[j].ref_count > 0
    BY <1>4, <1>5, Facts
  <2>2. \A i \in 1 .. Len(work) : work[i].do # "schedule"
    BY <1>6 DEF Free
  <2>3. WorkOK(work, streams', store, scope)
    BY <2>1, <2>2, Facts, WorkStaysEasily
  <2> QED BY <1>6, <2>3, FollowsStays
<1>8. Follows(work', work, streams', store, scope)
  <2>1. Follows(AfterStep(k) \o work, work, streams', store, scope)
    BY <1>2, <1>6, <1>7, AfterInFront
  <2>2. /\ Follows(AssignStep \o (AfterStep(k) \o work), work, streams', store, scope)
        /\ Follows(<<>> \o (AfterStep(k) \o work), work, streams', store, scope)
    BY <2>1, AssignInFront
  <2>3. work' = ReclaimStep(streams[k]) \o (AfterStep(k) \o work)
    <3>1. /\ ReclaimStep(streams[k]) \in Seq(Steps) /\ AfterStep(k) \in Seq(Steps)
          /\ work \in Seq(Steps)
      BY <1>2, StepSeqs, Facts DEF ReclaimStep, WorkOK
    <3> QED BY <1>1, <3>1, ConcatAssociative
  <2>4. \/ work' = AssignStep \o (AfterStep(k) \o work)
        \/ work' = <<>> \o (AfterStep(k) \o work)
    BY <2>3, ReclaimsFirst, Zenon
  <2> QED BY <2>2, <2>4, Zenon
<1>9. Ranges' /\ Slab'
  BY <1>2, <1>4, <1>5, Facts, Steady
<1>10. t.buffered_send_data
         = Total(t.pending_send) + Queueing(work, k) + Flight(in_flight', chunk', k)
  <2>1. Total(t.pending_send) \in Nat
    BY <1>5, StreamFields, TotalType DEF Good
  <2>2. t.buffered_send_data = Total(t.pending_send) + Flight(in_flight', chunk', k)
          /\ Queueing(work, k) = 0
    BY <1>5, <1>6 DEF Backed
  <2> QED BY <2>1, <2>2
<1>11. conn' = "send" => in_flight' = 0
  BY <1>4, <1>5 DEF SInv, Loops
<1> QED BY <1>2, <1>4, <1>5, <1>8, <1>9, <1>10, <1>11, OneStream

\* RecvStreamWindow
LEMMA RecvStreamWindowKeeps ==
  ASSUME SInv, NEW k \in StreamId, NEW n \in Nat, RecvStreamWindow(k, n)
  PROVE  SInv'
<1> DEFINE none == <<>>
<1>1. work = none /\ conn' = "recv" /\ k \in store
  BY Facts DEF RecvStreamWindow, Reading
<1>2. /\ WindowUpdate(k, n, none, none)
      /\ UNCHANGED <<store, ids, num_send_streams, scope, settings, next_stream_id,
                     conn_error, todo, chunk, pending_open>>
  BY DEF RecvStreamWindow, slab, settings, peer
<1> HIDE DEF none
<1>3. /\ pending_send \in Seq(store) /\ pending_capacity \in Seq(store)
      /\ flow \in FlowControl /\ in_flight \in 0 .. Dropped /\ task \in BOOLEAN
      /\ streams \in [StreamId -> Stream] /\ Good(streams[k], scope)
  BY Facts
<1>4. /\ pending_send' \in Seq(store) /\ pending_capacity' \in Seq(store)
      /\ task' \in BOOLEAN /\ in_flight' \in 0 .. Dropped
      /\ \A j \in StreamId : j # k =>
           Flight(in_flight', chunk, j) = Flight(in_flight, chunk, j)
      /\ \/ work' = none \/ work' = AssignStep \o none
         \/ work' = <<>> \o none
      /\ \E t : /\ streams' = [streams EXCEPT ![k] = t]
                /\ Good(t, scope) /\ t.is_counted = streams[k].is_counted
                /\ t.ref_count = streams[k].ref_count
                /\ Moves(streams[k], t, flow, flow')
                /\ Backed(streams[k], k, in_flight, chunk)
                     => Backed(t, k, in_flight', chunk)
  BY <1>1, <1>2, <1>3, WindowUpdated
<1>5. PICK t : /\ streams' = [streams EXCEPT ![k] = t]
               /\ Good(t, scope) /\ t.is_counted = streams[k].is_counted
               /\ t.ref_count = streams[k].ref_count
               /\ Moves(streams[k], t, flow, flow')
               /\ Backed(streams[k], k, in_flight, chunk)
                    => Backed(t, k, in_flight', chunk)
  BY <1>4
<1>6. Follows(work', work, streams', store, scope)
  <2>1. work' = <<>> \/ work' = AssignStep
    <3>1. AssignStep \o <<>> = AssignStep /\ <<>> \o <<>> = <<>>
      BY StepFacts
    <3> QED BY <1>4, <3>1 DEF none
  <2>2. Calm(work', streams', store, scope)
    BY <2>1, CalmNone, CalmSteps
  <2> QED BY <1>1, <2>2, CalmFollows DEF none
<1>7. Ranges' /\ Slab'
  BY <1>2, <1>4, Facts, Steady
<1>8. \A j \in StreamId : j # k => Flight(in_flight', chunk', j) = Flight(in_flight, chunk, j)
  BY <1>2, <1>4
<1>9. Backed(streams[k], k, in_flight, chunk) => Backed(t, k, in_flight', chunk')
  BY <1>2, <1>5
<1>10. conn' = "send" => in_flight' = 0
  BY <1>1
<1>11. UNCHANGED <<store, scope, num_send_streams>>
  BY <1>2
<1> QED BY <1>1, <1>5, <1>6, <1>7, <1>8, <1>9, <1>10, <1>11, OneStreamBacked DEF none

\* UserReset
LEMMA UserResetKeeps ==
  ASSUME SInv, NEW k \in StreamId, UserReset(k)
  PROVE  SInv'
<1> DEFINE s == streams[k]
           r == Runs(s)
<1>1. work = <<>> /\ conn' # "send" /\ k \in store /\ s \in Stream /\ conn' = conn
  BY HeldFacts DEF UserReset
<1>2. /\ SendReset(k, r, ExpireStep(k))
      /\ UNCHANGED <<store, ids, num_send_streams, scope, settings, next_stream_id,
                     conn_error, todo, chunk, pending_open, pending_capacity>>
  BY DEF UserReset, slab, settings, peer
<1>3. /\ pending_send \in Seq(store) /\ pending_capacity \in Seq(store)
      /\ pending_open \in Seq(store)
      /\ flow \in FlowControl /\ in_flight \in 0 .. Dropped /\ task \in BOOLEAN
      /\ Good(s, scope)
  BY Facts
<1>4. Silent(s, r) /\ r \in Stream
  BY <1>1, RunsSilent DEF Silent
<1>5. Good(r, scope)
  BY <1>3, <1>4, SilentGood
<1> HIDE DEF r
<1>6. /\ pending_send' \in Seq(store) /\ task' \in BOOLEAN
      /\ in_flight' \in 0 .. Dropped
      /\ \A j \in StreamId : j # k =>
           Flight(in_flight', chunk, j) = Flight(in_flight, chunk, j)
      /\ \/ work' = ExpireStep(k) \/ work' = AssignStep \o ExpireStep(k)
         \/ work' = <<>> \o ExpireStep(k)
      /\ \E t : /\ streams' = [streams EXCEPT ![k] = t]
                /\ Good(t, scope) /\ t.is_counted = r.is_counted
                /\ t.ref_count = r.ref_count
                /\ Moves(r, t, flow, flow')
                /\ Backed(r, k, in_flight, chunk) => Backed(t, k, in_flight', chunk)
  BY <1>1, <1>2, <1>3, <1>5, ResetSent
<1>7. PICK t : /\ streams' = [streams EXCEPT ![k] = t]
               /\ Good(t, scope) /\ t.is_counted = r.is_counted
               /\ t.ref_count = r.ref_count
               /\ Moves(r, t, flow, flow')
               /\ Backed(r, k, in_flight, chunk) => Backed(t, k, in_flight', chunk)
  BY <1>6
<1>8. /\ t.is_counted = s.is_counted /\ t.ref_count = s.ref_count
      /\ Moves(s, t, flow, flow')
      /\ Backed(s, k, in_flight, chunk) => Backed(t, k, in_flight', chunk')
  BY <1>2, <1>4, <1>7 DEF Silent, Like, Moves, Backed
<1>9. Follows(work', work, streams', store, scope)
  <2>1. <<>> \o ExpireStep(k) = ExpireStep(k)
    BY CalmSteps, CalmAlone
  <2>2. Calm(work', streams', store, scope)
    <3>1. work' = ExpireStep(k) \/ work' = AssignStep \o ExpireStep(k)
      BY <1>6, <2>1, Zenon
    <3>2. /\ Calm(ExpireStep(k), streams', store, scope)
          /\ Calm(AssignStep \o ExpireStep(k), streams', store, scope)
      BY CalmSteps
    <3> QED BY <3>1, <3>2, Zenon
  <2> QED BY <1>1, <2>2, CalmFollows
<1>10. Ranges' /\ Slab'
  <2>1. pending_capacity' \in Seq(store) /\ pending_open' \in Seq(store)
    BY <1>2, <1>3
  <2> QED BY <1>2, <1>6, <2>1, Facts, Steady
<1>11. \A j \in StreamId : j # k => Flight(in_flight', chunk', j) = Flight(in_flight, chunk, j)
  BY <1>2, <1>6
<1>12. UNCHANGED <<store, scope, num_send_streams>>
  BY <1>2
<1> QED BY <1>1, <1>7, <1>8, <1>9, <1>10, <1>11, <1>12, OneStreamBacked

\* A step that is taken and waits no more, while a stream changes that stays as alive.
LEMMA TailFollows ==
  ASSUME SInv, NEW w \in {"assign", "reserve", "close"}, Doing(w),
         NEW k \in StreamId, NEW t, streams' = [streams EXCEPT ![k] = t],
         t.ref_count = streams[k].ref_count,
         w = "assign" => (FullyClosed(t) => FullyClosed(streams[k]))
  PROVE  /\ Follows(Tail(work), work, streams', store, scope)
         /\ work # <<>> /\ Sound(Head(work), streams, store, scope)
<1>1. work # <<>> /\ Head(work).do = w /\ WorkOK(work, streams, store, scope)
  BY Facts DEF Doing
<1>2. /\ Follows(Tail(work), work, streams, store, scope)
      /\ Sound(Head(work), streams, store, scope)
      /\ w # "assign" => Free(Tail(work), {"schedule"})
  BY <1>1, CallTaken
<1>3. \A j \in store : streams[j].ref_count > 0 => j \in store /\ streams'[j].ref_count > 0
  BY Facts
<1>4. WorkOK(Tail(work), streams, store, scope)
  BY <1>2 DEF Follows
<1>5. ASSUME NEW i \in 1 .. Len(Tail(work)), Tail(work)[i].do = "schedule"
      PROVE  /\ Tail(work)[i].k \in store
             /\ FullyClosed(streams'[Tail(work)[i].k])
                  => FullyClosed(streams[Tail(work)[i].k])
  <2> DEFINE j == Tail(work)[i].k
  <2>1. w = "assign"
    BY <1>2, <1>5 DEF Free
  <2>2. j \in store /\ j \in StreamId
    BY <1>4, <1>5, Facts DEF WorkOK, Sound
  <2> HIDE DEF j
  <2>3. CASE j = k
    <3>1. streams'[j] = t
      BY <2>3, Facts
    <3> QED BY <2>1, <2>2, <2>3, <3>1 DEF j
  <2>4. CASE j # k
    <3>1. streams'[j] = streams[j]
      BY <2>2, <2>4, Facts
    <3> QED BY <2>2, <3>1 DEF j
  <2> QED BY <2>3, <2>4
<1>6. WorkOK(Tail(work), streams', store, scope)
  BY <1>3, <1>4, <1>5, WorkStays
<1>7. Follows(Tail(work), work, streams', store, scope)
  BY <1>2, <1>6, FollowsStays
<1> QED BY <1>1, <1>2, <1>7

\* Assign
LEMMA AssignKeeps ==
  ASSUME SInv, Assign
  PROVE  SInv'
<1>0. UNCHANGED <<store, ids, num_send_streams, scope, settings, next_stream_id,
                  conn_error, todo, task, chunk, codec, pending_open, conn, in_flight>>
  BY DEF Assign, slab, settings, peer, codec
<1>1. conn' = "send" => in_flight = 0
  BY <1>0 DEF SInv, Loops
<1>2. /\ pending_send \in Seq(store) /\ pending_capacity \in Seq(store)
      /\ flow \in FlowControl /\ streams \in [StreamId -> Stream]
      /\ store \subseteq StreamId
  BY Facts
<1>3. CASE flow.available > 0 /\ pending_capacity # <<>>
  <2> DEFINE k == Head(pending_capacity)
             capacity == Tail(pending_capacity)
  <2>1. k \in store /\ capacity \in Seq(store)
    BY <1>2, <1>3, QueueMoves
  <2>2. CASE Wants(streams[k])
    <3>1. TryAssign(streams, capacity, k) /\ work' = AfterAssign(k) \o Tail(work)
      BY <1>3, <2>2 DEF Assign
    <3> HIDE DEF k, capacity
    <3>2. k \in StreamId /\ Good(streams[k], scope)
      BY <1>2, <2>1, Facts
    <3>3. /\ pending_send' \in Seq(store) /\ pending_capacity' \in Seq(store)
          /\ \E t : /\ streams' = [streams EXCEPT ![k] = t]
                    /\ Good(t, scope) /\ Like(streams[k], t)
                    /\ Moves(streams[k], t, flow, flow')
      BY <1>2, <2>1, <3>1, <3>2, TryAssigned
    <3>4. PICK t : /\ streams' = [streams EXCEPT ![k] = t]
                   /\ Good(t, scope) /\ Like(streams[k], t)
                   /\ Moves(streams[k], t, flow, flow')
      BY <3>3
    <3>5. /\ t.ref_count = streams[k].ref_count /\ t.is_counted = streams[k].is_counted
          /\ t.buffered_send_data = streams[k].buffered_send_data
          /\ t.pending_send = streams[k].pending_send /\ t.state = streams[k].state
      BY <3>4 DEF Like
    <3>6. ~FullyClosed(streams[k]) /\ ~FullyClosed(t)
      BY <2>2, <3>5 DEF Wants, FullyClosed, IsSendStreaming, IsClosed
    <3>7. Follows(Tail(work), work, streams', store, scope)
      BY <3>2, <3>4, <3>5, <3>6, TailFollows DEF Assign
    <3>8. Follows(AfterStep(k) \o (AssignStep \o Tail(work)), work, streams', store, scope)
      <4>1. Follows(AssignStep \o Tail(work), work, streams', store, scope)
        BY <3>7, AssignInFront
      <4>2. streams'[k] = t
        BY <1>2, <3>2, <3>4
      <4> QED BY <3>2, <3>6, <4>1, <4>2, AfterInFront
    <3>9. work' = AfterStep(k) \o (AssignStep \o Tail(work))
      <4>1. Tail(work) \in Seq(Steps)
        BY <3>7 DEF Follows, WorkOK
      <4>2. AfterStep(k) \in Seq(Steps) /\ AssignStep \in Seq(Steps)
        BY <3>2, StepSeqs
      <4>3. (AfterStep(k) \o AssignStep) \o Tail(work)
              = AfterStep(k) \o (AssignStep \o Tail(work))
        <5> DEFINE a == AfterStep(k)
                   b == AssignStep
                   c == Tail(work)
        <5>1. a \in Seq(Steps) /\ b \in Seq(Steps) /\ c \in Seq(Steps)
          BY <4>1, <4>2
        <5> HIDE DEF a, b, c
        <5>2. (a \o b) \o c = a \o (b \o c)
          BY <5>1, ConcatAssociative
        <5> QED BY <5>2 DEF a, b, c
      <4>4. work' = (AfterStep(k) \o AssignStep) \o Tail(work)
        BY <3>1 DEF AfterAssign
      <4> QED BY <4>3, <4>4, Zenon
    <3>10. Ranges' /\ Slab'
      BY <1>0, <3>3, Facts, Steady
    <3>11. Follows(work', work, streams', store, scope)
      BY <3>8, <3>9
    <3> QED BY <1>0, <2>1, <3>2, <3>4, <3>5, <3>10, <3>11, OneStreamSame
  <2>3. CASE ~Wants(streams[k])
    <3>1. pending_capacity' = capacity /\ UNCHANGED <<streams, flow, pending_send, work>>
      BY <1>3, <2>3 DEF Assign
    <3> HIDE DEF k, capacity
    <3>2. Ranges' /\ Slab'
      BY <1>0, <2>1, <3>1, Facts, Steady
    <3>3. Follows(work', work, streams, store, scope)
      <4>1. Free(work, {"grow"})
        <5>1. /\ work = <<Head(work)>> \o Tail(work) /\ Head(work) \in Steps
              /\ Tail(work) \in Seq(Steps)
          BY Facts, WorkTaken DEF Assign, Doing, WorkOK
        <5>2. Free(Tail(work), {"grow"})
          BY Facts, CallTaken DEF Assign, Doing, Follows
        <5>3. Free(<<Head(work)>> \o Tail(work), {"grow"})
          BY <5>1, <5>2, FreeInFront DEF Assign, Doing
        <5> QED BY <5>1, <5>3
      <4> QED BY <3>1, <4>1, Facts DEF Follows
    <3> QED BY <1>0, <1>1, <3>1, <3>2, <3>3, Quiet
  <2> QED BY <2>2, <2>3
<1>4. CASE ~(flow.available > 0 /\ pending_capacity # <<>>)
  <2>1. work' = Tail(work) /\ UNCHANGED <<streams, flow, pending_send, pending_capacity>>
    BY <1>4 DEF Assign
  <2>2. Follows(work', work, streams, store, scope)
    BY <2>1, Facts, CallTaken DEF Assign, Doing
  <2>3. Ranges' /\ Slab'
    BY <1>0, <1>2, <2>1, Facts, Steady
  <2> QED BY <1>0, <1>1, <2>1, <2>2, <2>3, Quiet
<1> QED BY <1>3, <1>4

\* reserve_capacity as a step: of the stream, or of what the end of the stream makes of it.
LEMMA ReserveStepKeeps ==
  ASSUME SInv, NEW w \in {"reserve", "close"}, Doing(w),
         NEW k \in StreamId, k \in store, NEW s, Good(s, scope), NEW n \in Nat,
         Uses(scope) /\ Unreserved(scope) => n = 0, Reserve(k, s, n),
         s.is_counted = streams[k].is_counted, s.ref_count = streams[k].ref_count,
         s.send_flow = streams[k].send_flow, s.pending_send = streams[k].pending_send,
         s.buffered_send_data = streams[k].buffered_send_data,
         UNCHANGED <<pending_open, slab, settings, next_stream_id, peer, codec,
                     task, conn, todo, history>>
  PROVE  SInv'
<1>1. UNCHANGED <<store, ids, num_send_streams, scope, settings, next_stream_id,
                  conn_error, todo, task, chunk, codec, pending_open, conn, in_flight>>
  BY DEF slab, settings, peer, codec
<1>2. /\ pending_send \in Seq(store) /\ pending_capacity \in Seq(store)
      /\ flow \in FlowControl /\ streams \in [StreamId -> Stream]
  BY Facts
<1>3. /\ pending_send' \in Seq(store) /\ pending_capacity' \in Seq(store)
      /\ \/ work' = Tail(work) \/ work' = AssignStep \o Tail(work)
         \/ work' = <<>> \o Tail(work)
      /\ \E t : /\ streams' = [streams EXCEPT ![k] = t]
                /\ Good(t, scope) /\ Same(s, t) /\ Moves(s, t, flow, flow')
  BY <1>2, CapacityReserved
<1>4. PICK t : /\ streams' = [streams EXCEPT ![k] = t]
               /\ Good(t, scope) /\ Same(s, t) /\ Moves(s, t, flow, flow')
  BY <1>3
<1>5. /\ t.ref_count = streams[k].ref_count /\ t.is_counted = streams[k].is_counted
      /\ t.buffered_send_data = streams[k].buffered_send_data
      /\ t.pending_send = streams[k].pending_send
      /\ Moves(streams[k], t, flow, flow')
  BY <1>4 DEF Same, Moves
<1>6. Follows(Tail(work), work, streams', store, scope)
  <2>1. w \in {"assign", "reserve", "close"} /\ w # "assign"
    OBVIOUS
  <2> QED BY <1>4, <1>5, <2>1, TailFollows
<1>7. Follows(work', work, streams', store, scope)
  <2>1. /\ Follows(AssignStep \o Tail(work), work, streams', store, scope)
        /\ Follows(<<>> \o Tail(work), work, streams', store, scope)
    BY <1>6, AssignInFront
  <2> QED BY <1>3, <1>6, <2>1, Zenon
<1>8. Ranges' /\ Slab'
  BY <1>1, <1>3, Facts, Steady
<1> QED BY <1>1, <1>4, <1>5, <1>7, <1>8, OneStreamSame

\* ReserveNow
LEMMA ReserveNowKeeps ==
  ASSUME SInv, ReserveNow
  PROVE  SInv'
<1> DEFINE k == Head(work).k
           n == Head(work).arg
<1>1. Doing("reserve") /\ Sound(Head(work), streams, store, scope)
  BY Facts, CallTaken DEF ReserveNow, Doing
<1>2. /\ k \in store /\ n \in Nat /\ (Uses(scope) /\ Unreserved(scope) => n = 0)
  BY <1>1 DEF Doing, Sound
<1>3. /\ Reserve(k, streams[k], n)
      /\ UNCHANGED <<pending_open, slab, settings, next_stream_id, peer, codec,
                     task, conn, todo, history>>
  BY DEF ReserveNow
<1>4. k \in StreamId /\ Good(streams[k], scope)
  BY <1>2, Facts
<1> HIDE DEF k, n
<1> QED BY <1>1, <1>2, <1>3, <1>4, ReserveStepKeeps

\* Close
LEMMA CloseKeeps ==
  ASSUME SInv, Close
  PROVE  SInv'
<1> DEFINE k == Head(work).k
           s == [streams[k] EXCEPT !.state = SendClose(streams[k].state)]
<1>1. Doing("close") /\ Sound(Head(work), streams, store, scope)
  BY Facts, CallTaken DEF Close, Doing
<1>2. k \in store
  BY <1>1 DEF Doing, Sound
<1>3. /\ Reserve(k, s, 0)
      /\ UNCHANGED <<pending_open, slab, settings, next_stream_id, peer, codec,
                     task, conn, todo, history>>
  BY DEF Close
<1>4. k \in StreamId /\ Good(streams[k], scope) /\ streams[k] \in Stream
  BY <1>2, Facts
<1> HIDE DEF k
<1>5. SendClose(streams[k].state) \in State
  BY <1>4, StreamFields, StatesFollow
<1>6. /\ s \in Stream
      /\ s.is_counted = streams[k].is_counted /\ s.ref_count = streams[k].ref_count
      /\ s.send_flow = streams[k].send_flow /\ s.pending_send = streams[k].pending_send
      /\ s.requested_send_capacity = streams[k].requested_send_capacity
      /\ s.buffered_send_data = streams[k].buffered_send_data
  BY <1>4, <1>5, WithState
<1> HIDE DEF s
<1>7. Good(s, scope)
  <2>1. s.pending_send \in Seq(Sent)
    BY <1>4, <1>6 DEF Good
  <2> QED BY <1>4, <1>6, <2>1, GoodKept
<1> QED BY <1>1, <1>2, <1>3, <1>4, <1>6, <1>7, ReserveStepKeeps

-----------------------------------------------------------------------------
(* The actions that move frames.                                             *)

\* A queue with a frame more.
LEMMA AppendIn ==
  ASSUME NEW S, NEW q \in Seq(S), NEW x \in S
  PROVE  Append(q, x) \in Seq(S)
OBVIOUS

\* The record whose frames are replaced.
LEMMA WithFrames ==
  ASSUME NEW s, NEW sc, Good(s, sc), NEW q \in Seq(Sent)
  PROVE  LET t == [s EXCEPT !.pending_send = q]
         IN /\ t \in Stream /\ Good(t, sc) /\ t.pending_send = q
            /\ t.state = s.state /\ t.is_pending_reset = s.is_pending_reset
            /\ t.is_counted = s.is_counted /\ t.ref_count = s.ref_count
            /\ t.send_flow = s.send_flow
            /\ t.requested_send_capacity = s.requested_send_capacity
            /\ t.buffered_send_data = s.buffered_send_data
<1> DEFINE t == [s EXCEPT !.pending_send = q]
<1>1. s \in Stream /\ q \in Seq(Frame)
  BY SentFrames DEF Good
<1>2. t \in Stream /\ t.pending_send = q
  BY <1>1 DEF Stream
<1>3. /\ t.state = s.state /\ t.is_pending_reset = s.is_pending_reset
      /\ t.is_counted = s.is_counted /\ t.ref_count = s.ref_count
      /\ t.send_flow = s.send_flow
      /\ t.requested_send_capacity = s.requested_send_capacity
      /\ t.buffered_send_data = s.buffered_send_data
  BY <1>1 DEF Stream
<1> HIDE DEF t
<1>4. Good(t, sc)
  BY <1>2, <1>3, GoodKept
<1> QED BY <1>2, <1>3, <1>4 DEF t

\* Steps that queue nothing.
LEMMA QueueingFree ==
  ASSUME NEW w, Len(w) \in Nat, w \in Seq(Steps), Free(w, {"queue"})
  PROVE  \A k : Queueing(w, k) = 0
<1>1. \A k : {i \in DOMAIN w : w[i].do = "queue" /\ w[i].k = k} = {}
  <2>1. DOMAIN w = 1 .. Len(w)
    OBVIOUS
  <2> QED BY <2>1 DEF Free
<1> QED BY <1>1 DEF Queueing

\* Queue takes its step: what was about to be queued is queued.
LEMMA QueueTaken ==
  ASSUME SInv, Doing("queue")
  PROVE  /\ Head(work).k \in store /\ Head(work).k \in StreamId
         /\ Head(work).frame \in Sent /\ Head(work).frame \in Frame
         /\ WorkOK(Tail(work), streams, store, scope)
         /\ Free(Tail(work), {"grow"}) /\ Free(Tail(work), {"schedule"})
         /\ \A j : Queueing(Tail(work), j) = 0
         /\ Queueing(work, Head(work).k) = Head(work).frame.size
         /\ \A j : j # Head(work).k => Queueing(work, j) = 0
<1>1. work # <<>> /\ Head(work).do = "queue" /\ WorkOK(work, streams, store, scope)
  BY Facts DEF Doing
<1>2. /\ Head(work) \in Steps /\ Sound(Head(work), streams, store, scope)
      /\ WorkOK(Tail(work), streams, store, scope)
      /\ LeadsAll(Head(work), Tail(work), streams)
      /\ work = <<Head(work)>> \o Tail(work)
  BY <1>1, WorkTaken
<1>3. Head(work).k \in store /\ Head(work).k \in StreamId
  BY <1>1, <1>2, Facts DEF Sound
<1>4. Head(work).frame \in Sent /\ Head(work).frame \in Frame
  BY <1>2 DEF Steps, Sent
<1>5. Tail(work) \in Seq(Steps) /\ Len(Tail(work)) \in Nat
  BY <1>2 DEF WorkOK
<1>6. \A i \in 1 .. Len(Tail(work)) : Tail(work)[i].do = "after"
  BY <1>1, <1>2 DEF LeadsAll, Leads
<1>7. /\ Free(Tail(work), {"grow"}) /\ Free(Tail(work), {"schedule"})
      /\ Free(Tail(work), {"queue"})
  BY <1>6 DEF Free
<1>8. \A j : Queueing(Tail(work), j) = 0
  BY <1>5, <1>7, QueueingFree
<1>9. \A j : Queueing(work, j) = IF Queues(Head(work), j) THEN Head(work).frame.size
                                                         ELSE Queueing(Tail(work), j)
  <2> DEFINE x == Head(work)
             r == Tail(work)
  <2>1. x \in Steps /\ r \in Seq(Steps) /\ WorkOK(<<x>> \o r, streams, store, scope)
    BY <1>1, <1>2, <1>5
  <2>2. work = <<x>> \o r
    BY <1>2
  <2> HIDE DEF x, r
  <2>3. \A j : Queueing(<<x>> \o r, j)
                 = IF Queues(x, j) THEN x.frame.size ELSE Queueing(r, j)
    BY <2>1, QueueingInFront
  <2> QED BY <2>2, <2>3 DEF x, r
<1> QED BY <1>1, <1>2, <1>3, <1>4, <1>7, <1>8, <1>9 DEF Queues

\* Queue
LEMMA QueueKeeps ==
  ASSUME SInv, Queue
  PROVE  SInv'
<1> DEFINE k == Head(work).k
           f == Head(work).frame
           s == streams[k]
           v == Tail(work)
           t == [s EXCEPT !.pending_send = Append(s.pending_send, f)]
<1>1. /\ k \in store /\ k \in StreamId /\ f \in Sent /\ f \in Frame
      /\ WorkOK(v, streams, store, scope)
      /\ Free(v, {"grow"}) /\ Free(v, {"schedule"})
      /\ \A j : Queueing(v, j) = 0
      /\ Queueing(work, k) = f.size
      /\ \A j : j # k => Queueing(work, j) = 0
  BY QueueTaken DEF Queue
<1>2. /\ streams' = [streams EXCEPT ![k] = t]
      /\ IF Schedules(t) THEN ScheduleSend(t, k) ELSE UNCHANGED <<pending_send, task>>
      /\ work' = v
      /\ UNCHANGED <<store, ids, num_send_streams, scope, settings, next_stream_id,
                     conn_error, todo, chunk, in_flight, flow, conn,
                     pending_capacity, pending_open>>
  BY DEF Queue, slab, settings, peer, codec
<1>3. Good(s, scope) /\ s \in Stream /\ flow \in FlowControl
  BY <1>1, Facts
<1> HIDE DEF k, f, s, v
<1>4. Append(s.pending_send, f) \in Seq(Sent) /\ s.pending_send \in Seq(Frame)
  BY <1>1, <1>3, SentFrames DEF Good
<1>5. /\ Good(t, scope) /\ t.pending_send = Append(s.pending_send, f)
      /\ t.is_counted = s.is_counted /\ t.ref_count = s.ref_count
      /\ t.send_flow = s.send_flow /\ t.buffered_send_data = s.buffered_send_data
  BY <1>3, <1>4, WithFrames
<1> HIDE DEF t
<1>6. Moves(s, t, flow, flow')
  BY <1>2, <1>3, <1>5, StillMoves
<1>7. t.buffered_send_data
        = Total(t.pending_send) + Queueing(v, k) + Flight(in_flight', chunk', k)
  <2>1. s.buffered_send_data
          = Total(s.pending_send) + Queueing(work, k) + Flight(in_flight, chunk, k)
    <3>1. Buffered(streams, work, in_flight, chunk)
      BY Facts
    <3> QED BY <1>1, <3>1 DEF Buffered, s
  <2>2. Total(t.pending_send) = Total(s.pending_send) + f.size
    BY <1>1, <1>4, <1>5, TotalAppend
  <2>3. Total(s.pending_send) \in Nat /\ f.size \in Nat
    BY <1>1, <1>4, TotalType DEF Frame
  <2>4. Flight(in_flight, chunk, k) \in Nat
    BY Facts DEF Flight
  <2>5. Flight(in_flight', chunk', k) = Flight(in_flight, chunk, k)
    BY <1>2
  <2>6. Queueing(v, k) = 0 /\ Queueing(work, k) = f.size
    BY <1>1
  <2> QED BY <1>5, <2>1, <2>2, <2>3, <2>4, <2>5, <2>6
<1>8. Follows(work', v, streams', store, scope)
  <2>1. \A j \in store : streams[j].ref_count > 0 => j \in store /\ streams'[j].ref_count > 0
    BY <1>1, <1>2, <1>5, Facts DEF s
  <2>2. \A i \in 1 .. Len(v) : v[i].do # "schedule"
    BY <1>1 DEF Free
  <2>3. WorkOK(v, streams', store, scope)
    BY <1>1, <2>1, <2>2, WorkStaysEasily
  <2> QED BY <1>1, <1>2, <2>3 DEF Follows
<1>9. pending_send' \in Seq(store) /\ task' \in BOOLEAN
  <2>1. pending_send \in Seq(store) /\ task \in BOOLEAN
    BY Facts
  <2>2. CASE Schedules(t)
    <3>1. ScheduleSend(t, k)
      BY <1>2, <2>2
    <3> QED BY <1>1, <2>1, <3>1, Scheduled
  <2>3. CASE ~Schedules(t)
    BY <1>2, <2>1, <2>3
  <2> QED BY <2>2, <2>3
<1>10. Ranges' /\ Slab'
  BY <1>2, <1>9, Facts, Steady
<1>11. \A j \in StreamId : j # k =>
         /\ Queueing(v, j) = Queueing(work, j)
         /\ Flight(in_flight', chunk', j) = Flight(in_flight, chunk, j)
  BY <1>1, <1>2
<1>12. conn' = "send" => in_flight' = 0
  BY <1>2 DEF SInv, Loops
<1>13. UNCHANGED <<store, scope, num_send_streams>>
  BY <1>2
<1>14. k \in StreamId /\ k \in store /\ streams' = [streams EXCEPT ![k] = t]
  BY <1>1, <1>2
<1>15. Good(t, scope) /\ t.is_counted = s.is_counted /\ t.ref_count = s.ref_count
  BY <1>5
<1> QED BY <1>6, <1>7, <1>8, <1>10, <1>11, <1>12, <1>13, <1>14, <1>15, OneStream DEF s

\* PopOther: frames without data leave.
LEMMA PopOtherKeeps ==
  ASSUME SInv, NEW k \in StreamId, PopOther(k)
  PROVE  SInv'
<1> DEFINE s == streams[k]
           t == [s EXCEPT !.pending_send = Tail(s.pending_send)]
<1>1. work = <<>> /\ conn' = "write" /\ k \in store /\ Tail(pending_send) \in Seq(store)
  BY TurnFacts DEF PopOther
<1>2. /\ s.pending_send # <<>> /\ Head(s.pending_send).type \in {"headers", "rst"}
      /\ streams' = [streams EXCEPT ![k] = t]
      /\ pending_send' = Requeued(t, k, Tail(pending_send))
      /\ work' = AfterStep(k)
      /\ UNCHANGED <<store, ids, num_send_streams, scope, settings, next_stream_id,
                     conn_error, todo, task, chunk, in_flight, flow,
                     pending_capacity, pending_open>>
  BY DEF PopOther, slab, settings, peer, codec, First
<1>3. Good(s, scope) /\ s \in Stream /\ flow \in FlowControl
  BY Facts
<1> HIDE DEF s
<1>4. s.pending_send \in Seq(Sent) /\ s.pending_send \in Seq(Frame)
  BY <1>3, SentFrames DEF Good
<1>5. Tail(s.pending_send) \in Seq(Sent) /\ Head(s.pending_send) \in Sent
  BY <1>2, <1>4, HeadAndTail
<1>6. /\ Good(t, scope) /\ t.pending_send = Tail(s.pending_send)
      /\ t.is_counted = s.is_counted /\ t.ref_count = s.ref_count
      /\ t.send_flow = s.send_flow /\ t.buffered_send_data = s.buffered_send_data
  BY <1>3, <1>5, WithFrames
<1> HIDE DEF t
<1>7. Moves(s, t, flow, flow')
  BY <1>2, <1>3, <1>6, StillMoves
<1>8. Backed(s, k, in_flight, chunk) => Backed(t, k, in_flight', chunk')
  <2>1. Head(s.pending_send).size = 0
    BY <1>2, <1>5 DEF Sent
  <2>2. Total(s.pending_send) = Head(s.pending_send).size + Total(Tail(s.pending_send))
    BY <1>2, <1>4, TotalOfTail
  <2>3. Total(Tail(s.pending_send)) \in Nat
    BY <1>5, SentFrames, TotalType
  <2>4. Total(t.pending_send) = Total(s.pending_send)
    BY <1>6, <2>1, <2>2, <2>3
  <2> QED BY <1>2, <1>6, <2>4 DEF Backed
<1>9. Follows(work', work, streams', store, scope)
  BY <1>1, <1>2, CalmSteps, CalmFollows
<1>10. pending_send' \in Seq(store)
  BY <1>1, <1>2, QueueMoves DEF Requeued
<1>11. Ranges' /\ Slab'
  BY <1>2, <1>10, Facts, Steady
<1>12. \A j \in StreamId : j # k => Flight(in_flight', chunk', j) = Flight(in_flight, chunk, j)
  BY <1>2
<1>13. conn' = "send" => in_flight' = 0
  BY <1>1
<1>14. UNCHANGED <<store, scope, num_send_streams>>
  BY <1>2
<1> QED BY <1>1, <1>2, <1>6, <1>7, <1>8, <1>9, <1>11, <1>12, <1>13, <1>14,
           OneStreamBacked DEF s

\* SendTrailers
LEMMA SendTrailersKeeps ==
  ASSUME SInv, NEW k \in StreamId, SendTrailers(k)
  PROVE  SInv'
<1> DEFINE s == streams[k]
           r == Runs(s)
           u == [r EXCEPT !.state = SendClose(r.state)]
           q == Append(r.pending_send, HeadersFrame(TRUE))
           t == [u EXCEPT !.pending_send = q]
<1>1. work = <<>> /\ conn' # "send" /\ conn' = conn /\ k \in store /\ s \in Stream
        /\ s.ref_count = 1
  BY HeldFacts DEF SendTrailers
<1>2. /\ streams' = [streams EXCEPT ![k] = t]
      /\ ScheduleSend(t, k)
      /\ work' = ReserveStep(k, 0) \o AfterStep(k)
      /\ UNCHANGED <<store, ids, num_send_streams, scope, settings, next_stream_id,
                     conn_error, todo, chunk, in_flight, flow,
                     pending_capacity, pending_open>>
  <2>1. [r EXCEPT !.state = SendClose(@), !.pending_send = Append(@, HeadersFrame(TRUE))] = t
    OBVIOUS
  <2> QED BY <2>1 DEF SendTrailers, slab, settings, peer, codec
<1>3. Good(s, scope) /\ flow \in FlowControl
  BY Facts
<1>4. Silent(s, r) /\ r \in Stream
  BY <1>1, RunsSilent DEF Silent
<1>5. Good(r, scope)
  BY <1>3, <1>4, SilentGood
<1> HIDE DEF r, s
<1>6. r.state \in State
  BY <1>4, StreamFields
<1>7. SendClose(r.state) \in State
  BY <1>6, StatesFollow
<1>8. /\ u \in Stream
      /\ u.is_counted = r.is_counted /\ u.ref_count = r.ref_count
      /\ u.send_flow = r.send_flow /\ u.pending_send = r.pending_send
      /\ u.requested_send_capacity = r.requested_send_capacity
      /\ u.buffered_send_data = r.buffered_send_data
  BY <1>4, <1>7, WithState
<1> HIDE DEF u
<1>9. Good(u, scope) /\ r.pending_send \in Seq(Sent) /\ r.pending_send \in Seq(Frame)
  <2>1. u.pending_send \in Seq(Sent) /\ r.pending_send \in Seq(Frame)
    BY <1>5, <1>8, SentFrames DEF Good
  <2> QED BY <1>5, <1>8, <2>1, GoodKept
<1>10. HeadersFrame(TRUE) \in Sent /\ HeadersFrame(TRUE) \in Frame /\ HeadersFrame(TRUE).size = 0
  BY StreamIds DEF HeadersFrame, Sent, Frame
<1>11. q \in Seq(Sent)
  BY <1>9, <1>10, AppendIn
<1>12. /\ Good(t, scope) /\ t.pending_send = q
       /\ t.is_counted = u.is_counted /\ t.ref_count = u.ref_count
       /\ t.send_flow = u.send_flow /\ t.buffered_send_data = u.buffered_send_data
  BY <1>9, <1>11, WithFrames
<1> HIDE DEF t
<1>13. /\ t.is_counted = s.is_counted /\ t.ref_count = s.ref_count
       /\ t.send_flow = s.send_flow /\ t.buffered_send_data = s.buffered_send_data
       /\ r.pending_send = s.pending_send
  BY <1>4, <1>8, <1>12 DEF Silent, Like
<1>14. Moves(s, t, flow, flow')
  BY <1>1, <1>2, <1>3, <1>13, StillMoves
<1>15. Backed(s, k, in_flight, chunk) => Backed(t, k, in_flight', chunk')
  <2>1. Total(t.pending_send) = Total(s.pending_send) + 0
    BY <1>9, <1>10, <1>12, <1>13, TotalAppend
  <2>2. Total(s.pending_send) \in Nat
    BY <1>9, <1>13, TotalType
  <2>3. Total(t.pending_send) = Total(s.pending_send)
    BY <2>1, <2>2
  <2> QED BY <1>2, <1>13, <2>3 DEF Backed
<1>16. Follows(work', work, streams', store, scope)
  <2>1. streams'[k] = t /\ t.ref_count > 0
    BY <1>1, <1>2, <1>13, Facts
  <2>2. Calm(ReserveStep(k, 0) \o AfterStep(k), streams', store, scope)
    BY <1>1, <2>1, CalmReserves
  <2> QED BY <1>1, <1>2, <2>2, CalmFollows
<1>17. pending_send' \in Seq(store) /\ task' \in BOOLEAN
  BY <1>1, <1>2, Facts, Scheduled
<1>18. Ranges' /\ Slab'
  BY <1>2, <1>17, Facts, Steady
<1>19. \A j \in StreamId : j # k => Flight(in_flight', chunk', j) = Flight(in_flight, chunk, j)
  BY <1>2
<1>20. UNCHANGED <<store, scope, num_send_streams>>
  BY <1>2
<1> QED BY <1>1, <1>2, <1>12, <1>13, <1>14, <1>15, <1>16, <1>18, <1>19, <1>20,
           OneStreamBacked DEF s

\* What send_data leaves to do: the frame is queued, after the stream was closed.
Sends(w, k, f) ==
  \/ w = (CloseStep(k) \o QueueStep(k, f)) \o AfterStep(k)
  \/ w = (<<>> \o QueueStep(k, f)) \o AfterStep(k)

\* Such a call may be taken, and queues this one frame.
LEMMA DataSteps ==
  ASSUME NEW str, NEW st, NEW sc, NEW k \in StreamId, k \in st, str[k].ref_count > 0,
         NEW f \in Sent, NEW w, Sends(w, k, f)
  PROVE  /\ Follows(w, w, str, st, sc)
         /\ Queueing(w, k) = f.size
         /\ \A j : j # k => Queueing(w, j) = 0
<1> DEFINE x == Step("queue", k, 0, f)
           c == Step("close", k, 0, ResetFrame)
           r == AfterStep(k)
           q == <<x>> \o r
<1>1. /\ x \in Steps /\ x.do = "queue" /\ x.k = k /\ x.frame = f
      /\ c \in Steps /\ c.do = "close" /\ c.k = k
  <2>1. "queue" \in Names /\ "close" \in Names /\ k \in 0 .. MaxId /\ 0 \in Int
          /\ ResetFrame \in Sent
    BY ResetFrameSent, SendAssumption DEF Names, StreamId
  <2>2. x \in Steps /\ x.do = "queue" /\ x.k = k /\ x.frame = f
    BY <2>1, StepType
  <2>3. c \in Steps /\ c.do = "close" /\ c.k = k
    BY <2>1, StepType
  <2> HIDE DEF x, c
  <2> QED BY <2>2, <2>3
<1>2. Sound(x, str, st, sc) /\ Sound(c, str, st, sc)
  BY <1>1 DEF Sound
<1>3. Calm(r, str, st, sc) /\ r \in Seq(Steps)
  BY CalmSteps, StepSeqs
<1>4. QueueStep(k, f) = <<x>> /\ CloseStep(k) = <<c>>
  BY DEF QueueStep, CloseStep
<1>5. Len(r) = 1 /\ r[1].do = "after"
  BY StepFacts DEF AfterStep
<1> HIDE DEF x, c, r
<1>6. LeadsAll(x, r, str)
  BY <1>1, <1>5 DEF LeadsAll, Leads
<1>7. WorkOK(q, str, st, sc)
  BY <1>1, <1>2, <1>3, <1>6, WorkInFront DEF Calm
<1>8. \A j : Queueing(q, j) = IF Queues(x, j) THEN x.frame.size ELSE Queueing(r, j)
  BY <1>1, <1>3, <1>7, QueueingInFront
<1>9. Queueing(q, k) = f.size /\ \A j : j # k => Queueing(q, j) = 0
  BY <1>1, <1>3, <1>8 DEF Queues, Calm
<1>10. Free(q, {"grow"})
  BY <1>1, <1>3, FreeInFront DEF Calm
<1>11. q \in Seq(Steps) /\ Len(q) = 2 /\ q[1] = x /\ q[2] = r[1]
  <2>1. /\ q \in Seq(Steps) /\ Len(q) = Len(r) + 1 /\ q[1] = x
        /\ \A i \in 1 .. Len(r) : q[i + 1] = r[i]
    BY <1>1, <1>3, InFront
  <2> HIDE DEF q
  <2>2. q[1 + 1] = r[1]
    BY <1>5, <2>1
  <2> QED BY <1>5, <2>1, <2>2
<1> HIDE DEF q
<1>12. CASE w = (<<>> \o QueueStep(k, f)) \o AfterStep(k)
  <2>1. <<>> \o <<x>> = <<x>>
    OBVIOUS
  <2>2. w = q
    BY <1>4, <1>12, <2>1 DEF q, r
  <2> QED BY <1>7, <1>9, <1>10, <2>2 DEF Follows
<1>13. CASE w = (CloseStep(k) \o QueueStep(k, f)) \o AfterStep(k)
  <2>1. w = <<c>> \o q
    <3>1. <<c>> \in Seq(Steps) /\ <<x>> \in Seq(Steps)
      BY <1>1
    <3>2. (<<c>> \o <<x>>) \o r = <<c>> \o (<<x>> \o r)
      BY <1>3, <3>1, ConcatAssociative
    <3> QED BY <1>4, <1>13, <3>2 DEF q, r
  <2>2. LeadsAll(c, q, str)
    BY <1>1, <1>5, <1>11 DEF LeadsAll, Leads
  <2>3. WorkOK(<<c>> \o q, str, st, sc)
    BY <1>1, <1>2, <1>7, <2>2, WorkInFront
  <2>4. \A j : Queueing(<<c>> \o q, j) = IF Queues(c, j) THEN c.frame.size ELSE Queueing(q, j)
    BY <1>1, <1>11, <2>3, QueueingInFront
  <2>5. Free(<<c>> \o q, {"grow"})
    BY <1>1, <1>10, <1>11, FreeInFront
  <2>6. \A j : Queueing(w, j) = Queueing(q, j)
    BY <1>1, <2>1, <2>4 DEF Queues
  <2> QED BY <1>9, <2>1, <2>3, <2>5, <2>6 DEF Follows
<1> QED BY <1>12, <1>13 DEF Sends

\* A stream that has more buffered, and requests capacity for it.
LEMMA Requested ==
  ASSUME NEW s, NEW sc, Good(s, sc), NEW sz \in Nat
  PROVE  LET r == [s EXCEPT !.buffered_send_data = s.buffered_send_data + sz]
             t == Requests(r)
         IN /\ t \in Stream /\ Good(t, sc)
            /\ t.buffered_send_data = s.buffered_send_data + sz
            /\ t.pending_send = s.pending_send
            /\ t.is_counted = s.is_counted /\ t.ref_count = s.ref_count
            /\ t.send_flow = s.send_flow
<1> DEFINE b == s.buffered_send_data
           r == [s EXCEPT !.buffered_send_data = b + sz]
           t == Requests(r)
<1>1. s \in Stream /\ s.pending_send \in Seq(Sent)
  BY DEF Good
<1>2. b \in Nat /\ s.requested_send_capacity \in Nat
        /\ s.send_flow.available \in Int /\ s.send_flow.window_size \in Int
  BY <1>1, StreamFields
<1>3. /\ r \in Stream /\ r.buffered_send_data = b + sz
      /\ r.requested_send_capacity = s.requested_send_capacity
      /\ r.pending_send = s.pending_send
      /\ r.is_counted = s.is_counted /\ r.ref_count = s.ref_count
      /\ r.send_flow = s.send_flow
  BY <1>1, <1>2 DEF Stream
<1> HIDE DEF r
<1>4. /\ t \in Stream /\ t.buffered_send_data = b + sz
      /\ t.requested_send_capacity = IF s.requested_send_capacity < b + sz
                                     THEN b + sz ELSE s.requested_send_capacity
      /\ t.pending_send = s.pending_send
      /\ t.is_counted = s.is_counted /\ t.ref_count = s.ref_count
      /\ t.send_flow = s.send_flow
  <2>1. CASE s.requested_send_capacity < b + sz
    <3>1. t = [r EXCEPT !.requested_send_capacity = b + sz]
      BY <1>3, <2>1 DEF Requests
    <3> QED BY <1>2, <1>3, <2>1, <3>1 DEF Stream
  <2>2. CASE ~(s.requested_send_capacity < b + sz)
    <3>1. t = r
      BY <1>3, <2>2 DEF Requests
    <3> QED BY <1>3, <2>2, <3>1
  <2> QED BY <2>1, <2>2
<1> HIDE DEF t
<1>5. /\ s.send_flow.available <= s.requested_send_capacity
      /\ s.send_flow.available <= AsSize(s.send_flow.window_size)
      /\ b <= s.requested_send_capacity
      /\ Unreserved(sc) =>
           /\ 0 <= s.send_flow.available
           /\ Uses(sc) => s.requested_send_capacity = b
  BY DEF Good
<1> HIDE DEF b
<1>6. /\ t.send_flow.available <= t.requested_send_capacity
      /\ t.buffered_send_data <= t.requested_send_capacity
      /\ Unreserved(sc) /\ Uses(sc) => t.requested_send_capacity = t.buffered_send_data
  BY <1>2, <1>4, <1>5
<1>7. /\ t.send_flow.available <= AsSize(t.send_flow.window_size)
      /\ Unreserved(sc) => 0 <= t.send_flow.available
  BY <1>4, <1>5
<1>8. Good(t, sc)
  BY <1>1, <1>4, <1>6, <1>7 DEF Good
<1> QED BY <1>4, <1>8 DEF t, r, b

\* SendDataFrame
LEMMA SendDataFrameKeeps ==
  ASSUME SInv, NEW k \in StreamId, NEW sz \in Nat, NEW eos \in BOOLEAN,
         SendDataFrame(k, sz, eos)
  PROVE  SInv'
<1> DEFINE s == streams[k]
           r == Runs(s)
           b == [r EXCEPT !.buffered_send_data = r.buffered_send_data + sz]
           u == Requests(b)
           str == [streams EXCEPT ![k] = u]
           f == DataFrame(sz, eos)
<1>1. work = <<>> /\ conn' # "send" /\ conn' = conn /\ k \in store /\ s \in Stream
        /\ s.ref_count = 1
  BY HeldFacts DEF SendDataFrame
<1>2. /\ \/ TryAssign(str, pending_capacity, k)
         \/ streams' = str /\ UNCHANGED <<flow, pending_send, pending_capacity>>
      /\ work' = ((IF eos THEN CloseStep(k) ELSE <<>>) \o QueueStep(k, f)) \o AfterStep(k)
      /\ UNCHANGED <<store, ids, num_send_streams, scope, settings, next_stream_id,
                     conn_error, todo, task, chunk, in_flight, pending_open>>
  BY DEF SendDataFrame, slab, settings, peer, codec
<1>3. Good(s, scope) /\ flow \in FlowControl /\ streams \in [StreamId -> Stream]
        /\ pending_send \in Seq(store) /\ pending_capacity \in Seq(store)
  BY Facts
<1>4. Silent(s, r) /\ r \in Stream
  BY <1>1, RunsSilent DEF Silent
<1>5. Good(r, scope)
  BY <1>3, <1>4, SilentGood
<1> HIDE DEF r, s
<1>6. /\ u \in Stream /\ Good(u, scope)
      /\ u.buffered_send_data = r.buffered_send_data + sz
      /\ u.pending_send = r.pending_send
      /\ u.is_counted = r.is_counted /\ u.ref_count = r.ref_count
      /\ u.send_flow = r.send_flow
  BY <1>5, Requested
<1>7. f \in Sent /\ f.size = sz
  <2>1. 0 \in 0 .. MaxId
    BY StreamIds
  <2> QED BY <2>1 DEF DataFrame, Sent, Frame
<1> HIDE DEF u, b, f
<1>8. str \in [StreamId -> Stream] /\ str[k] = u
  BY <1>3, <1>6
<1>9. pending_send' \in Seq(store) /\ pending_capacity' \in Seq(store)
      /\ \E t : /\ streams' = [str EXCEPT ![k] = t]
                /\ Good(t, scope) /\ Like(u, t) /\ Moves(u, t, flow, flow')
  <2> HIDE DEF str
  <2>1. CASE TryAssign(str, pending_capacity, k)
    <3>1. Good(str[k], scope)
      BY <1>6, <1>8
    <3>2. /\ pending_send' \in Seq(store) /\ pending_capacity' \in Seq(store)
          /\ \E t : /\ streams' = [str EXCEPT ![k] = t]
                    /\ Good(t, scope) /\ Like(str[k], t)
                    /\ Moves(str[k], t, flow, flow')
      BY <1>1, <1>3, <1>8, <2>1, <3>1, TryAssigned
    <3> QED BY <1>8, <3>2
  <2>2. CASE streams' = str /\ UNCHANGED <<flow, pending_send, pending_capacity>>
    <3>1. str = [str EXCEPT ![k] = u]
      BY <1>8
    <3>2. Moves(u, u, flow, flow')
      BY <1>3, <1>6, <2>2, StillMoves
    <3>3. Like(u, u)
      BY DEF Like
    <3> QED BY <1>3, <1>6, <2>2, <3>1, <3>2, <3>3
  <2> QED BY <1>2, <2>1, <2>2
<1>10. PICK t : /\ streams' = [str EXCEPT ![k] = t]
                /\ Good(t, scope) /\ Like(u, t) /\ Moves(u, t, flow, flow')
  BY <1>9
<1>11. streams' = [streams EXCEPT ![k] = t]
  BY <1>3, <1>10
<1> HIDE DEF str
<1>12. /\ t.is_counted = s.is_counted /\ t.ref_count = s.ref_count
       /\ Moves(s, t, flow, flow')
       /\ t.buffered_send_data = s.buffered_send_data + sz
       /\ t.pending_send = s.pending_send
  BY <1>4, <1>6, <1>10 DEF Silent, Like, Moves
<1>13. /\ Follows(work', work', streams', store, scope)
       /\ Queueing(work', k) = sz
       /\ \A j : j # k => Queueing(work', j) = 0
  <2>1. streams'[k] = t /\ t.ref_count > 0
    BY <1>1, <1>3, <1>11, <1>12
  <2>2. \/ work' = (CloseStep(k) \o QueueStep(k, f)) \o AfterStep(k)
        \/ work' = (<<>> \o QueueStep(k, f)) \o AfterStep(k)
    BY <1>2
  <2>3. k \in store /\ streams'[k].ref_count > 0
    BY <1>1, <2>1
  <2>4. Sends(work', k, f)
    BY <2>2 DEF Sends
  <2> QED BY <1>7, <2>3, <2>4, DataSteps
<1>14. t.buffered_send_data
         = Total(t.pending_send) + Queueing(work', k) + Flight(in_flight', chunk', k)
  <2>1. Buffered(streams, work, in_flight, chunk)
    BY Facts
  <2>2. s.buffered_send_data
          = Total(s.pending_send) + Queueing(work, k) + Flight(in_flight, chunk, k)
    BY <2>1 DEF Buffered, s
  <2>3. Queueing(work, k) = 0
    BY <1>1, QueueingNone
  <2>4. Flight(in_flight, chunk, k) \in Nat
    BY Facts DEF Flight
  <2>5. Total(s.pending_send) \in Nat
    BY <1>3, SentFrames, TotalType DEF Good
  <2>6. Flight(in_flight', chunk', k) = Flight(in_flight, chunk, k)
    BY <1>2
  <2> QED BY <1>12, <1>13, <2>2, <2>3, <2>4, <2>5, <2>6
<1>15. Ranges' /\ Slab'
  BY <1>2, <1>9, Facts, Steady
<1>16. \A j \in StreamId : j # k =>
         /\ Queueing(work', j) = Queueing(work, j)
         /\ Flight(in_flight', chunk', j) = Flight(in_flight, chunk, j)
  <2>1. \A j : Queueing(work, j) = 0
    BY <1>1, QueueingNone
  <2> QED BY <1>2, <1>13, <2>1
<1>17. UNCHANGED <<store, scope, num_send_streams>>
  BY <1>2
<1>18. /\ k \in StreamId /\ k \in store /\ streams' = [streams EXCEPT ![k] = t]
       /\ Good(t, scope)
       /\ t.is_counted = s.is_counted /\ t.ref_count = s.ref_count
       /\ Moves(s, t, flow, flow')
  BY <1>1, <1>10, <1>11, <1>12
<1>19. Follows(work', work', streams', store, scope)
  BY <1>13
<1>20. conn' = "send" => in_flight' = 0
  BY <1>1
<1> QED BY <1>14, <1>15, <1>16, <1>17, <1>18, <1>19, <1>20, OneStream DEF s

\* A stream whose data is sent stays as it was, less what left.
LEMMA SentGood ==
  ASSUME NEW s, NEW sc, Good(s, sc), NEW n \in Nat, n <= s.buffered_send_data,
         n <= AsSize(s.send_flow.available), n <= AsSize(s.send_flow.window_size)
  PROVE  LET t == SendDataOf(s, n)
         IN /\ Good(t, sc)
            /\ t.is_counted = s.is_counted /\ t.ref_count = s.ref_count
            /\ t.pending_send = s.pending_send
            /\ t.buffered_send_data = s.buffered_send_data - n
            /\ t.send_flow.available = s.send_flow.available - n
<1> DEFINE t == SendDataOf(s, n)
           b == s.buffered_send_data
           c == s.requested_send_capacity
           a == s.send_flow.available
           w == s.send_flow.window_size
<1>1. s \in Stream /\ s.pending_send \in Seq(Sent)
  BY DEF Good
<1>2. b \in Nat /\ c \in Nat /\ a \in Int /\ w \in Int
  BY <1>1, StreamFields
<1>3. /\ a <= c /\ a <= AsSize(w) /\ b <= c
      /\ Unreserved(sc) => 0 <= a /\ (Uses(sc) => c = b)
  BY DEF Good
<1>4. n <= c
  BY <1>2, <1>3
<1>5. /\ t \in Stream
      /\ t.is_counted = s.is_counted
      /\ t.ref_count = s.ref_count /\ t.pending_send = s.pending_send
      /\ t.requested_send_capacity = c - n
      /\ t.buffered_send_data = b - n
      /\ t.send_flow.available = a - n
      /\ t.send_flow.window_size = w - n
  BY <1>1, <1>4, SentData
<1>6. n <= b /\ n <= AsSize(a) /\ n <= AsSize(w)
  OBVIOUS
<1> HIDE DEF t, b, c, a, w
<1>7. /\ a - n <= c - n /\ b - n <= c - n /\ a - n <= AsSize(w - n)
      /\ Unreserved(sc) => 0 <= a - n /\ (Uses(sc) => c - n = b - n)
  <2>1. a - n <= c - n /\ b - n <= c - n
    BY <1>2, <1>3
  <2>2. a - n <= AsSize(w - n)
    BY <1>2, <1>3, <1>6 DEF AsSize
  <2>3. 0 <= a => 0 <= a - n
    BY <1>2, <1>6 DEF AsSize
  <2> QED BY <1>3, <2>1, <2>2, <2>3
<1>8. Good(t, sc)
  BY <1>1, <1>5, <1>7 DEF Good
<1> QED BY <1>5, <1>8 DEF t, a, b

\* What may be written of the first frame.
LEMMA SizeFits ==
  ASSUME SInv, NEW k \in StreamId, streams[k].pending_send # <<>>, ~Stalled(k)
  PROVE  /\ SizeOf(k) \in Nat /\ SizeOf(k) <= First(k).size
         /\ SizeOf(k) <= AsSize(streams[k].send_flow.available)
         /\ SizeOf(k) <= AsSize(streams[k].send_flow.window_size)
         /\ First(k) \in Sent /\ First(k).size \in Nat /\ First(k).eos \in BOOLEAN
         /\ Tail(streams[k].pending_send) \in Seq(Sent)
         /\ Total(Tail(streams[k].pending_send)) \in Nat
         /\ Total(streams[k].pending_send)
              = First(k).size + Total(Tail(streams[k].pending_send))
<1> DEFINE s == streams[k]
           q == s.pending_send
           a == s.send_flow.available
<1>1. s \in Stream /\ q \in Seq(Sent) /\ q \in Seq(Frame)
  BY Facts, SentFrames DEF Good
<1>2. a \in Int
  BY <1>1, StreamFields
<1>3. q # <<>> /\ First(k) = Head(q)
  BY DEF First
<1>4. SizeOf(k) <= AsSize(s.send_flow.window_size)
  <2>1. SizeOf(k) = Least(Least(First(k).size, MaxFrameSize), AsSize(a))
    BY DEF SizeOf
  <2>2. ~(SizeOf(k) > AsSize(s.send_flow.window_size))
    BY DEF Stalled
  <2>3. s.send_flow.window_size \in Int
    BY <1>1, StreamFields
  <2>4. First(k).size \in Nat
    <3>1. First(k) \in Frame
      BY <1>1, <1>3, HeadAndTail
    <3> QED BY <3>1 DEF Frame
  <2>5. SizeOf(k) \in Int
    BY <1>2, <2>1, <2>4, SendAssumption DEF Least, AsSize
  <2>6. AsSize(s.send_flow.window_size) \in Int
    BY <2>3 DEF AsSize
  <2> QED BY <2>2, <2>5, <2>6
<1>5. SizeOf(k) = Least(Least(First(k).size, MaxFrameSize), AsSize(a))
  BY DEF SizeOf
<1> HIDE DEF s, q, a
<1>6. /\ First(k) \in Sent /\ Tail(q) \in Seq(Sent)
  BY <1>1, <1>3, HeadAndTail
<1>7. First(k).size \in Nat /\ First(k).eos \in BOOLEAN
  BY <1>6 DEF Sent, Frame
<1>8. Total(q) = First(k).size + Total(Tail(q))
  BY <1>1, <1>3, TotalOfTail
<1>9. Total(Tail(q)) \in Nat
  BY <1>6, SentFrames, TotalType
<1>10. SizeOf(k) \in Nat /\ SizeOf(k) <= First(k).size /\ SizeOf(k) <= AsSize(a)
  BY <1>2, <1>5, <1>7, SendAssumption DEF Least, AsSize
<1> QED BY <1>4, <1>6, <1>7, <1>8, <1>9, <1>10 DEF s, q, a

\* PopData
LEMMA PopDataKeeps ==
  ASSUME SInv, NEW k \in StreamId, PopData(k)
  PROVE  SInv'
<1> DEFINE s == streams[k]
           n == SizeOf(k)
           f == First(k)
           r == SendDataOf(s, n)
           t == [r EXCEPT !.pending_send = Tail(r.pending_send)]
<1>1. /\ work = <<>> /\ conn' = "write" /\ k \in store /\ Tail(pending_send) \in Seq(store)
      /\ in_flight = 0
  BY TurnFacts DEF PopData
<1>2. /\ s.pending_send # <<>> /\ ~Stalled(k)
      /\ streams' = [streams EXCEPT ![k] = t]
      /\ flow' = SendData(AssignCapacity(flow, n), n)
      /\ in_flight' = k /\ chunk' = [size |-> f.size - n, eos |-> f.eos]
      /\ pending_send' = Requeued(t, k, Tail(pending_send))
      /\ work' = AfterStep(k)
      /\ UNCHANGED <<store, ids, num_send_streams, scope, settings, next_stream_id,
                     conn_error, todo, task, pending_capacity, pending_open>>
  BY DEF PopData, slab, settings, peer
<1>3. Good(s, scope) /\ s \in Stream /\ flow \in FlowControl
  BY Facts
<1>4. /\ n \in Nat /\ n <= f.size
      /\ n <= AsSize(s.send_flow.available) /\ n <= AsSize(s.send_flow.window_size)
      /\ f.size \in Nat /\ f.eos \in BOOLEAN
      /\ Tail(s.pending_send) \in Seq(Sent) /\ Total(Tail(s.pending_send)) \in Nat
      /\ Total(s.pending_send) = f.size + Total(Tail(s.pending_send))
  BY <1>2, SizeFits
<1>5. s.buffered_send_data = Total(s.pending_send)
  <2>1. Buffered(streams, work, in_flight, chunk)
    BY Facts
  <2>2. Flight(in_flight, chunk, k) = 0 /\ Queueing(work, k) = 0
    BY <1>1, StreamIds, QueueingNone DEF Flight
  <2>3. s.buffered_send_data
          = Total(s.pending_send) + Queueing(work, k) + Flight(in_flight, chunk, k)
    BY <2>1 DEF Buffered
  <2>4. s.buffered_send_data = Total(s.pending_send) + 0 + 0
    BY <2>2, <2>3
  <2> QED BY <1>4, <2>4
<1> HIDE DEF s, n, f
<1>6. n <= s.buffered_send_data
  BY <1>4, <1>5
<1>7. /\ Good(r, scope)
      /\ r.is_counted = s.is_counted /\ r.ref_count = s.ref_count
      /\ r.pending_send = s.pending_send
      /\ r.buffered_send_data = s.buffered_send_data - n
      /\ r.send_flow.available = s.send_flow.available - n
  BY <1>3, <1>4, <1>6, SentGood
<1> HIDE DEF r
<1>8. /\ Good(t, scope) /\ t.pending_send = Tail(s.pending_send)
      /\ t.is_counted = r.is_counted /\ t.ref_count = r.ref_count
      /\ t.send_flow = r.send_flow /\ t.buffered_send_data = r.buffered_send_data
  <2>1. Tail(r.pending_send) \in Seq(Sent)
    BY <1>4, <1>7
  <2>2. Good(r, scope)
    BY <1>7
  <2>3. /\ Good(t, scope) /\ t.pending_send = Tail(r.pending_send)
        /\ t.is_counted = r.is_counted /\ t.ref_count = r.ref_count
        /\ t.send_flow = r.send_flow /\ t.buffered_send_data = r.buffered_send_data
    BY <2>1, <2>2, WithFrames
  <2> QED BY <1>7, <2>3
<1> HIDE DEF t
<1>9. Moves(s, t, flow, flow')
  <2>1. s.send_flow.available \in Int
    BY <1>3, StreamFields
  <2>2. flow.available \in Int /\ flow.window_size \in Int
    BY <1>3 DEF FlowControl
  <2>3. /\ flow' \in FlowControl /\ flow'.available = flow.available + n - n
        /\ flow'.window_size = flow.window_size - n
    BY <1>2, <1>3, <1>4, <2>2 DEF SendData, AssignCapacity, FlowControl
  <2>4. t.send_flow.available = s.send_flow.available - n
    BY <1>7, <1>8
  <2>5. 0 <= flow.available => 0 <= flow'.available
    BY <1>4, <2>2, <2>3
  <2> DEFINE a == s.send_flow.available
             b == t.send_flow.available
             c == flow.available
             d == flow'.available
             w == flow.window_size
             x == flow'.window_size
  <2>6. b = a - n /\ d = c + n - n /\ x = w - n
    BY <2>3, <2>4
  <2>7. a \in Int /\ c \in Int /\ w \in Int /\ n \in Int
    BY <1>4, <2>1, <2>2
  <2> HIDE DEF a, b, c, d, w, x
  <2>8. d + b - x = c + a - w
    BY <2>6, <2>7
  <2> QED BY <2>3, <2>5, <2>8 DEF Moves, a, b, c, d, w, x
<1>10. t.buffered_send_data = Total(t.pending_send) + Flight(in_flight', chunk', k)
  <2>1. Flight(in_flight', chunk', k) = f.size - n
    BY <1>2 DEF Flight
  <2>2. t.buffered_send_data = f.size + Total(Tail(s.pending_send)) - n
    BY <1>4, <1>5, <1>7, <1>8
  <2> QED BY <1>4, <1>8, <2>1, <2>2
<1>11. Follows(work', work, streams', store, scope)
  BY <1>1, <1>2, CalmSteps, CalmFollows
<1>12. pending_send' \in Seq(store)
  <2>1. pending_send' = Tail(pending_send) \/ pending_send' = Push(Tail(pending_send), k)
    BY <1>2 DEF Requeued
  <2>2. Push(Tail(pending_send), k) \in Seq(store)
    BY <1>1, QueueMoves
  <2> QED BY <1>1, <2>1, <2>2
<1>13. in_flight' \in 0 .. Dropped /\ chunk' \in [size : Nat, eos : BOOLEAN]
  <2>1. k \in 0 .. Dropped
    BY SendAssumption DEF StreamId, Dropped
  <2> QED BY <1>2, <1>4, <2>1
<1>14. Ranges' /\ Slab'
  BY <1>2, <1>12, <1>13, Facts, Steady
<1>15. \A j \in StreamId : j # k => Flight(in_flight', chunk', j) = Flight(in_flight, chunk, j)
  BY <1>1, <1>2, StreamIds DEF Flight
<1>16. conn' = "send" => in_flight' = 0
  BY <1>1
<1>17. UNCHANGED <<store, scope, num_send_streams>>
  BY <1>2
<1>18. t.is_counted = s.is_counted /\ t.ref_count = s.ref_count
  BY <1>7, <1>8
<1>19. Backed(s, k, in_flight, chunk) => Backed(t, k, in_flight', chunk')
  BY <1>10 DEF Backed
<1> QED BY <1>1, <1>2, <1>8, <1>9, <1>11, <1>14, <1>15, <1>16, <1>17, <1>18, <1>19,
           OneStreamBacked DEF s

\* One record changes, and with it what is counted and perhaps the slab.
LEMMA OneStreamCounted ==
  ASSUME SInv, Ranges', Slab', UNCHANGED <<scope, flow, codec>>, work = <<>>,
         NEW k \in StreamId, NEW t, streams' = [streams EXCEPT ![k] = t],
         Good(t, scope),
         Unreserved(scope) => t.send_flow.available = streams[k].send_flow.available,
         \A j \in StreamId : j # k => (j \in store' <=> j \in store),
         k \notin store' => /\ t.buffered_send_data = 0 /\ t.pending_send = <<>>
                            /\ Unreserved(scope) => t.send_flow.available = 0,
         k \in store' /\ ~Uses(scope) => t.ref_count = 1,
         num_send_streams' \in Int,
         num_send_streams + (IF t.is_counted THEN 1 ELSE 0)
           <= num_send_streams' + (IF streams[k].is_counted THEN 1 ELSE 0),
         Backed(streams[k], k, in_flight, chunk) => Backed(t, k, in_flight, chunk),
         Follows(work', work, streams', store', scope),
         conn' = "send" => in_flight = 0
  PROVE  SInv'
<1>1. /\ streams \in [StreamId -> Stream] /\ flow \in FlowControl
      /\ Core(streams, store, flow, num_send_streams, scope)
      /\ Buffered(streams, work, in_flight, chunk)
      /\ streams[k] \in Stream /\ t \in Stream
  BY Facts DEF Good
<1>2. Core(streams', store', flow', num_send_streams', scope')
  <2>1. Unreserved(scope) => Moves(streams[k], t, flow, flow)
    BY <1>1, StillMoves
  <2>2. store' \subseteq StreamId
    BY DEF Slab
  <2> QED BY <1>1, <2>1, <2>2, CoreMoves
<1>3. Buffered(streams', work', in_flight', chunk')
  <2>1. \A j : Queueing(work, j) = 0
    BY QueueingNone
  <2>2. \A j : Queueing(work', j) = 0
    BY <2>1 DEF Follows
  <2>3. Total(streams[k].pending_send) \in Nat /\ Total(t.pending_send) \in Nat
    BY <1>1, StreamFields, TotalType
  <2>4. Backed(streams[k], k, in_flight, chunk)
    <3>1. streams[k].buffered_send_data
            = Total(streams[k].pending_send) + Queueing(work, k)
                + Flight(in_flight, chunk, k)
      BY <1>1 DEF Buffered
    <3> QED BY <2>1, <2>3, <3>1 DEF Backed
  <2>5. t.buffered_send_data
          = Total(t.pending_send) + Queueing(work', k) + Flight(in_flight', chunk', k)
    BY <2>2, <2>3, <2>4 DEF Backed, codec
  <2>6. Elsewhere(k, work, in_flight, chunk, work', in_flight', chunk')
    BY <2>1, <2>2 DEF Elsewhere, codec
  <2>7. Swaps(streams, streams', k, t)
    BY <1>1 DEF Swaps
  <2> QED BY <1>1, <2>5, <2>6, <2>7, BufferedMoves
<1>4. Loops'
  BY LoopsKept DEF Follows, codec
<1>5. WorkOK(work', streams', store', scope')
  BY DEF Follows
<1> QED BY <1>2, <1>3, <1>4, <1>5 DEF SInv

\* OpenPending
LEMMA OpenPendingKeeps ==
  ASSUME SInv, OpenPending
  PROVE  SInv'
<1> DEFINE k == Head(pending_open)
           s == streams[k]
           r == NotifySend(s)
           t == [r EXCEPT !.is_counted = TRUE]
<1>1. /\ work = <<>> /\ conn = "send" /\ pending_open # <<>>
      /\ streams' = [streams EXCEPT ![k] = t]
      /\ pending_send' = Push(pending_send, k) /\ pending_open' = Tail(pending_open)
      /\ num_send_streams' = num_send_streams + 1
      /\ UNCHANGED <<store, ids, scope, settings, next_stream_id, conn_error, todo,
                     task, conn, work, chunk, in_flight, flow, codec, pending_capacity>>
  BY DEF OpenPending, Sending, settings, peer, codec
<1>2. /\ pending_open \in Seq(store) /\ pending_send \in Seq(store)
      /\ pending_capacity \in Seq(store) /\ store \subseteq StreamId
      /\ num_send_streams \in Nat
  BY Facts
<1>3. k \in store /\ pending_open' \in Seq(store)
  BY <1>1, <1>2, QueueMoves
<1>4. pending_send' \in Seq(store)
  BY <1>1, <1>2, <1>3, QueueMoves
<1> HIDE DEF k
<1>5. k \in StreamId /\ Good(s, scope) /\ s \in Stream
        /\ (~Uses(scope) => s.ref_count = 1)
  BY <1>2, <1>3, Facts DEF Core, Absent
<1> HIDE DEF s
<1>6. Silent(s, r) /\ r \in Stream
  BY <1>5, NotifySendSilent DEF Silent
<1>7. Good(r, scope) /\ r.pending_send \in Seq(Sent)
  BY <1>5, <1>6, SilentGood DEF Good
<1> HIDE DEF r
<1>8. /\ t \in Stream /\ t.is_counted = TRUE
      /\ t.send_flow = r.send_flow /\ t.pending_send = r.pending_send
      /\ t.ref_count = r.ref_count
      /\ t.requested_send_capacity = r.requested_send_capacity
      /\ t.buffered_send_data = r.buffered_send_data
  BY <1>6 DEF Stream
<1> HIDE DEF t
<1>9. Good(t, scope)
  BY <1>7, <1>8, GoodKept
<1>10. /\ t.send_flow = s.send_flow /\ t.pending_send = s.pending_send
       /\ t.ref_count = s.ref_count
       /\ t.buffered_send_data = s.buffered_send_data
  BY <1>6, <1>8 DEF Silent, Like
<1>11. Ranges' /\ Slab'
  BY <1>1, <1>2, <1>3, <1>4, Facts, Steady
<1>12. Follows(work', work, streams', store', scope)
  BY <1>1, CalmNone, CalmFollows
<1>13. conn' = "send" => in_flight = 0
  BY <1>1 DEF SInv, Loops
<1>14. num_send_streams + (IF t.is_counted THEN 1 ELSE 0)
         <= num_send_streams' + (IF s.is_counted THEN 1 ELSE 0)
  BY <1>1, <1>2, <1>8
<1>15. Backed(s, k, in_flight, chunk) => Backed(t, k, in_flight, chunk)
  BY <1>10 DEF Backed
<1>16. \A j \in StreamId : j # k => (j \in store' <=> j \in store)
  BY <1>1
<1>17. /\ k \in store' /\ (~Uses(scope) => t.ref_count = 1)
       /\ t.send_flow.available = s.send_flow.available
       /\ num_send_streams' \in Int
  BY <1>1, <1>2, <1>3, <1>5, <1>10
<1>18. UNCHANGED <<scope, flow, codec>>
  BY <1>1
<1> QED BY <1>1, <1>5, <1>9, <1>11, <1>12, <1>13, <1>14, <1>15, <1>16, <1>17, <1>18,
           OneStreamCounted DEF s

\* Written
LEMMA WrittenKeeps ==
  ASSUME SInv, Written
  PROVE  SInv'
<1>1. /\ work = <<>> /\ work' = work /\ in_flight' = 0
      /\ chunk' = [size |-> 0, eos |-> FALSE]
      /\ UNCHANGED <<store, ids, num_send_streams, scope, settings, next_stream_id,
                     conn_error, todo, task, flow, pending_capacity, pending_open>>
  BY DEF Written, slab, settings, peer
<1>2. /\ pending_open \in Seq(store) /\ pending_send \in Seq(store)
      /\ pending_capacity \in Seq(store) /\ in_flight \in 0 .. Dropped
      /\ chunk \in [size : Nat, eos : BOOLEAN] /\ conn_error \in BOOLEAN
      /\ task \in BOOLEAN /\ todo \subseteq StreamId /\ flow \in FlowControl
      /\ Buffered(streams, work, in_flight, chunk)
      /\ streams \in [StreamId -> Stream]
  BY Facts
<1>3. in_flight' \in 0 .. Dropped /\ chunk' \in [size : Nat, eos : BOOLEAN]
  BY <1>1, SendAssumption DEF Dropped
<1>4. \A j \in StreamId : Flight(in_flight', chunk', j) = 0
  BY <1>1, StreamIds DEF Flight
<1>5. Follows(work', work, streams, store, scope) /\ Follows(work', work, streams', store, scope)
  BY <1>1, CalmNone, CalmFollows
<1>6. CASE in_flight \in StreamId /\ chunk.size > 0
  <2> DEFINE k == in_flight
             s == streams[k]
             f == DataFrame(chunk.size, chunk.eos)
             t == [s EXCEPT !.pending_send = <<f>> \o s.pending_send]
  <2>1. /\ streams' = [streams EXCEPT ![k] = t]
        /\ pending_send' = IF s.send_flow.available > 0 THEN Push(pending_send, k)
                                                       ELSE pending_send
    BY <1>6 DEF Written, Reclaim
  <2>2. k \in StreamId /\ Good(s, scope) /\ s \in Stream
    BY <1>6, Facts
  <2>3. s.buffered_send_data
          = Total(s.pending_send) + Queueing(work, k) + Flight(in_flight, chunk, k)
    BY <1>2, <2>2 DEF Buffered
  <2>4. Flight(in_flight, chunk, k) = chunk.size /\ Queueing(work, k) = 0
    BY <1>1, QueueingNone DEF Flight
  <2> HIDE DEF k, s
  <2>5. s.pending_send \in Seq(Sent) /\ Total(s.pending_send) \in Nat
    BY <2>2, SentFrames, TotalType DEF Good
  <2>6. s.buffered_send_data = Total(s.pending_send) + chunk.size
    BY <2>3, <2>4, <2>5
  <2>7. k \in store
    <3>1. ASSUME k \notin store
          PROVE  FALSE
      <4>1. Absent(streams, store, scope)
        BY Facts DEF Core
      <4>2. s.buffered_send_data = 0
        BY <2>2, <3>1, <4>1 DEF Absent, s
      <4> QED BY <1>2, <1>6, <2>5, <2>6, <4>2
    <3> QED BY <3>1
  <2>8. f \in Sent /\ f \in Frame /\ f.size = chunk.size
    <3>1. 0 \in 0 .. MaxId /\ chunk.size \in Nat /\ chunk.eos \in BOOLEAN
      BY <1>2, StreamIds
    <3> QED BY <3>1 DEF DataFrame, Sent, Frame
  <2> HIDE DEF f
  <2>9. <<f>> \o s.pending_send \in Seq(Sent)
    BY <2>5, <2>8, InFront
  <2>10. /\ Good(t, scope) /\ t.pending_send = <<f>> \o s.pending_send
         /\ t.is_counted = s.is_counted /\ t.ref_count = s.ref_count
         /\ t.send_flow = s.send_flow /\ t.buffered_send_data = s.buffered_send_data
    BY <2>2, <2>9, WithFrames
  <2> HIDE DEF t
  <2>11. Total(t.pending_send) = chunk.size + Total(s.pending_send)
    BY <2>5, <2>8, <2>10, SentFrames, TotalInFront
  <2>12. Backed(t, k, in_flight', chunk')
    <3>1. Flight(in_flight', chunk', k) = 0
      BY <1>4, <2>2
    <3>2. chunk.size \in Nat
      BY <1>2
    <3> QED BY <2>5, <2>6, <2>10, <2>11, <3>1, <3>2 DEF Backed
  <2>13. Moves(s, t, flow, flow')
    BY <1>1, <1>2, <2>2, <2>10, StillMoves
  <2>14. pending_send' \in Seq(store)
    BY <1>2, <2>1, <2>7, QueueMoves
  <2>15. Ranges' /\ Slab'
    BY <1>1, <1>2, <1>3, <2>14, Steady
  <2>16. \A j \in StreamId : j # k => Flight(in_flight', chunk', j) = Flight(in_flight, chunk, j)
    BY <1>4 DEF Flight, k
  <2>17. UNCHANGED <<store, scope, num_send_streams>>
    BY <1>1
  <2> QED BY <1>1, <1>5, <2>1, <2>2, <2>7, <2>10, <2>12, <2>13, <2>15, <2>16, <2>17,
             OneStreamBacked DEF s
<1>7. CASE ~(in_flight \in StreamId /\ chunk.size > 0)
  <2>1. UNCHANGED <<streams, pending_send>>
    BY <1>7 DEF Written
  <2>2. \A j \in StreamId : Flight(in_flight, chunk, j) = 0
    BY <1>2, <1>7 DEF Flight
  <2>3. Ranges' /\ Slab'
    BY <1>1, <1>2, <1>3, <2>1, Steady
  <2>4. flow'.window_size - flow.window_size = flow'.available - flow.available
          /\ (0 <= flow.available => 0 <= flow'.available)
    BY <1>1, <1>2 DEF FlowControl
  <2>5. \A j \in StreamId : Flight(in_flight', chunk', j) = Flight(in_flight, chunk, j)
    BY <1>4, <2>2
  <2> QED BY <1>1, <1>2, <1>5, <2>1, <2>3, <2>4, <2>5, NoStream
<1> QED BY <1>6, <1>7

\* A sequence of one element.
LEMMA OneLong ==
  ASSUME NEW S, NEW q \in Seq(S), q # <<>>, ~(1 \in 1 .. Len(Tail(q)))
  PROVE  /\ Tail(q) = <<>> /\ 1 \in 1 .. Len(q)
         /\ \A i \in 1 .. Len(q) : q[i] = Head(q)
<1>1. /\ Head(q) = q[1] /\ Tail(q) \in Seq(S)
      /\ Len(q) = Len(Tail(q)) + 1 /\ Len(Tail(q)) \in Nat
  BY HeadAndTail
<1> DEFINE r == Tail(q)
           m == Len(r)
<1>2. m \in Nat /\ ~(1 \in 1 .. m)
  BY <1>1
<1> HIDE DEF m
<1>3. m = 0
  BY <1>2
<1>4. r = <<>>
  BY <1>1, <1>3, EmptySeq DEF m
<1>5. Len(q) = 1
  BY <1>1, <1>3 DEF m
<1> QED BY <1>1, <1>4, <1>5

\* The loop that raises windows is all there is to do.
LEMMA GrowAlone ==
  ASSUME SInv, Doing("grow")
  PROVE  /\ Head(work).arg \in Nat /\ Tail(work) = <<>> /\ todo \subseteq ids
         /\ \A i \in 1 .. Len(work) : work[i].do = "grow"
         /\ \A j : Queueing(work, j) = 0
<1>1. work # <<>> /\ Head(work).do = "grow" /\ WorkOK(work, streams, store, scope)
  BY Facts DEF Doing
<1>2. /\ Sound(Head(work), streams, store, scope)
      /\ LeadsAll(Head(work), Tail(work), streams)
      /\ \A j : Queueing(work, j) = 0
  BY <1>1, CallTaken
<1>3. work \in Seq(Steps)
  BY <1>1 DEF WorkOK
<1>4. ~(1 \in 1 .. Len(Tail(work)))
  BY <1>1, <1>2 DEF LeadsAll, Leads
<1>5. /\ Tail(work) = <<>> /\ 1 \in 1 .. Len(work)
      /\ \A i \in 1 .. Len(work) : work[i] = Head(work)
  BY <1>1, <1>3, <1>4, OneLong
<1>6. \A i \in 1 .. Len(work) : work[i].do = "grow"
  BY <1>1, <1>5
<1>7. todo \subseteq ids
  BY <1>5, <1>6 DEF SInv, Loops
<1> QED BY <1>1, <1>2, <1>5, <1>6, <1>7 DEF Sound

\* Grow
LEMMA GrowKeeps ==
  ASSUME SInv, Grow
  PROVE  SInv'
<1>1. /\ Doing("grow")
      /\ UNCHANGED <<store, ids, num_send_streams, scope, settings, next_stream_id,
                     conn_error, chunk, conn, pending_open>>
  BY DEF Grow, slab, settings, peer
<1>2. /\ Head(work).arg \in Nat /\ Tail(work) = <<>> /\ todo \subseteq ids
      /\ \A i \in 1 .. Len(work) : work[i].do = "grow"
      /\ \A j : Queueing(work, j) = 0
  BY <1>1, GrowAlone
<1>3. /\ pending_send \in Seq(store) /\ pending_capacity \in Seq(store)
      /\ flow \in FlowControl /\ in_flight \in 0 .. Dropped /\ task \in BOOLEAN
      /\ streams \in [StreamId -> Stream] /\ ids \subseteq store /\ store \subseteq StreamId
  BY Facts
<1>4. conn' = "send" => in_flight = 0
  BY <1>1 DEF SInv, Loops
<1>5. CASE /\ todo = {} /\ work' = Tail(work)
           /\ UNCHANGED <<streams, flow, in_flight, pending_send,
                          pending_capacity, task, todo>>
  <2>1. Follows(work', work, streams, store, scope)
    BY <1>2, <1>5, CalmNone, CalmReplaces
  <2>2. Ranges' /\ Slab'
    BY <1>1, <1>3, <1>5, Facts, Steady
  <2>3. UNCHANGED <<streams, store, scope, num_send_streams, flow, codec>>
    BY <1>1, <1>5 DEF codec
  <2> QED BY <1>4, <2>1, <2>2, <2>3, Quiet
<1>6. ASSUME NEW k \in todo, WindowUpdate(k, Head(work).arg, work, FailStep),
             todo' = todo \ {k}
      PROVE  SInv'
  <2> DEFINE n == Head(work).arg
             fail == FailStep
  <2>1. k \in store /\ k \in StreamId /\ Good(streams[k], scope)
    BY <1>2, <1>3, Facts
  <2>2. n \in Nat /\ WindowUpdate(k, n, work, fail)
    BY <1>2, <1>6
  <2> HIDE DEF n, fail
  <2>3. /\ pending_send' \in Seq(store) /\ pending_capacity' \in Seq(store)
        /\ task' \in BOOLEAN /\ in_flight' \in 0 .. Dropped
        /\ \A j \in StreamId : j # k =>
             Flight(in_flight', chunk, j) = Flight(in_flight, chunk, j)
        /\ in_flight = 0 => in_flight' = 0
        /\ \/ work' = work \/ work' = fail \/ work' = AssignStep \o fail
           \/ work' = <<>> \o fail
        /\ \E t : /\ streams' = [streams EXCEPT ![k] = t]
                  /\ Good(t, scope) /\ t.is_counted = streams[k].is_counted
                  /\ t.ref_count = streams[k].ref_count
                  /\ Moves(streams[k], t, flow, flow')
                  /\ Backed(streams[k], k, in_flight, chunk)
                       => Backed(t, k, in_flight', chunk)
    BY <1>3, <2>1, <2>2, WindowUpdated
  <2>4. PICK t : /\ streams' = [streams EXCEPT ![k] = t]
                 /\ Good(t, scope) /\ t.is_counted = streams[k].is_counted
                 /\ t.ref_count = streams[k].ref_count
                 /\ Moves(streams[k], t, flow, flow')
                 /\ Backed(streams[k], k, in_flight, chunk)
                      => Backed(t, k, in_flight', chunk)
    BY <2>3
  <2>5. todo' \subseteq ids /\ todo' \subseteq StreamId
    BY <1>2, <1>3, <1>6
  <2>6. Ranges' /\ Slab'
    BY <1>1, <2>3, <2>5, Facts, Steady
  <2>7. /\ Loops' /\ WorkOK(work', streams', store, scope)
        /\ \A j : Queueing(work', j) = 0
    <3>1. CASE work' = work
      <4>1. \A j \in store : streams[j].ref_count > 0 => j \in store /\ streams'[j].ref_count > 0
        BY <1>3, <2>4
      <4>2. \A i \in 1 .. Len(work) : work[i].do # "schedule"
        BY <1>2
      <4>3. WorkOK(work, streams', store, scope)
        BY <4>1, <4>2, Facts, WorkStaysEasily
      <4>4. Loops'
        BY <1>1, <1>4, <2>3, <2>5, <3>1 DEF Loops
      <4> QED BY <1>2, <3>1, <4>3, <4>4
    <3>2. CASE work' # work
      <4>1. /\ Calm(fail, streams', store, scope)
            /\ Calm(AssignStep \o fail, streams', store, scope)
        BY CalmSteps DEF fail
      <4>2. <<>> \o fail = fail
        BY <4>1, CalmAlone
      <4>3. Calm(work', streams', store, scope)
        <5>1. work' = fail \/ work' = AssignStep \o fail
          BY <2>3, <3>2, <4>2, Zenon
        <5> QED BY <4>1, <5>1, Zenon
      <4>4. Loops'
        <5>1. conn' = "send" => in_flight' = 0
          BY <1>4, <2>3
        <5> QED BY <4>3, <5>1, LoopsKept DEF Calm
      <4> QED BY <4>3, <4>4 DEF Calm
    <3> QED BY <3>1, <3>2
  <2>8. t.buffered_send_data
          = Total(t.pending_send) + Queueing(work', k) + Flight(in_flight', chunk', k)
    <3>1. Total(streams[k].pending_send) \in Nat /\ Total(t.pending_send) \in Nat
      BY <2>1, <2>4, StreamFields, TotalType DEF Good
    <3>2. streams[k].buffered_send_data
            = Total(streams[k].pending_send) + Queueing(work, k) + Flight(in_flight, chunk, k)
      BY <2>1, Facts DEF Buffered
    <3>3. Backed(streams[k], k, in_flight, chunk)
      BY <1>2, <3>1, <3>2 DEF Backed
    <3>4. t.buffered_send_data = Total(t.pending_send) + Flight(in_flight', chunk', k)
      BY <1>1, <2>4, <3>3 DEF Backed
    <3> QED BY <2>7, <3>1, <3>4
  <2>9. \A j \in StreamId : j # k =>
          /\ Queueing(work', j) = Queueing(work, j)
          /\ Flight(in_flight', chunk', j) = Flight(in_flight, chunk, j)
    BY <1>1, <1>2, <2>3, <2>7
  <2>10. UNCHANGED <<store, scope, num_send_streams>>
    BY <1>1
  <2> QED BY <2>1, <2>4, <2>6, <2>7, <2>8, <2>9, <2>10, OneStreamAnyhow
<1>7. \/ /\ todo = {} /\ work' = Tail(work)
         /\ UNCHANGED <<streams, flow, in_flight, pending_send,
                        pending_capacity, task, todo>>
      \/ \E k \in todo : WindowUpdate(k, Head(work).arg, work, FailStep) /\ todo' = todo \ {k}
  BY DEF Grow
<1> QED BY <1>5, <1>6, <1>7

\* The model's sum is the library's.
LEMMA SumsAgree ==
  ASSUME NEW f, NEW S
  PROVE  SumOver(f, S) = SumOf(f, S)
BY DEF SumOver, SumOf

\* What dropping the handles makes of a stream that is not closed.
LEMMA DroppedGood ==
  ASSUME NEW s, NEW sc, Good(s, sc), Uses(sc), NEW n \in Int, n = Reserved(s),
         NEW t \in Stream,
         t.send_flow = ClaimCapacity(s.send_flow, n),
         t.pending_send = s.pending_send,
         t.requested_send_capacity = s.requested_send_capacity,
         t.buffered_send_data = s.buffered_send_data
  PROVE  /\ n \in Nat /\ Good(t, sc)
         /\ t.send_flow.available = s.send_flow.available - n
<1>1. s \in Stream /\ s.pending_send \in Seq(Sent)
  BY DEF Good
<1>2. /\ s.buffered_send_data \in Nat /\ s.requested_send_capacity \in Nat
      /\ s.send_flow.available \in Int /\ s.send_flow.window_size \in Int
      /\ s.send_flow \in FlowControl
  BY <1>1, StreamFields
<1>3. /\ s.send_flow.available <= s.requested_send_capacity
      /\ s.send_flow.available <= AsSize(s.send_flow.window_size)
      /\ s.buffered_send_data <= s.requested_send_capacity
      /\ Unreserved(sc) =>
           /\ 0 <= s.send_flow.available
           /\ s.requested_send_capacity = s.buffered_send_data
  BY DEF Good
<1>4. n \in Nat /\ (Unreserved(sc) => n = 0)
  BY <1>2, <1>3 DEF Reserved
<1>5. /\ t.send_flow.available = s.send_flow.available - n
      /\ t.send_flow.window_size = s.send_flow.window_size
  BY <1>2 DEF ClaimCapacity, FlowControl
<1>6. AsSize(s.send_flow.window_size) \in Int
  BY <1>2 DEF AsSize
<1>7. /\ t.send_flow.available <= t.requested_send_capacity
      /\ t.send_flow.available <= AsSize(t.send_flow.window_size)
      /\ Unreserved(sc) => 0 <= t.send_flow.available
  <2>1. s.send_flow.available - n <= s.send_flow.available
    BY <1>2, <1>4
  <2>2. /\ s.send_flow.available - n <= s.requested_send_capacity
        /\ s.send_flow.available - n <= AsSize(s.send_flow.window_size)
    BY <1>2, <1>3, <1>4, <1>6
  <2>3. Unreserved(sc) => 0 <= s.send_flow.available - n
    BY <1>2, <1>3, <1>4
  <2> QED BY <1>5, <2>2, <2>3
<1>8. Good(t, sc)
  BY <1>1, <1>3, <1>7 DEF Good
<1> QED BY <1>4, <1>5, <1>8

\* DropHandle
LEMMA DropHandleKeeps ==
  ASSUME SInv, NEW k \in StreamId, DropHandle(k)
  PROVE  SInv'
<1> DEFINE s == streams[k]
           r == Runs(s)
           u == [r EXCEPT !.ref_count = 0]
           back == IF IsClosed(u.state) THEN 0 ELSE Reserved(u)
           t == IF IsClosed(u.state) THEN u
                ELSE [u EXCEPT !.state = SetScheduledReset,
                               !.send_flow = ClaimCapacity(u.send_flow, back)]
<1>1. work = <<>> /\ conn' # "send" /\ conn' = conn /\ k \in store /\ s \in Stream
  BY HeldFacts DEF DropHandle
<1>2. /\ Uses(scope)
      /\ streams' = [streams EXCEPT ![k] = t]
      /\ flow' = AssignCapacity(flow, back)
      /\ task' = (task /\ ~FullyClosed(u))
      /\ work' = IF IsClosed(u.state) THEN AfterStep(k)
                 ELSE ((IF back > 0 THEN AssignStep ELSE <<>>)
                         \o ScheduleStep(k)) \o ExpireStep(k)
      /\ UNCHANGED <<store, ids, num_send_streams, scope, settings, next_stream_id,
                     conn_error, todo, chunk, in_flight, codec,
                     pending_send, pending_capacity, pending_open>>
  BY DEF DropHandle, slab, settings, peer, codec, queues, Drops, Uses
<1>3. Good(s, scope) /\ flow \in FlowControl /\ num_send_streams \in Nat
        /\ streams \in [StreamId -> Stream]
        /\ Core(streams, store, flow, num_send_streams, scope)
        /\ Buffered(streams, work, in_flight, chunk) /\ task \in BOOLEAN
        /\ store \subseteq StreamId
  BY Facts
<1>4. Silent(s, r) /\ r \in Stream
  BY <1>1, RunsSilent DEF Silent
<1>5. Good(r, scope) /\ r.pending_send \in Seq(Sent)
  BY <1>3, <1>4, SilentGood DEF Good
<1> HIDE DEF r, s
<1>6. /\ u \in Stream /\ u.is_counted = r.is_counted
      /\ u.send_flow = r.send_flow /\ u.pending_send = r.pending_send
      /\ u.requested_send_capacity = r.requested_send_capacity
      /\ u.buffered_send_data = r.buffered_send_data
  BY <1>4 DEF Stream
<1> HIDE DEF u
<1>7. Good(u, scope) /\ u.pending_send \in Seq(Sent)
  BY <1>5, <1>6, GoodKept
<1>8. u.requested_send_capacity \in Nat /\ u.buffered_send_data \in Nat
        /\ u.send_flow \in FlowControl
  BY <1>6, StreamFields
<1>9. /\ back \in Nat /\ Good(t, scope) /\ t.is_counted = u.is_counted
      /\ t.pending_send = u.pending_send /\ t.buffered_send_data = u.buffered_send_data
      /\ t.send_flow.available = u.send_flow.available - back
  <2>1. CASE IsClosed(u.state)
    <3>1. back = 0 /\ t = u
      BY <2>1
    <3>2. u.send_flow.available \in Int
      BY <1>8 DEF FlowControl
    <3> HIDE DEF back, t
    <3>3. u.send_flow.available = u.send_flow.available - 0
      BY <3>2
    <3> QED BY <1>7, <3>1, <3>3
  <2>2. CASE ~IsClosed(u.state)
    <3> DEFINE n == Reserved(u)
               x == [u EXCEPT !.state = SetScheduledReset,
                              !.send_flow = ClaimCapacity(u.send_flow, n)]
    <3>1. n \in Int
      BY <1>8 DEF Reserved
    <3>2. back = n /\ t = x
      BY <2>2
    <3>3. n = Reserved(u)
      OBVIOUS
    <3> HIDE DEF n, t, back
    <3>4. ClaimCapacity(u.send_flow, n) \in FlowControl
      BY <1>8, <3>1 DEF ClaimCapacity, FlowControl
    <3>5. SetScheduledReset \in State
      BY StateValues
    <3>6. /\ x \in Stream /\ x.is_counted = u.is_counted
          /\ x.send_flow = ClaimCapacity(u.send_flow, n)
          /\ x.pending_send = u.pending_send
          /\ x.requested_send_capacity = u.requested_send_capacity
          /\ x.buffered_send_data = u.buffered_send_data
      BY <1>6, <3>4, <3>5 DEF Stream
    <3> HIDE DEF x
    <3>7. /\ n \in Nat /\ Good(x, scope)
          /\ x.send_flow.available = u.send_flow.available - n
      BY <1>2, <1>7, <3>1, <3>3, <3>6, DroppedGood
    <3> QED BY <3>2, <3>6, <3>7
  <2> QED BY <2>1, <2>2
<1> HIDE DEF t, back
<1>10. /\ t.is_counted = s.is_counted /\ t.pending_send = s.pending_send
       /\ t.buffered_send_data = s.buffered_send_data
       /\ t.send_flow.available = s.send_flow.available - back
  BY <1>4, <1>6, <1>9 DEF Silent, Like
<1>11. Moves(s, t, flow, flow')
  <2>1. s.send_flow.available \in Int
    BY <1>1, StreamFields
  <2>2. flow.available \in Int /\ flow.window_size \in Int
    BY <1>3 DEF FlowControl
  <2>3. /\ flow' \in FlowControl /\ flow'.available = flow.available + back
        /\ flow'.window_size = flow.window_size
    BY <1>2, <1>3, <1>9 DEF AssignCapacity, FlowControl
  <2> QED BY <1>9, <1>10, <2>1, <2>2, <2>3 DEF Moves
<1>12. Core(streams', store', flow', num_send_streams', scope')
  <2>1. num_send_streams + (IF t.is_counted THEN 1 ELSE 0)
          <= num_send_streams + (IF s.is_counted THEN 1 ELSE 0)
    BY <1>3, <1>10
  <2>2. Core([streams EXCEPT ![k] = t], store, flow', num_send_streams, scope)
    <3>1. \A j \in StreamId : j # k => (j \in store <=> j \in store)
      OBVIOUS
    <3>2. flow' \in FlowControl
      BY <1>11 DEF Moves
    <3>3. /\ Core(streams, store, flow, num_send_streams, scope) /\ Good(t, scope)
          /\ num_send_streams \in Int /\ store \subseteq StreamId /\ k \in store
          /\ Uses(scope)
      BY <1>1, <1>2, <1>3, <1>9
    <3>4. /\ Unreserved(scope) => Moves(streams[k], t, flow, flow')
          /\ num_send_streams + (IF t.is_counted THEN 1 ELSE 0)
               <= num_send_streams + (IF streams[k].is_counted THEN 1 ELSE 0)
      BY <1>11, <2>1 DEF s
    <3>5. k \in StreamId
      OBVIOUS
    <3> QED BY <3>1, <3>2, <3>3, <3>4, <3>5, CoreMoves
  <2> QED BY <1>2, <2>2
<1>13. Calm(work', streams', store, scope)
  <2>1. CASE IsClosed(u.state)
    BY <1>2, <2>1, CalmSteps
  <2>2. CASE ~IsClosed(u.state)
    <3>1. \/ work' = (AssignStep \o ScheduleStep(k)) \o ExpireStep(k)
          \/ work' = (<<>> \o ScheduleStep(k)) \o ExpireStep(k)
      BY <1>2, <2>2
    <3>2. /\ Calm((AssignStep \o ScheduleStep(k)) \o ExpireStep(k), streams', store, scope)
          /\ Calm((<<>> \o ScheduleStep(k)) \o ExpireStep(k), streams', store, scope)
      BY <1>1, CalmDrops
    <3> QED BY <3>1, <3>2, Zenon
  <2> QED BY <2>1, <2>2
<1>14. Buffered(streams', work', in_flight', chunk')
  <2>1. \A j : Queueing(work, j) = 0 /\ Queueing(work', j) = 0
    BY <1>1, <1>13, QueueingNone DEF Calm
  <2>2. s.buffered_send_data
          = Total(s.pending_send) + Queueing(work, k) + Flight(in_flight, chunk, k)
    BY <1>3 DEF Buffered, s
  <2>3. t.buffered_send_data
          = Total(t.pending_send) + Queueing(work', k) + Flight(in_flight', chunk', k)
    <3>1. Flight(in_flight', chunk', k) = Flight(in_flight, chunk, k)
      BY <1>2
    <3> QED BY <1>10, <2>1, <2>2, <3>1
  <2>4. Elsewhere(k, work, in_flight, chunk, work', in_flight', chunk')
    BY <1>2, <2>1 DEF Elsewhere
  <2>5. Swaps(streams, streams', k, t)
    BY <1>2, <1>3 DEF Swaps
  <2> QED BY <1>3, <2>3, <2>4, <2>5, BufferedMoves
<1>15. Loops'
  <2>1. Free(work', {"grow"})
    BY <1>13 DEF Calm
  <2> QED BY <1>1, <2>1, LoopsKept
<1>16. Ranges' /\ Slab'
  <2>1. task' \in BOOLEAN
    BY <1>2, <1>3
  <2> QED BY <1>2, <2>1, Facts, Steady
<1>17. WorkOK(work', streams', store', scope')
  BY <1>2, <1>13 DEF Calm
<1> QED BY <1>12, <1>14, <1>15, <1>16, <1>17 DEF SInv

\* A stream whose window shrinks gives back what it may no longer use.
LEMMA ShrunkGood ==
  ASSUME NEW s, NEW sc, Good(s, sc), NEW d \in Nat
  PROVE  LET t == Shrunk(s, d)
         IN /\ Good(t, sc) /\ t.is_counted = s.is_counted
            /\ t.ref_count = s.ref_count /\ t.pending_send = s.pending_send
            /\ t.buffered_send_data = s.buffered_send_data
            /\ t.send_flow.available \in Int
            /\ s.send_flow.available - t.send_flow.available \in Nat
<1> DEFINE f == DecSendWindow(s.send_flow, d)
           a == s.send_flow.available
           w == s.send_flow.window_size
           v == w - d
           g == IF AsSize(f.available) > AsSize(f.window_size)
                THEN ClaimCapacity(f, AsSize(f.available) - AsSize(f.window_size)) ELSE f
           b == IF AsSize(a) > AsSize(v) THEN a - (AsSize(a) - AsSize(v)) ELSE a
           t == [s EXCEPT !.send_flow = g]
<1>1. s \in Stream /\ s.pending_send \in Seq(Sent)
  BY DEF Good
<1>2. /\ a \in Int /\ w \in Int /\ s.send_flow \in FlowControl
      /\ s.requested_send_capacity \in Nat
  BY <1>1, StreamFields
<1>3. f \in FlowControl /\ f.available = a /\ f.window_size = v
  BY <1>2 DEF DecSendWindow, FlowControl
<1>4. Shrunk(s, d) = t
  BY DEF Shrunk
<1> HIDE DEF f
<1>5. /\ v \in Int /\ AsSize(a) \in Nat /\ AsSize(v) \in Nat
      /\ (a <= AsSize(a)) /\ (AsSize(a) > 0 => a = AsSize(a))
  BY <1>2 DEF AsSize
<1>6. g \in FlowControl /\ g.available = b /\ g.window_size = v
  BY <1>2, <1>3, <1>5 DEF ClaimCapacity, FlowControl
<1> HIDE DEF g
<1>7. /\ t \in Stream /\ t.send_flow = g /\ t.is_counted = s.is_counted
      /\ t.ref_count = s.ref_count /\ t.pending_send = s.pending_send
      /\ t.buffered_send_data = s.buffered_send_data
      /\ t.requested_send_capacity = s.requested_send_capacity
  BY <1>1, <1>6 DEF Stream
<1> HIDE DEF t, v
<1>8. /\ a <= s.requested_send_capacity
      /\ s.buffered_send_data <= s.requested_send_capacity
      /\ Unreserved(sc) =>
           /\ 0 <= a
           /\ Uses(sc) => s.requested_send_capacity = s.buffered_send_data
  BY DEF Good
<1> HIDE DEF a
<1>9. b <= a /\ b <= AsSize(v) /\ b \in Int /\ (0 <= a => 0 <= b)
  <2>1. CASE AsSize(a) > AsSize(v)
    <3>1. b = a - (AsSize(a) - AsSize(v)) /\ a = AsSize(a)
      BY <1>5, <2>1
    <3> HIDE DEF b
    <3>2. b = AsSize(v)
      BY <1>5, <3>1
    <3> QED BY <1>5, <2>1, <3>1, <3>2
  <2>2. CASE ~(AsSize(a) > AsSize(v))
    <3>1. b = a
      BY <2>2
    <3> QED BY <1>2, <1>5, <2>2, <3>1
  <2> QED BY <2>1, <2>2
<1> HIDE DEF b
<1>10. /\ t.send_flow.available = b /\ t.send_flow.window_size = v
  BY <1>6, <1>7
<1>11. b <= s.requested_send_capacity
  BY <1>2, <1>8, <1>9
<1>12. Good(t, sc)
  <2>1. t.pending_send \in Seq(Sent)
    BY <1>1, <1>7
  <2> QED BY <1>7, <1>8, <1>9, <1>10, <1>11, <2>1 DEF Good
<1>13. a - b \in Nat
  BY <1>2, <1>9
<1> QED BY <1>4, <1>7, <1>9, <1>10, <1>12, <1>13 DEF a

\* Every record may change, as long as the window of the connection follows.
LEMMA BalanceOfAll ==
  ASSUME NEW str, NEW str2, NEW sc, Records(str, sc), Records(str2, sc),
         NEW fl \in FlowControl, Balance(str, fl, sc),
         NEW back \in [StreamId -> Nat],
         \A k \in StreamId : str[k].send_flow.available
                               = str2[k].send_flow.available + back[k],
         NEW fl2 \in FlowControl, fl2.window_size = fl.window_size,
         fl2.available = fl.available + SumOf(back, StreamId)
  PROVE  Balance(str2, fl2, sc)
<1> DEFINE f == [j \in StreamId |-> str[j].send_flow.available]
           g == [j \in StreamId |-> str2[j].send_flow.available]
<1>1. SUFFICES ASSUME Unreserved(sc)
               PROVE  0 <= fl2.available /\ fl2.available + SumOf(g, StreamId) = fl2.window_size
  BY DEF Balance
<1>2. 0 <= fl.available /\ fl.available + SumOf(f, StreamId) = fl.window_size
  BY <1>1 DEF Balance
<1>3. \A j \in StreamId : str[j] \in Stream /\ str2[j] \in Stream
  BY DEF Records
<1>4. f \in [StreamId -> Int] /\ g \in [StreamId -> Int]
  BY <1>3, StreamFields
<1>5. back \in [StreamId -> Int] /\ IsFiniteSet(StreamId)
  BY StreamIds
<1>6. \A j \in StreamId : f[j] = g[j] + back[j]
  OBVIOUS
<1> HIDE DEF f, g
<1>7. SumOf(f, StreamId) = SumOf(g, StreamId) + SumOf(back, StreamId)
  BY <1>4, <1>5, <1>6, SumOfSums
<1>8. SumOf(back, StreamId) \in Nat
  BY <1>5, SumBounds
<1>9. SumOf(f, StreamId) \in Int /\ SumOf(g, StreamId) \in Int
  BY <1>4, <1>5, SumType
<1>10. /\ fl.available \in Int /\ fl.window_size \in Int
       /\ fl2.available \in Int /\ fl2.window_size \in Int
  BY DEF FlowControl
<1> DEFINE x == SumOf(f, StreamId)
           y == SumOf(g, StreamId)
           z == SumOf(back, StreamId)
           p == fl.available
           q == fl2.available
           w == fl.window_size
<1>11. /\ x \in Int /\ y \in Int /\ z \in Nat /\ p \in Int /\ q \in Int /\ w \in Int
       /\ 0 <= p /\ p + x = w /\ x = y + z /\ q = p + z
  BY <1>2, <1>7, <1>8, <1>9, <1>10
<1>12. fl2.window_size = w
  OBVIOUS
<1> HIDE DEF x, y, z, p, q, w
<1>13. 0 <= q /\ q + y = w
  BY <1>11
<1> QED BY <1>12, <1>13 DEF y, q

\* LowerWindows
LEMMA LowerWindowsKeeps ==
  ASSUME SInv, NEW v \in InitWindows, LowerWindows(v)
  PROVE  SInv'
<1> DEFINE d == init_window_sz - v
           next == [k \in StreamId |-> IF k \in ids THEN Shrunk(streams[k], d)
                                                    ELSE streams[k]]
           back == [k \in StreamId |-> streams[k].send_flow.available
                                         - next[k].send_flow.available]
<1>1. /\ work = <<>> /\ v < init_window_sz /\ conn = "recv"
      /\ streams' = next /\ flow' = AssignCapacity(flow, SumOver(back, ids))
      /\ init_window_sz' = v /\ work' = AssignStep
      /\ UNCHANGED <<scope, store, ids, num_send_streams, pending_send, pending_capacity,
                     pending_open, max_send_streams, next_stream_id, conn_error,
                     in_flight, chunk, task, conn, todo>>
  BY DEF LowerWindows, Reading, slab, queues, peer, codec
<1>2. /\ streams \in [StreamId -> Stream] /\ flow \in FlowControl
      /\ Core(streams, store, flow, num_send_streams, scope)
      /\ Buffered(streams, work, in_flight, chunk)
      /\ ids \subseteq store /\ store \subseteq StreamId
      /\ \A k \in StreamId : Good(streams[k], scope)
  BY Facts
<1>3. d \in Nat
  <2>1. scope \in Scopes /\ init_window_sz \in InitWindows
    BY DEF SInv, Ranges
  <2>2. InitWindows \subseteq Nat
    BY <2>1, SendAssumption DEF InitWindows, Scope
  <2> QED BY <1>1, <2>1, <2>2
<1> HIDE DEF d
<1>4. ASSUME NEW k \in StreamId
      PROVE  /\ Good(next[k], scope) /\ next[k].is_counted = streams[k].is_counted
             /\ next[k].ref_count = streams[k].ref_count
             /\ next[k].pending_send = streams[k].pending_send
             /\ next[k].buffered_send_data = streams[k].buffered_send_data
             /\ next[k].send_flow.available \in Int
             /\ streams[k].send_flow.available \in Int
             /\ streams[k].send_flow.available - next[k].send_flow.available \in Nat
             /\ k \notin ids => next[k] = streams[k]
  <2>1. Good(streams[k], scope) /\ streams[k] \in Stream
    BY <1>2
  <2>2. streams[k].send_flow.available \in Int
    BY <2>1, StreamFields
  <2>3. CASE k \in ids
    <3>1. next[k] = Shrunk(streams[k], d)
      BY <2>3
    <3> HIDE DEF next
    <3> DEFINE s == streams[k]
               t == Shrunk(s, d)
    <3>2. Good(s, scope)
      BY <2>1
    <3>3. /\ Good(t, scope) /\ t.is_counted = s.is_counted
          /\ t.ref_count = s.ref_count /\ t.pending_send = s.pending_send
          /\ t.buffered_send_data = s.buffered_send_data
          /\ t.send_flow.available \in Int
          /\ s.send_flow.available - t.send_flow.available \in Nat
      <4> HIDE DEF s
      <4> QED BY <1>3, <3>2, ShrunkGood
    <3>4. next[k] = t
      BY <3>1
    <3> HIDE DEF t
    <3> QED BY <2>2, <2>3, <3>3, <3>4
  <2>4. CASE k \notin ids
    <3>1. next[k] = streams[k]
      BY <2>4
    <3> HIDE DEF next
    <3>2. streams[k].send_flow.available - streams[k].send_flow.available \in Nat
      BY <2>2
    <3> QED BY <2>1, <2>2, <3>1, <3>2
  <2> QED BY <2>3, <2>4
<1>5. next \in [StreamId -> Stream]
  BY <1>4 DEF Good
<1> HIDE DEF next
<1>6. back \in [StreamId -> Nat]
  BY <1>4
<1>7. \A k \in StreamId :
        /\ streams[k].send_flow.available = next[k].send_flow.available + back[k]
        /\ k \notin ids => back[k] = 0
  BY <1>4
<1> HIDE DEF back
<1>8. SumOver(back, ids) = SumOf(back, StreamId) /\ SumOf(back, StreamId) \in Nat
  <2>1. back \in [StreamId -> Int] /\ IsFiniteSet(StreamId) /\ ids \in SUBSET StreamId
    BY <1>2, <1>6, StreamIds
  <2>2. SumOf(back, ids) = SumOf(back, StreamId)
    BY <1>7, <2>1, SumWithoutZeros
  <2> QED BY <1>6, <2>1, <2>2, SumsAgree, SumBounds
<1>9. /\ flow' \in FlowControl /\ flow'.window_size = flow.window_size
      /\ flow'.available = flow.available + SumOf(back, StreamId)
  BY <1>1, <1>2, <1>8 DEF AssignCapacity, FlowControl
<1>10. Records(next, scope)
  BY <1>4, <1>5 DEF Records
<1>11. Core(next, store, flow', num_send_streams, scope)
  <2>1. Balance(next, flow', scope)
    BY <1>2, <1>6, <1>7, <1>9, <1>10, BalanceOfAll DEF Core
  <2>2. Marked(next) = Marked(streams)
    BY <1>4 DEF Marked
  <2>3. Absent(next, store, scope)
    <3>1. \A k \in StreamId \ store : next[k] = streams[k]
      BY <1>2, <1>4
    <3>2. \A k \in store : next[k].ref_count = streams[k].ref_count
      BY <1>2, <1>4
    <3>3. Absent(streams, store, scope)
      BY <1>2 DEF Core
    <3>4. ASSUME NEW k \in StreamId \ store
          PROVE  /\ next[k].buffered_send_data = 0 /\ next[k].pending_send = <<>>
                 /\ Unreserved(scope) => next[k].send_flow.available = 0
      <4>1. next[k] = streams[k]
        BY <3>1
      <4> QED BY <3>3, <4>1, Zenon DEF Absent
    <3>5. ASSUME ~Uses(scope), NEW k \in store
          PROVE  next[k].ref_count = 1
      <4>1. streams[k].ref_count = 1
        BY <3>3, <3>5, Zenon DEF Absent
      <4> QED BY <3>2, <4>1
    <3> QED BY <3>4, <3>5 DEF Absent
  <2> QED BY <1>2, <1>9, <1>10, <2>1, <2>2, <2>3 DEF Core, Counted
<1>12. Calm(work', streams', store, scope)
  BY <1>1, CalmSteps
<1>13. Buffered(streams', work', in_flight', chunk')
  <2>1. \A j : Queueing(work, j) = 0 /\ Queueing(work', j) = 0
    BY <1>1, <1>12, QueueingNone DEF Calm
  <2>2. ASSUME NEW k \in StreamId
        PROVE  next[k].buffered_send_data
                 = Total(next[k].pending_send) + Queueing(work', k)
                     + Flight(in_flight', chunk', k)
    <3>1. streams[k].buffered_send_data
            = Total(streams[k].pending_send) + Queueing(work, k) + Flight(in_flight, chunk, k)
      BY <1>2 DEF Buffered
    <3>2. Flight(in_flight', chunk', k) = Flight(in_flight, chunk, k)
      BY <1>1
    <3> QED BY <1>4, <2>1, <3>1, <3>2
  <2> QED BY <1>1, <2>2 DEF Buffered
<1>14. Loops'
  <2>1. Free(work', {"grow"}) /\ conn' # "send"
    BY <1>1, <1>12 DEF Calm
  <2> QED BY <2>1, LoopsKept
<1>15. Ranges'
  <2>1. Ranges
    BY DEF SInv
  <2> QED BY <1>1, <2>1 DEF Ranges, InitWindows, SendLimits
<1>16. Slab'
  <2>1. Slab
    BY DEF SInv
  <2> QED BY <1>1, <2>1 DEF Slab, Remote
<1>17. /\ Core(streams', store', flow', num_send_streams', scope')
       /\ WorkOK(work', streams', store', scope')
  BY <1>1, <1>11, <1>12 DEF Calm
<1> QED BY <1>13, <1>14, <1>15, <1>16, <1>17 DEF SInv

-----------------------------------------------------------------------------
(* The actions that open streams.                                            *)

\* A queue over more streams.
LEMMA SeqGrows ==
  ASSUME NEW S, NEW T, S \subseteq T, NEW q \in Seq(S)
  PROVE  q \in Seq(T)
OBVIOUS

\* The capacity stays where it is.
LEMMA CoreCounts ==
  ASSUME NEW str, NEW st, NEW fl, NEW n, NEW sc, Core(str, st, fl, n, sc),
         NEW k \in StreamId, NEW t, Good(t, sc),
         Unreserved(sc) => t.send_flow.available = str[k].send_flow.available,
         NEW st2, \A j \in StreamId : j # k => (j \in st2 <=> j \in st),
         k \in st2, st2 \subseteq StreamId, ~Uses(sc) => t.ref_count = 1,
         NEW m \in Int,
         n + (IF t.is_counted THEN 1 ELSE 0) <= m + (IF str[k].is_counted THEN 1 ELSE 0)
  PROVE  Core([str EXCEPT ![k] = t], st2, fl, m, sc)
<1>1. fl \in FlowControl /\ str[k] \in Stream
  BY DEF Core, Records
<1>2. Unreserved(sc) => Moves(str[k], t, fl, fl)
  BY <1>1, StillMoves
<1> QED BY <1>1, <1>2, CoreMoves

\* A stream that was just opened, with the frames q.
Fresh(t, c, q) ==
  /\ t \in Stream /\ t.pending_send = q /\ t.is_counted = c /\ t.ref_count = 1
  /\ t.send_flow.available = 0
  /\ t.requested_send_capacity = 0 /\ t.buffered_send_data = 0

\* A new stream is one.
LEMMA NewStreamFresh ==
  ASSUME NEW w \in Int
  PROVE  Fresh(NewStream(w), FALSE, <<>>)
<1>1. [window_size |-> w, available |-> 0] \in FlowControl
  BY DEF FlowControl
<1>2. Idle \in State /\ <<>> \in Seq(Frame)
  BY StateValues
<1>3. NewStream(w) \in Stream
  BY <1>1, <1>2 DEF NewStream, Stream, Tasks
<1> QED BY <1>3 DEF NewStream, Fresh

\* It asks for nothing, so it has not too much.
LEMMA FreshGood ==
  ASSUME NEW t, NEW c, NEW q \in Seq(Sent), Fresh(t, c, q), NEW sc
  PROVE  Good(t, sc)
<1>1. t.send_flow.window_size \in Int
  BY StreamFields DEF Fresh
<1>2. 0 <= AsSize(t.send_flow.window_size)
  BY <1>1 DEF AsSize
<1> QED BY <1>2 DEF Fresh, Good

\* Nothing of a stream outside the slab is left in the codec.
LEMMA NothingLeft ==
  ASSUME SInv, work = <<>>, NEW k \in StreamId, k \notin store
  PROVE  /\ Flight(in_flight, chunk, k) = 0
         /\ Unreserved(scope) => streams[k].send_flow.available = 0
<1>1. /\ Absent(streams, store, scope) /\ Buffered(streams, work, in_flight, chunk)
      /\ streams[k] \in Stream
  BY Facts DEF Core
<1>2. /\ streams[k].buffered_send_data = 0
      /\ Unreserved(scope) => streams[k].send_flow.available = 0
  BY <1>1 DEF Absent
<1>3. streams[k].buffered_send_data
        = Total(streams[k].pending_send) + Queueing(work, k) + Flight(in_flight, chunk, k)
  BY <1>1 DEF Buffered
<1>4. Queueing(work, k) = 0
  BY QueueingNone
<1>5. Total(streams[k].pending_send) \in Nat /\ Flight(in_flight, chunk, k) \in Nat
  BY <1>1, Facts, StreamFields, TotalType DEF Flight
<1>6. Flight(in_flight, chunk, k) = 0
  BY <1>2, <1>3, <1>4, <1>5
<1> QED BY <1>2, <1>6

\* The initial window is a number, and so is the size of every initial window.
LEMMA WindowIsNat ==
  ASSUME SInv
  PROVE  init_window_sz \in Int
<1>1. scope \in Scopes /\ init_window_sz \in InitWindows
  BY DEF SInv, Ranges
<1>2. InitWindows \subseteq Nat
  BY <1>1, SendAssumption DEF InitWindows, Scope
<1> QED BY <1>1, <1>2

\* RecvRequest
LEMMA RecvRequestKeeps ==
  ASSUME SInv, NEW k \in StreamId, NEW eos \in BOOLEAN, RecvRequest(k, eos)
  PROVE  SInv'
<1> DEFINE st == RecvOpen(Idle, eos, FALSE)
           new == NewStream(init_window_sz)
           t == [new EXCEPT !.state = st]
<1>1. /\ work = <<>> /\ work' = work /\ conn' = "recv" /\ k \in Remote /\ k \notin store
      /\ streams' = [streams EXCEPT ![k] = t]
      /\ store' = store \cup {k} /\ ids' = ids \cup {k}
      /\ UNCHANGED <<num_send_streams, scope, init_window_sz, max_send_streams,
                     next_stream_id, conn_error, todo, task, chunk, in_flight, flow, codec,
                     pending_send, pending_capacity, pending_open>>
  BY DEF RecvRequest, Reading, queues, settings, peer, codec
<1>2. st \in State
  BY RecvOpenType
<1>3. Fresh(new, FALSE, <<>>)
  BY WindowIsNat, NewStreamFresh
<1> HIDE DEF st, new
<1>4. Fresh(t, FALSE, <<>>)
  BY <1>2, <1>3 DEF Fresh, Stream
<1> HIDE DEF t
<1>5. /\ Good(t, scope)
      /\ t.send_flow.available = 0 /\ t.ref_count = 1 /\ t.is_counted = FALSE
      /\ t.pending_send = <<>> /\ t.buffered_send_data = 0
  <2>1. <<>> \in Seq(Sent)
    OBVIOUS
  <2>2. Good(t, scope)
    BY <1>4, <2>1, FreshGood
  <2> QED BY <1>4, <2>2 DEF Fresh
<1>6. /\ Flight(in_flight, chunk, k) = 0
      /\ Unreserved(scope) => streams[k].send_flow.available = 0
  BY <1>1, NothingLeft
<1>7. num_send_streams \in Nat
  BY Facts
<1>8. Ranges'
  BY <1>1 DEF SInv, Ranges, InitWindows, SendLimits
<1>9. Slab'
  <2>1. /\ store \subseteq StreamId /\ ids \subseteq store
        /\ pending_send \in Seq(store) /\ pending_capacity \in Seq(store)
        /\ pending_open \in Seq(store)
        /\ \A j \in store \cup Remote : j < next_stream_id
    BY DEF SInv, Slab
  <2>2. /\ pending_send' \in Seq(store') /\ pending_capacity' \in Seq(store')
        /\ pending_open' \in Seq(store')
    BY <1>1, <2>1, SeqGrows
  <2>3. \A j \in store' \cup Remote' : j < next_stream_id'
    BY <1>1, <2>1 DEF Remote
  <2> QED BY <1>1, <2>1, <2>2, <2>3 DEF Slab
<1>10. Backed(t, k, in_flight, chunk)
  BY <1>5, <1>6, TotalOfNone DEF Backed
<1>11. Follows(work', work, streams', store', scope)
  BY <1>1, CalmNone, CalmFollows
<1>12. num_send_streams + (IF t.is_counted THEN 1 ELSE 0)
         <= num_send_streams' + (IF streams[k].is_counted THEN 1 ELSE 0)
  BY <1>1, <1>5, <1>7
<1>13. \A j \in StreamId : j # k => (j \in store' <=> j \in store)
  BY <1>1
<1>14. /\ k \in store' /\ (~Uses(scope) => t.ref_count = 1)
       /\ (Unreserved(scope) => t.send_flow.available = streams[k].send_flow.available)
       /\ num_send_streams' \in Int /\ (conn' = "send" => in_flight = 0)
  BY <1>1, <1>5, <1>6, <1>7
<1>15. UNCHANGED <<scope, flow, codec>> /\ work = <<>> /\ streams' = [streams EXCEPT ![k] = t]
  BY <1>1
<1> QED BY <1>5, <1>8, <1>9, <1>10, <1>11, <1>12, <1>13, <1>14, <1>15, OneStreamCounted

\* A stream of this side joins the slab: the counter moves past it.
LEMMA SlabGrows ==
  ASSUME SInv, NEW k \in StreamId, k = next_stream_id,
         store' = store \cup {k}, ids' = ids \cup {k}, next_stream_id' = k + 1,
         UNCHANGED <<scope, init_window_sz, max_send_streams, conn_error, todo,
                     in_flight, chunk>>,
         task' \in BOOLEAN, pending_send' \in Seq(store'),
         pending_capacity' \in Seq(store'), pending_open' \in Seq(store')
  PROVE  Ranges' /\ Slab' /\ k \notin store
<1>1. Ranges /\ Slab
  BY DEF SInv
<1>2. MaxId \in Nat /\ k \in 1 .. MaxId
  BY StreamIds DEF StreamId
<1>3. next_stream_id' \in 1 .. MaxId + 1
  BY <1>2
<1>4. Ranges'
  BY <1>1, <1>3 DEF Ranges, InitWindows, SendLimits
<1>5. \A j \in store \cup Remote : j < k
  BY <1>1 DEF Slab
<1>6. k \notin store
  BY <1>2, <1>5
<1>7. store \cup Remote \subseteq Int
  <2>1. scope \in Scopes /\ store \subseteq StreamId
    BY <1>1 DEF Ranges, Slab
  <2>2. scope.remote \in {1 .. n : n \in 0 .. MaxId}
    BY <2>1, SendAssumption DEF Scope
  <2>3. \A j \in scope.remote : j \in Int
    BY <2>2
  <2>4. \A j \in store : j \in Int
    BY <2>1, StreamIds
  <2> QED BY <2>3, <2>4 DEF Remote
<1>8. \A j \in store' \cup Remote' : j < next_stream_id'
  BY <1>2, <1>5, <1>7 DEF Remote
<1>9. store' \subseteq StreamId /\ ids' \subseteq store'
  BY <1>1 DEF Slab
<1> QED BY <1>4, <1>6, <1>8, <1>9 DEF Slab

\* The frames that open and promise streams have no data.
LEMMA OpeningFrames ==
  /\ \A eos \in BOOLEAN : /\ HeadersFrame(eos) \in Sent /\ HeadersFrame(eos) \in Frame
                          /\ HeadersFrame(eos).size = 0
  /\ \A c \in StreamId : /\ PushFrame(c) \in Sent /\ PushFrame(c) \in Frame
                         /\ PushFrame(c).size = 0
<1>1. 0 \in 0 .. MaxId /\ \A c \in StreamId : c \in 0 .. MaxId
  BY SendAssumption DEF StreamId
<1>2. ASSUME NEW eos \in BOOLEAN
      PROVE  /\ HeadersFrame(eos) \in Sent /\ HeadersFrame(eos) \in Frame
             /\ HeadersFrame(eos).size = 0
  BY <1>1 DEF HeadersFrame, Sent, Frame
<1>3. ASSUME NEW c \in StreamId
      PROVE  PushFrame(c) \in Sent /\ PushFrame(c) \in Frame /\ PushFrame(c).size = 0
  BY <1>1 DEF PushFrame, Sent, Frame
<1> QED BY <1>2, <1>3

\* SendRequest
LEMMA SendRequestKeeps ==
  ASSUME SInv, NEW k \in StreamId, NEW eos \in BOOLEAN, SendRequest(k, eos)
  PROVE  SInv'
<1> DEFINE now == CanIncNumSendStreams
           new == NewStream(init_window_sz)
           st == SendOpen(Idle, eos)
           f == HeadersFrame(eos)
           q == <<f>>
           t == [new EXCEPT !.state = st, !.is_counted = now, !.pending_send = q]
<1>1. /\ work = <<>> /\ work' = work /\ conn # "send" /\ conn' = conn
      /\ k = next_stream_id
      /\ streams' = [streams EXCEPT ![k] = t]
      /\ num_send_streams' = num_send_streams + (IF now THEN 1 ELSE 0)
      /\ pending_open' = IF now THEN pending_open ELSE Push(pending_open, k)
      /\ pending_send' = IF now THEN Push(pending_send, k) ELSE pending_send
      /\ task' = (task /\ ~now)
      /\ store' = store \cup {k} /\ ids' = ids \cup {k} /\ next_stream_id' = k + 1
      /\ UNCHANGED <<scope, init_window_sz, max_send_streams, conn_error, todo,
                     in_flight, chunk, flow, codec, pending_capacity>>
  BY DEF SendRequest, Idling, settings, peer, codec
<1>2. /\ pending_open \in Seq(store) /\ pending_send \in Seq(store)
      /\ pending_capacity \in Seq(store) /\ task \in BOOLEAN
      /\ num_send_streams \in Nat
  BY Facts
<1>3. Fresh(new, FALSE, <<>>)
  BY WindowIsNat, NewStreamFresh
<1>4. st \in State
  <2>1. Idle \in State /\ CanSendOpen(Idle)
    BY StateValues DEF CanSendOpen, Idle, Value
  <2> QED BY <2>1, SendOpenType
<1>5. f \in Sent /\ f \in Frame /\ f.size = 0
  BY OpeningFrames
<1>6. now \in BOOLEAN
  BY DEF CanIncNumSendStreams
<1> HIDE DEF new, st, f, now
<1>7. q \in Seq(Sent) /\ q \in Seq(Frame)
  BY <1>5
<1>8. Total(q) = 0
  <2>1. <<>> \in Seq(Frame) /\ <<f>> \o <<>> = <<f>>
    BY <1>5
  <2>2. Total(<<f>> \o <<>>) = f.size + Total(<<>>)
    BY <1>5, <2>1, TotalInFront
  <2> QED BY <1>5, <2>1, <2>2, TotalOfNone
<1> HIDE DEF q
<1>9. Fresh(t, now, q)
  BY <1>3, <1>4, <1>6, <1>7 DEF Fresh, Stream
<1> HIDE DEF t
<1>10. /\ Good(t, scope) /\ t.send_flow.available = 0 /\ t.ref_count = 1
       /\ t.is_counted = now /\ t.pending_send = q /\ t.buffered_send_data = 0
  <2>1. Good(t, scope)
    BY <1>7, <1>9, FreshGood
  <2> QED BY <1>9, <2>1 DEF Fresh
<1>11. Ranges' /\ Slab' /\ k \notin store
  <2>1. /\ pending_send \in Seq(store') /\ pending_capacity \in Seq(store')
        /\ pending_open \in Seq(store')
    BY <1>1, <1>2, SeqGrows
  <2>2. k \in store'
    BY <1>1
  <2>3. Push(pending_open, k) \in Seq(store') /\ Push(pending_send, k) \in Seq(store')
    BY <2>1, <2>2, QueueMoves
  <2>4. /\ pending_send' \in Seq(store') /\ pending_capacity' \in Seq(store')
        /\ pending_open' \in Seq(store')
    BY <1>1, <2>1, <2>3
  <2>5. task' \in BOOLEAN
    BY <1>1, <1>2
  <2> QED BY <1>1, <2>4, <2>5, SlabGrows
<1>12. /\ Flight(in_flight, chunk, k) = 0
       /\ Unreserved(scope) => streams[k].send_flow.available = 0
  BY <1>1, <1>11, NothingLeft
<1>13. Backed(t, k, in_flight, chunk)
  BY <1>8, <1>10, <1>12 DEF Backed
<1>14. Follows(work', work, streams', store', scope)
  BY <1>1, CalmNone, CalmFollows
<1>15. num_send_streams + (IF t.is_counted THEN 1 ELSE 0)
         <= num_send_streams' + (IF streams[k].is_counted THEN 1 ELSE 0)
  <2> DEFINE b == streams[k].is_counted
  <2>1. num_send_streams' = num_send_streams + (IF now THEN 1 ELSE 0)
    BY <1>1
  <2> HIDE DEF b
  <2>2. num_send_streams + (IF now THEN 1 ELSE 0)
          <= num_send_streams' + (IF b THEN 1 ELSE 0)
    BY <1>2, <2>1
  <2> QED BY <1>10, <2>2 DEF b
<1>16. \A j \in StreamId : j # k => (j \in store' <=> j \in store)
  BY <1>1
<1>17. /\ k \in store' /\ (~Uses(scope) => t.ref_count = 1)
       /\ (Unreserved(scope) => t.send_flow.available = streams[k].send_flow.available)
       /\ num_send_streams' \in Int /\ (conn' = "send" => in_flight = 0)
  BY <1>1, <1>2, <1>10, <1>12
<1>18. UNCHANGED <<scope, flow, codec>> /\ work = <<>> /\ streams' = [streams EXCEPT ![k] = t]
  BY <1>1
<1> QED BY <1>10, <1>11, <1>13, <1>14, <1>15, <1>16, <1>17, <1>18, OneStreamCounted

\* SendResponse
LEMMA SendResponseKeeps ==
  ASSUME SInv, NEW k \in StreamId, NEW eos \in BOOLEAN, SendResponse(k, eos)
  PROVE  SInv'
<1> DEFINE s == streams[k]
           r == Runs(s)
           opens == IsLocalInit(k) /\ ~s.is_pending_push
           now == opens /\ CanIncNumSendStreams
           later == opens /\ ~CanIncNumSendStreams
           st == SendOpen(r.state, eos)
           f == HeadersFrame(eos)
           q == Append(r.pending_send, f)
           b == r.is_counted \/ now
           t == [r EXCEPT !.state = st, !.is_counted = b, !.pending_send = q]
           ready == ~later /\ IsSendReady(t, k)
<1>1. work = <<>> /\ conn # "send" /\ k \in store /\ s \in Stream /\ s.ref_count = 1
  BY HeldFacts DEF SendResponse
<1>2. /\ CanSendOpen(s.state)
      /\ streams' = [streams EXCEPT ![k] = t]
      /\ num_send_streams' = num_send_streams + (IF now THEN 1 ELSE 0)
      /\ pending_open' = (IF later THEN Push(pending_open, k) ELSE pending_open)
      /\ pending_send' = (IF ready THEN Push(pending_send, k) ELSE pending_send)
      /\ task' = (task /\ ~ready)
      /\ work' = AfterStep(k)
      /\ UNCHANGED <<store, ids, scope, settings, next_stream_id, conn_error, todo,
                     chunk, in_flight, flow, codec, conn, pending_capacity>>
  BY DEF SendResponse, settings, peer, codec
<1>3. Good(s, scope)
  BY Facts
<1>4. Silent(s, r) /\ r \in Stream
  BY <1>1, RunsSilent DEF Silent
<1>5. Good(r, scope) /\ r.pending_send \in Seq(Sent) /\ r.pending_send \in Seq(Frame)
  <2>1. Good(r, scope)
    BY <1>3, <1>4, SilentGood
  <2> QED BY <2>1, SentFrames DEF Good
<1>6. /\ r.state = s.state /\ r.is_counted = s.is_counted /\ r.ref_count = s.ref_count
      /\ r.send_flow = s.send_flow /\ r.pending_send = s.pending_send
      /\ r.buffered_send_data = s.buffered_send_data
  BY <1>4 DEF Silent, Like
<1>7. r.state \in State /\ r.is_counted \in BOOLEAN
  BY <1>4, StreamFields
<1>8. st \in State
  BY <1>2, <1>6, <1>7, SendOpenType
<1>9. f \in Sent /\ f \in Frame /\ f.size = 0
  BY OpeningFrames
<1>10. now \in BOOLEAN /\ later \in BOOLEAN
  BY DEF CanIncNumSendStreams, IsLocalInit
<1> HIDE DEF r, st, f, now, later
<1>11. q \in Seq(Sent) /\ q \in Seq(Frame) /\ b \in BOOLEAN
  <2>1. q \in Seq(Sent)
    BY <1>5, <1>9, AppendIn
  <2> QED BY <1>7, <1>10, <2>1, SentFrames
<1>12. Total(q) = Total(s.pending_send)
  <2>1. Total(q) = Total(r.pending_send) + f.size
    BY <1>5, <1>9, TotalAppend
  <2>2. Total(r.pending_send) \in Nat
    BY <1>5, TotalType
  <2>3. Total(q) = Total(r.pending_send)
    BY <1>9, <2>1, <2>2
  <2> QED BY <1>6, <2>3
<1> HIDE DEF s, q
<1>13. /\ t \in Stream /\ t.pending_send = q /\ t.is_counted = b
       /\ t.ref_count = r.ref_count /\ t.send_flow = r.send_flow
       /\ t.requested_send_capacity = r.requested_send_capacity
       /\ t.buffered_send_data = r.buffered_send_data
  BY <1>4, <1>8, <1>11 DEF Stream
<1> HIDE DEF t, ready
<1>14. Good(t, scope)
  BY <1>5, <1>11, <1>13, GoodKept
<1>15. Backed(s, k, in_flight, chunk) => Backed(t, k, in_flight, chunk)
  BY <1>6, <1>12, <1>13 DEF Backed
<1>16. /\ pending_send \in Seq(store) /\ pending_capacity \in Seq(store)
       /\ pending_open \in Seq(store) /\ task \in BOOLEAN /\ num_send_streams \in Nat
  BY Facts
<1>17. pending_send' \in Seq(store) /\ pending_open' \in Seq(store) /\ task' \in BOOLEAN
  <2>1. Push(pending_send, k) \in Seq(store) /\ Push(pending_open, k) \in Seq(store)
    BY <1>1, <1>16, QueueMoves
  <2>2. pending_send' \in Seq(store) /\ pending_open' \in Seq(store)
    BY <1>2, <1>16, <2>1
  <2>3. ready \in BOOLEAN
    BY DEF ready, later, IsSendReady
  <2>4. task' \in BOOLEAN
    BY <1>2, <1>16
  <2> QED BY <2>2, <2>4
<1>18. Ranges' /\ Slab'
  BY <1>2, <1>16, <1>17, Facts, Steady
<1>19. Follows(work', work, streams', store', scope)
  BY <1>1, <1>2, CalmSteps, CalmFollows
<1>20. num_send_streams + (IF t.is_counted THEN 1 ELSE 0)
         <= num_send_streams' + (IF s.is_counted THEN 1 ELSE 0)
  <2>1. t.is_counted = (s.is_counted \/ now)
    BY <1>6, <1>13
  <2>2. num_send_streams' = num_send_streams + (IF now THEN 1 ELSE 0)
    BY <1>2
  <2>3. num_send_streams \in Int
    BY <1>16
  <2> DEFINE n == num_send_streams
             m == num_send_streams'
             c == s.is_counted
             d == t.is_counted
  <2>4. /\ n \in Int /\ m = n + (IF now THEN 1 ELSE 0)
        /\ d <=> (c \/ now)
    BY <2>1, <2>2, <2>3
  <2> HIDE DEF n, m, c, d
  <2>5. n + (IF d THEN 1 ELSE 0) <= m + (IF c THEN 1 ELSE 0)
    <3>1. CASE now
      <4>1. m = n + 1
        BY <2>4, <3>1
      <4> QED BY <2>4, <4>1
    <3>2. CASE ~now
      <4>1. m = n /\ (d <=> c)
        BY <2>4, <3>2
      <4> QED BY <2>4, <4>1
    <3> QED BY <3>1, <3>2
  <2> QED BY <2>5 DEF n, m, c, d
<1>21. \A j \in StreamId : j # k => (j \in store' <=> j \in store)
  BY <1>2
<1>22. k \in store' /\ t.ref_count = 1 /\ t.send_flow.available = s.send_flow.available
  BY <1>1, <1>2, <1>6, <1>13
<1>23. num_send_streams' \in Int /\ (conn' = "send" => in_flight = 0)
  BY <1>1, <1>2, <1>16
<1>24. UNCHANGED <<scope, flow, codec>> /\ streams' = [streams EXCEPT ![k] = t]
  BY <1>2
<1> QED BY <1>1, <1>14, <1>15, <1>18, <1>19, <1>20, <1>21, <1>22, <1>23, <1>24,
           OneStreamCounted DEF s

\* Nothing is about to be queued, and one stream keeps its account.
LEMMA BackedMoves ==
  ASSUME NEW str \in [StreamId -> Stream], NEW w, NEW fl, NEW ch,
         Buffered(str, w, fl, ch), NEW w2,
         \A j : Queueing(w, j) = 0, \A j : Queueing(w2, j) = 0,
         NEW k \in StreamId, NEW t \in Stream,
         ch.size \in Nat,
         Backed(str[k], k, fl, ch) => Backed(t, k, fl, ch)
  PROVE  Buffered([str EXCEPT ![k] = t], w2, fl, ch)
<1>1. str[k] \in Stream
  OBVIOUS
<1>2. Total(str[k].pending_send) \in Nat /\ Total(t.pending_send) \in Nat
  BY <1>1, StreamFields, TotalType
<1>3. Flight(fl, ch, k) \in Nat
  BY DEF Flight
<1>4. Backed(str[k], k, fl, ch)
  <2>1. str[k].buffered_send_data
          = Total(str[k].pending_send) + Queueing(w, k) + Flight(fl, ch, k)
    BY DEF Buffered
  <2>2. Queueing(w, k) = 0
    OBVIOUS
  <2> QED BY <1>2, <1>3, <2>1, <2>2 DEF Backed
<1>5. t.buffered_send_data = Total(t.pending_send) + Queueing(w2, k) + Flight(fl, ch, k)
  <2>1. Queueing(w2, k) = 0 /\ Backed(t, k, fl, ch)
    BY <1>4
  <2> QED BY <1>2, <1>3, <2>1 DEF Backed
<1>6. Elsewhere(k, w, fl, ch, w2, fl, ch)
  BY DEF Elsewhere
<1> DEFINE str2 == [str EXCEPT ![k] = t]
<1>7. Swaps(str, str2, k, t)
  BY DEF Swaps
<1> HIDE DEF str2
<1>8. Buffered(str2, w2, fl, ch)
  BY <1>5, <1>6, <1>7, BufferedMoves
<1> QED BY <1>8 DEF str2

\* Two records change, one after the other; the second may be new in the slab.
LEMMA TwoStreams ==
  ASSUME SInv, Ranges', Slab', UNCHANGED <<scope, flow, codec>>, work = <<>>,
         NEW k \in StreamId, NEW s, NEW mid, mid = [streams EXCEPT ![k] = s],
         NEW c \in StreamId, NEW t, streams' = [mid EXCEPT ![c] = t],
         Good(s, scope), Good(t, scope),
         Unreserved(scope) => s.send_flow.available = streams[k].send_flow.available,
         Unreserved(scope) => t.send_flow.available = mid[c].send_flow.available,
         k \in store, store' = store \cup {c},
         ~Uses(scope) => s.ref_count = 1 /\ t.ref_count = 1,
         s.is_counted = streams[k].is_counted, num_send_streams' \in Int,
         num_send_streams + (IF t.is_counted THEN 1 ELSE 0)
           <= num_send_streams' + (IF mid[c].is_counted THEN 1 ELSE 0),
         Backed(streams[k], k, in_flight, chunk) => Backed(s, k, in_flight, chunk),
         Backed(mid[c], c, in_flight, chunk) => Backed(t, c, in_flight, chunk),
         Follows(work', work, streams', store', scope),
         conn' = "send" => in_flight = 0
  PROVE  SInv'
<1>1. /\ streams \in [StreamId -> Stream] /\ s \in Stream /\ t \in Stream
      /\ Core(streams, store, flow, num_send_streams, scope)
      /\ Buffered(streams, work, in_flight, chunk)
      /\ store \subseteq StreamId /\ num_send_streams \in Nat
  BY Facts DEF Good
<1>2. mid \in [StreamId -> Stream]
  BY <1>1
<1>3. Core(mid, store, flow, num_send_streams, scope)
  <2>1. \A j \in StreamId : j # k => (j \in store <=> j \in store)
    OBVIOUS
  <2>2. num_send_streams \in Int
    BY <1>1
  <2>3. num_send_streams + (IF s.is_counted THEN 1 ELSE 0)
          <= num_send_streams + (IF streams[k].is_counted THEN 1 ELSE 0)
    BY <2>2
  <2> QED BY <1>1, <2>1, <2>2, <2>3, CoreCounts
<1>4. Core(streams', store', flow, num_send_streams', scope)
  <2>1. \A j \in StreamId : j # c => (j \in store' <=> j \in store)
    OBVIOUS
  <2>2. c \in store' /\ store' \subseteq StreamId
    BY <1>1
  <2> HIDE DEF Unreserved, Uses
  <2> QED BY <1>1, <1>3, <2>1, <2>2, CoreCounts
<1>5. Core(streams', store', flow', num_send_streams', scope')
  BY <1>4
<1>6. Buffered(streams', work', in_flight', chunk')
  <2>1. \A j : Queueing(work, j) = 0
    BY QueueingNone
  <2>2. \A j : Queueing(work', j) = 0
    BY <2>1 DEF Follows
  <2>3. chunk.size \in Nat
    BY Facts
  <2>4. Buffered(mid, work', in_flight, chunk)
    BY <1>1, <2>1, <2>2, <2>3, BackedMoves
  <2>5. Buffered(streams', work', in_flight, chunk)
    BY <1>1, <1>2, <2>2, <2>3, <2>4, BackedMoves
  <2> QED BY <2>5 DEF codec
<1>7. Loops'
  BY LoopsKept DEF Follows, codec
<1>8. WorkOK(work', streams', store', scope')
  BY DEF Follows
<1> QED BY <1>5, <1>6, <1>7, <1>8 DEF SInv

\* PushRequest
LEMMA PushRequestKeeps ==
  ASSUME SInv, NEW k \in StreamId, NEW c \in StreamId, PushRequest(k, c)
  PROVE  SInv'
<1> DEFINE o == streams[k]
           r == Runs(o)
           f == PushFrame(c)
           q == Append(r.pending_send, f)
           s == [r EXCEPT !.pending_send = q]
           mid == [streams EXCEPT ![k] = s]
           new == NewStream(init_window_sz)
           t == [new EXCEPT !.state = ReservedLocal, !.is_pending_push = TRUE]
<1>1. work = <<>> /\ conn # "send" /\ k \in store /\ o \in Stream /\ o.ref_count = 1
  BY HeldFacts DEF PushRequest
<1>2. /\ c = next_stream_id
      /\ streams' = [mid EXCEPT ![c] = t]
      /\ ScheduleSend(s, k)
      /\ store' = store \cup {c} /\ ids' = ids \cup {c} /\ next_stream_id' = c + 1
      /\ work' = work /\ conn' = conn
      /\ UNCHANGED <<scope, init_window_sz, max_send_streams, conn_error, todo,
                     num_send_streams, chunk, in_flight, flow, codec,
                     pending_capacity, pending_open>>
  BY DEF PushRequest, settings, peer, codec
<1>3. Good(o, scope)
  BY Facts
<1>4. Silent(o, r) /\ r \in Stream
  BY <1>1, RunsSilent DEF Silent
<1>5. Good(r, scope) /\ r.pending_send \in Seq(Sent) /\ r.pending_send \in Seq(Frame)
  <2>1. Good(r, scope)
    BY <1>3, <1>4, SilentGood
  <2> QED BY <2>1, SentFrames DEF Good
<1>6. /\ r.is_counted = o.is_counted /\ r.ref_count = o.ref_count
      /\ r.send_flow = o.send_flow /\ r.pending_send = o.pending_send
      /\ r.buffered_send_data = o.buffered_send_data
  BY <1>4 DEF Silent, Like
<1>7. f \in Sent /\ f \in Frame /\ f.size = 0
  BY OpeningFrames
<1> HIDE DEF r, f
<1>8. q \in Seq(Sent)
  BY <1>5, <1>7, AppendIn
<1>9. Total(q) = Total(o.pending_send)
  <2>1. Total(q) = Total(r.pending_send) + f.size
    BY <1>5, <1>7, TotalAppend
  <2>2. Total(r.pending_send) \in Nat
    BY <1>5, TotalType
  <2>3. Total(q) = Total(r.pending_send)
    BY <1>7, <2>1, <2>2
  <2> QED BY <1>6, <2>3
<1> HIDE DEF q
<1>10. /\ Good(s, scope) /\ s.pending_send = q
       /\ s.is_counted = r.is_counted /\ s.ref_count = r.ref_count
       /\ s.send_flow = r.send_flow /\ s.buffered_send_data = r.buffered_send_data
  BY <1>5, <1>8, WithFrames
<1> HIDE DEF s
<1>11. Fresh(new, FALSE, <<>>)
  BY WindowIsNat, NewStreamFresh
<1> HIDE DEF new
<1>12. Fresh(t, FALSE, <<>>)
  <2>1. ReservedLocal \in State
    BY DEF State
  <2> QED BY <1>11, <2>1 DEF Fresh, Stream
<1> HIDE DEF t
<1>13. /\ Good(t, scope) /\ t.send_flow.available = 0 /\ t.ref_count = 1
       /\ t.is_counted = FALSE /\ t.pending_send = <<>> /\ t.buffered_send_data = 0
  <2>1. <<>> \in Seq(Sent)
    OBVIOUS
  <2>2. Good(t, scope)
    BY <1>12, <2>1, FreshGood
  <2> QED BY <1>12, <2>2 DEF Fresh
<1>14. Ranges' /\ Slab' /\ c \notin store
  <2>1. /\ pending_send \in Seq(store) /\ pending_capacity \in Seq(store)
        /\ pending_open \in Seq(store) /\ task \in BOOLEAN
    BY Facts
  <2>2. pending_send' \in Seq(store) /\ task' \in BOOLEAN
    BY <1>1, <1>2, <2>1, Scheduled
  <2>3. /\ pending_send' \in Seq(store') /\ pending_capacity' \in Seq(store')
        /\ pending_open' \in Seq(store')
    BY <1>2, <2>1, <2>2, SeqGrows
  <2> QED BY <1>2, <2>2, <2>3, SlabGrows
<1>15. /\ Flight(in_flight, chunk, c) = 0
       /\ Unreserved(scope) => streams[c].send_flow.available = 0
  BY <1>1, <1>14, NothingLeft
<1>16. mid[c] = streams[c]
  BY <1>1, <1>14, Facts
<1>17. Backed(t, c, in_flight, chunk)
  BY <1>13, <1>15, TotalOfNone DEF Backed
<1>18. Backed(o, k, in_flight, chunk) => Backed(s, k, in_flight, chunk)
  BY <1>6, <1>9, <1>10 DEF Backed
<1>19. Follows(work', work, streams', store', scope)
  BY <1>1, <1>2, CalmNone, CalmFollows
<1>20. num_send_streams' \in Int
         /\ num_send_streams + (IF t.is_counted THEN 1 ELSE 0)
              <= num_send_streams' + (IF mid[c].is_counted THEN 1 ELSE 0)
  <2> DEFINE n == num_send_streams
             d == mid[c].is_counted
  <2>1. n \in Int /\ num_send_streams' = n /\ t.is_counted = FALSE
    BY <1>2, <1>13, Facts
  <2> HIDE DEF n, d
  <2>2. n + 0 <= n + (IF d THEN 1 ELSE 0)
    BY <2>1
  <2> QED BY <2>1, <2>2 DEF n, d
<1>21. /\ s.ref_count = 1 /\ s.is_counted = o.is_counted
       /\ s.send_flow.available = o.send_flow.available
       /\ Unreserved(scope) => t.send_flow.available = mid[c].send_flow.available
  BY <1>1, <1>6, <1>10, <1>13, <1>15, <1>16
<1>22. UNCHANGED <<scope, flow, codec>> /\ (conn' = "send" => in_flight = 0)
  BY <1>1, <1>2
<1>23. streams' = [mid EXCEPT ![c] = t] /\ store' = store \cup {c}
  BY <1>2
<1>24. mid = [streams EXCEPT ![k] = s]
  OBVIOUS
<1> HIDE DEF mid
<1> QED BY <1>1, <1>10, <1>13, <1>14, <1>17, <1>18, <1>19, <1>20, <1>21, <1>22, <1>23,
           <1>24, TwoStreams DEF o

\* PopPush
LEMMA PopPushKeeps ==
  ASSUME SInv, NEW k \in StreamId, PopPush(k)
  PROVE  SInv'
<1> DEFINE o == streams[k]
           c == First(k).child
           starts == streams[c].pending_send # <<>>
           now == starts /\ CanIncNumSendStreams
           q == Tail(o.pending_send)
           s == [o EXCEPT !.pending_send = q]
           mid == [streams EXCEPT ![k] = s]
           m == mid[c]
           b == m.is_counted \/ now
           t == [m EXCEPT !.is_pending_push = FALSE, !.is_counted = b]
           queue == IF now THEN Push(Tail(pending_send), c) ELSE Tail(pending_send)
<1>1. work = <<>> /\ k \in store /\ Tail(pending_send) \in Seq(store)
  BY TurnFacts DEF PopPush
<1>2. /\ store \subseteq StreamId /\ ids \subseteq store /\ task \in BOOLEAN
      /\ streams \in [StreamId -> Stream] /\ num_send_streams \in Nat
      /\ pending_capacity \in Seq(store) /\ pending_open \in Seq(store)
      /\ Good(o, scope) /\ o \in Stream
  BY Facts
<1>3. c \in store /\ c \in StreamId
  BY <1>2 DEF PopPush
<1>4. o.pending_send # <<>> /\ Head(o.pending_send).type = "push"
  <2>1. streams[k].pending_send # <<>> /\ First(k).type = "push"
    BY Zenon DEF PopPush
  <2> QED BY <2>1 DEF First
<1>5. o.pending_send \in Seq(Sent) /\ o.pending_send \in Seq(Frame)
  BY <1>2, SentFrames DEF Good
<1>6. q \in Seq(Sent) /\ Head(o.pending_send) \in Sent
  BY <1>4, <1>5, HeadAndTail
<1>7. Total(q) = Total(o.pending_send)
  <2>1. Head(o.pending_send).size = 0
    BY <1>4, <1>6 DEF Sent
  <2>2. Total(o.pending_send) = Head(o.pending_send).size + Total(q)
    BY <1>4, <1>5, TotalOfTail
  <2>3. Total(q) \in Nat
    BY <1>6, SentFrames, TotalType
  <2> QED BY <2>1, <2>2, <2>3
<1>8. /\ Good(s, scope) /\ s \in Stream /\ s.pending_send = q
      /\ s.is_counted = o.is_counted /\ s.ref_count = o.ref_count
      /\ s.send_flow = o.send_flow /\ s.buffered_send_data = o.buffered_send_data
  <2> HIDE DEF o, q
  <2> QED BY <1>2, <1>6, WithFrames
<1>9. /\ num_send_streams' = num_send_streams + (IF now THEN 1 ELSE 0)
      /\ pending_open' = IF starts /\ ~now THEN Push(pending_open, c) ELSE pending_open
      /\ pending_send' = Requeued(s, k, queue)
      /\ conn' = "write" /\ work' = AfterStep(k)
      /\ UNCHANGED <<store, ids, scope, settings, next_stream_id, conn_error, todo,
                     chunk, in_flight, flow, codec, task, pending_capacity>>
  BY DEF PopPush, settings, peer, codec
<1>10. streams' = [mid EXCEPT ![c].is_pending_push = FALSE, ![c].is_counted = @ \/ now]
  BY DEF PopPush
<1>11. now \in BOOLEAN
  BY DEF CanIncNumSendStreams
<1> HIDE DEF s, q, now, starts, c
<1>12. mid \in [StreamId -> Stream]
  BY <1>2, <1>8
<1>13. mid = [streams EXCEPT ![k] = s]
  OBVIOUS
<1> HIDE DEF mid
<1>14. m \in Stream /\ Good(m, scope)
  <2>1. CASE c = k
    BY <1>2, <1>8, <1>13, <2>1
  <2>2. CASE c # k
    <3>1. m = streams[c]
      BY <1>2, <1>3, <1>13, <2>2
    <3>2. Good(streams[c], scope)
      BY <1>3, Facts
    <3> QED BY <1>3, <1>12, <3>1, <3>2
  <2> QED BY <2>1, <2>2
<1>15. streams' = [mid EXCEPT ![c] = t]
  BY <1>3, <1>10, <1>12, <1>14
<1> HIDE DEF m
<1>16. /\ t \in Stream /\ t.is_counted = b
       /\ t.pending_send = m.pending_send /\ t.ref_count = m.ref_count
       /\ t.send_flow = m.send_flow /\ t.buffered_send_data = m.buffered_send_data
       /\ t.requested_send_capacity = m.requested_send_capacity
  BY <1>11, <1>14 DEF Stream
<1> HIDE DEF t
<1>17. Good(t, scope)
  BY <1>14, <1>16, GoodKept DEF Good
<1>18. ~Uses(scope) => s.ref_count = 1 /\ t.ref_count = 1
  <2>1. ASSUME ~Uses(scope)
        PROVE  s.ref_count = 1 /\ m.ref_count = 1
    <3>1. Absent(streams, store, scope)
      BY Facts DEF Core
    <3>2. \A j \in store : streams[j].ref_count = 1
      BY <2>1, <3>1 DEF Absent
    <3>3. s.ref_count = 1 /\ streams[c].ref_count = 1
      BY <1>1, <1>3, <1>8, <3>2
    <3>4. m = s \/ m = streams[c]
      BY <1>2, <1>3, <1>13 DEF m
    <3> QED BY <3>3, <3>4
  <2> QED BY <1>16, <2>1
<1>19. pending_send' \in Seq(store) /\ pending_open' \in Seq(store)
  <2>1. Push(Tail(pending_send), c) \in Seq(store)
    BY <1>1, <1>3, QueueMoves
  <2>2. queue \in Seq(store)
    BY <1>1, <2>1
  <2> HIDE DEF queue
  <2>3. Push(queue, k) \in Seq(store) /\ Push(pending_open, c) \in Seq(store)
    BY <1>1, <1>2, <1>3, <2>2, QueueMoves
  <2>4. pending_send' \in Seq(store)
    BY <1>9, <2>2, <2>3 DEF Requeued
  <2> QED BY <1>2, <1>9, <2>3, <2>4
<1>20. Ranges' /\ Slab'
  BY <1>2, <1>9, <1>19, Facts, Steady
<1>21. Backed(o, k, in_flight, chunk) => Backed(s, k, in_flight, chunk)
  BY <1>7, <1>8 DEF Backed
<1>22. Backed(m, c, in_flight, chunk) => Backed(t, c, in_flight, chunk)
  BY <1>16 DEF Backed
<1>23. Follows(work', work, streams', store', scope)
  BY <1>1, <1>9, CalmSteps, CalmFollows
<1>24. num_send_streams' \in Int
         /\ num_send_streams + (IF t.is_counted THEN 1 ELSE 0)
              <= num_send_streams' + (IF m.is_counted THEN 1 ELSE 0)
  <2> DEFINE n == num_send_streams
             p == num_send_streams'
             a == m.is_counted
             d == t.is_counted
  <2>1. /\ n \in Int /\ p = n + (IF now THEN 1 ELSE 0)
        /\ d = (a \/ now)
    <3>1. n \in Int
      BY <1>2
    <3>2. p = n + (IF now THEN 1 ELSE 0)
      BY <1>9
    <3>3. d = b
      BY <1>16
    <3> QED BY <3>1, <3>2, <3>3
  <2> HIDE DEF n, p, a, d
  <2>2. p \in Int /\ n + (IF d THEN 1 ELSE 0) <= p + (IF a THEN 1 ELSE 0)
    <3>1. CASE now
      <4>1. p = n + 1
        BY <2>1, <3>1
      <4> QED BY <2>1, <4>1
    <3>2. CASE ~now
      <4>1. p = n
        BY <2>1, <3>2
      <4>2. d <=> a
        BY <2>1, <3>2, Zenon
      <4> QED BY <2>1, <4>1, <4>2
    <3> QED BY <3>1, <3>2
  <2> QED BY <2>2 DEF n, p, a, d
<1>25. /\ s.is_counted = o.is_counted
       /\ s.send_flow.available = o.send_flow.available
       /\ t.send_flow.available = m.send_flow.available
  BY <1>8, <1>16
<1>26. UNCHANGED <<scope, flow, codec>> /\ (conn' = "send" => in_flight = 0)
  BY <1>9
<1>27. store' = store \cup {c}
  BY <1>3, <1>9
<1> QED BY <1>1, <1>3, <1>8, <1>13, <1>15, <1>17, <1>18, <1>20, <1>21, <1>22, <1>23,
           <1>24, <1>25, <1>26, <1>27, TwoStreams DEF o, m

\* What transition_after makes of a record: it may be marked, and is perhaps uncounted.
LEMMA AfterRecord ==
  ASSUME NEW o, NEW sc, Good(o, sc), NEW expire \in BOOLEAN, NEW s,
         s = [o EXCEPT !.is_pending_reset = @ \/ (expire /\ IsLocalReset(o.state))],
         NEW t, t = IF FullyClosed(s) THEN Uncount(s) ELSE s
  PROVE  /\ s \in Stream /\ Good(t, sc)
         /\ s.is_counted = o.is_counted /\ s.ref_count = o.ref_count
         /\ s.buffered_send_data = o.buffered_send_data /\ s.pending_send = o.pending_send
         /\ FullyClosed(s) <=> FullyClosed(o)
         /\ FullyClosed(t) <=> FullyClosed(o)
         /\ t.is_counted = (o.is_counted /\ ~FullyClosed(o))
         /\ t.ref_count = o.ref_count /\ t.send_flow = o.send_flow
         /\ t.pending_send = o.pending_send
         /\ t.buffered_send_data = o.buffered_send_data
<1>1. o \in Stream /\ o.pending_send \in Seq(Sent)
  BY DEF Good
<1> DEFINE b == o.is_pending_reset \/ (expire /\ IsLocalReset(o.state))
<1>2. b \in BOOLEAN
  BY <1>1, StreamFields DEF IsLocalReset
<1>3. s = [o EXCEPT !.is_pending_reset = b]
  OBVIOUS
<1> HIDE DEF b
<1>4. /\ s \in Stream
      /\ s.state = o.state /\ s.is_counted = o.is_counted /\ s.ref_count = o.ref_count
      /\ s.send_flow = o.send_flow /\ s.pending_send = o.pending_send
      /\ s.requested_send_capacity = o.requested_send_capacity
      /\ s.buffered_send_data = o.buffered_send_data
  BY <1>1, <1>2, <1>3 DEF Stream
<1> DEFINE u == Uncount(s)
<1>5. /\ u \in Stream /\ u.is_counted = FALSE
      /\ u.state = s.state /\ u.ref_count = s.ref_count
      /\ u.send_flow = s.send_flow /\ u.pending_send = s.pending_send
      /\ u.requested_send_capacity = s.requested_send_capacity
      /\ u.buffered_send_data = s.buffered_send_data
  BY <1>4 DEF Uncount, Stream
<1> HIDE DEF u
<1>6. t = IF FullyClosed(s) THEN u ELSE s
  BY DEF u
<1>7. /\ t \in Stream
      /\ t.state = o.state /\ t.ref_count = o.ref_count
      /\ t.send_flow = o.send_flow /\ t.pending_send = o.pending_send
      /\ t.requested_send_capacity = o.requested_send_capacity
      /\ t.buffered_send_data = o.buffered_send_data
  <2>1. CASE FullyClosed(s)
    <3>1. t = u
      BY <1>6, <2>1
    <3> QED BY <1>4, <1>5, <3>1
  <2>2. CASE ~FullyClosed(s)
    <3>1. t = s
      BY <1>6, <2>2
    <3> QED BY <1>4, <3>1
  <2> QED BY <2>1, <2>2
<1>8. (FullyClosed(s) <=> FullyClosed(o)) /\ (FullyClosed(t) <=> FullyClosed(o))
  BY <1>4, <1>7 DEF FullyClosed
<1>9. t.is_counted = (o.is_counted /\ ~FullyClosed(o))
  <2>1. o.is_counted \in BOOLEAN
    BY <1>1, StreamFields
  <2>2. CASE FullyClosed(s)
    <3>1. t = u /\ FullyClosed(o)
      BY <1>6, <1>8, <2>2
    <3> QED BY <1>5, <2>1, <3>1
  <2>3. CASE ~FullyClosed(s)
    <3>1. t = s /\ ~FullyClosed(o)
      BY <1>6, <1>8, <2>3
    <3> QED BY <1>4, <2>1, <3>1
  <2> QED BY <2>2, <2>3
<1>10. Good(t, sc)
  BY <1>1, <1>7, GoodKept
<1> QED BY <1>4, <1>7, <1>8, <1>9, <1>10

\* After
LEMMA AfterKeeps ==
  ASSUME SInv, After
  PROVE  SInv'
<1> DEFINE k == Head(work).k
           o == streams[k]
           v == Tail(work)
<1>1. PICK expire \in BOOLEAN :
        /\ Doing(IF expire THEN "expire" ELSE "after")
        /\ LET s == [o EXCEPT !.is_pending_reset =
                                  @ \/ (expire /\ IsLocalReset(o.state))]
           IN /\ streams' = [streams EXCEPT ![k] = IF FullyClosed(s) THEN Uncount(s) ELSE s]
              /\ ids' = IF FullyClosed(s) /\ ~s.is_pending_reset THEN ids \ {k} ELSE ids
              /\ num_send_streams' =
                   num_send_streams - (IF FullyClosed(s) /\ s.is_counted THEN 1 ELSE 0)
              /\ store' = IF IsReleased(s, k) THEN store \ {k} ELSE store
        /\ work' = v
        /\ UNCHANGED <<queues, flow, settings, next_stream_id, peer, codec,
                       task, conn, todo, history>>
  BY Zenon DEF After
<1> DEFINE s == [o EXCEPT !.is_pending_reset = @ \/ (expire /\ IsLocalReset(o.state))]
           t == IF FullyClosed(s) THEN Uncount(s) ELSE s
<1>2. /\ streams' = [streams EXCEPT ![k] = t]
      /\ ids' = IF FullyClosed(s) /\ ~s.is_pending_reset THEN ids \ {k} ELSE ids
      /\ num_send_streams' =
           num_send_streams - (IF FullyClosed(s) /\ s.is_counted THEN 1 ELSE 0)
      /\ store' = IF IsReleased(s, k) THEN store \ {k} ELSE store
      /\ work' = v
  BY <1>1, Zenon
<1>3. UNCHANGED <<scope, init_window_sz, max_send_streams, next_stream_id, conn_error,
                  todo, task, chunk, in_flight, flow, conn,
                  pending_send, pending_capacity, pending_open>>
  BY <1>1 DEF queues, settings, peer, codec
<1>4. work # <<>> /\ Head(work).do \in {"after", "expire"}
  BY <1>1 DEF Doing
<1>5. /\ Follows(v, work, streams, store, scope)
      /\ Sound(Head(work), streams, store, scope)
      /\ LeadsAll(Head(work), v, streams)
  BY <1>4, Facts, CallTaken
<1>6. k \in StreamId
  BY <1>4, <1>5 DEF Sound
<1>7. \A i \in 1 .. Len(v) : v[i].do = "schedule" =>
        Head(work).do = "after" /\ (k = v[i].k => ~FullyClosed(streams[v[i].k]))
  BY <1>4, <1>5 DEF LeadsAll, Leads
<1> HIDE DEF k, v
<1>8. /\ streams \in [StreamId -> Stream] /\ Good(o, scope) /\ o \in Stream
      /\ flow \in FlowControl /\ num_send_streams \in Nat
      /\ store \subseteq StreamId /\ ids \subseteq store
      /\ Core(streams, store, flow, num_send_streams, scope)
      /\ Buffered(streams, work, in_flight, chunk)
  BY <1>6, Facts
<1> HIDE DEF o
<1>9. /\ s \in Stream /\ Good(t, scope)
      /\ s.is_counted = o.is_counted /\ s.ref_count = o.ref_count
      /\ s.buffered_send_data = o.buffered_send_data /\ s.pending_send = o.pending_send
      /\ FullyClosed(s) <=> FullyClosed(o)
      /\ FullyClosed(t) <=> FullyClosed(o)
      /\ t.is_counted = (o.is_counted /\ ~FullyClosed(o))
      /\ t.ref_count = o.ref_count /\ t.send_flow = o.send_flow
      /\ t.pending_send = o.pending_send
      /\ t.buffered_send_data = o.buffered_send_data
  BY <1>8, AfterRecord
<1> HIDE DEF s, t
<1>10. /\ IsReleased(s, k) =>
            /\ FullyClosed(o) /\ o.ref_count = 0 /\ ~IsQueued(k) /\ ~s.is_pending_reset
            /\ o.buffered_send_data = 0 /\ o.pending_send = <<>>
       /\ FullyClosed(o) => o.buffered_send_data = 0 /\ o.pending_send = <<>>
  BY <1>9 DEF IsReleased, FullyClosed
<1>11. /\ \A j : j # k => (j \in store' <=> j \in store)
       /\ store' \subseteq store
       /\ k \in store /\ ~IsReleased(s, k) => k \in store'
       /\ k \in store' => k \in store
       /\ IsReleased(s, k) => store' = store \ {k}
       /\ ~IsReleased(s, k) => store' = store
  BY <1>2
<1>12. ASSUME k \notin store'
       PROVE  /\ t.buffered_send_data = 0 /\ t.pending_send = <<>>
              /\ Unreserved(scope) => t.send_flow.available = 0
  <2>1. Absent(streams, store, scope)
    BY <1>8 DEF Core
  <2>2. CASE k \notin store
    <3>1. /\ o.buffered_send_data = 0 /\ o.pending_send = <<>>
          /\ Unreserved(scope) => o.send_flow.available = 0
      BY <1>6, <2>1, <2>2 DEF Absent, o
    <3> QED BY <1>9, <3>1
  <2>3. CASE k \in store
    <3>1. IsReleased(s, k)
      BY <1>11, <1>12, <2>3
    <3>2. Uses(scope)
      <4>1. ~Uses(scope) => o.ref_count = 1
        BY <2>1, <2>3 DEF Absent, o
      <4> QED BY <1>10, <3>1, <4>1
    <3>3. ASSUME Unreserved(scope)
          PROVE  o.send_flow.available = 0
      <4>1. /\ 0 <= o.send_flow.available
            /\ o.send_flow.available <= o.requested_send_capacity
            /\ o.requested_send_capacity = o.buffered_send_data
        BY <1>8, <3>2, <3>3 DEF Good
      <4>2. o.send_flow.available \in Int
        BY <1>8, StreamFields
      <4> QED BY <1>10, <3>1, <4>1, <4>2
    <3> QED BY <1>9, <1>10, <3>1, <3>3
  <2> QED BY <2>2, <2>3
<1>13. Core(streams', store', flow', num_send_streams', scope')
  <2>1. Unreserved(scope) => Moves(o, t, flow, flow)
    BY <1>8, <1>9, StillMoves
  <2>2. store' \subseteq StreamId
    BY <1>8, <1>11
  <2>3. k \in store' /\ ~Uses(scope) => t.ref_count = 1
    <3>1. Absent(streams, store, scope)
      BY <1>8 DEF Core
    <3> QED BY <1>9, <1>11, <3>1 DEF Absent, o
  <2>4. num_send_streams' \in Int
          /\ num_send_streams + (IF t.is_counted THEN 1 ELSE 0)
               <= num_send_streams' + (IF o.is_counted THEN 1 ELSE 0)
    <3> DEFINE n == num_send_streams
               p == num_send_streams'
               a == o.is_counted
               d == t.is_counted
               f == FullyClosed(o)
    <3>1. n \in Int
      BY <1>8
    <3>2. p = n - (IF f /\ a THEN 1 ELSE 0)
      BY <1>2, <1>9
    <3>3. d = (a /\ ~f)
      BY <1>9
    <3> HIDE DEF n, p, a, d, f
    <3>4. CASE f
      <4>1. ~d
        BY <3>3, <3>4, Zenon
      <4>2. p = n - (IF a THEN 1 ELSE 0)
        BY <3>2, <3>4
      <4> QED BY <3>1, <4>1, <4>2 DEF n, p, a, d
    <3>5. CASE ~f
      <4>1. d <=> a
        BY <3>3, <3>5, Zenon
      <4>2. p = n
        BY <3>1, <3>2, <3>5
      <4> QED BY <3>1, <4>1, <4>2 DEF n, p, a, d
    <3> QED BY <3>4, <3>5
  <2>5. /\ \A j \in StreamId : j # k => (j \in store' <=> j \in store)
        /\ streams' = [streams EXCEPT ![k] = t] /\ UNCHANGED <<flow, scope>>
    BY <1>2, <1>3, <1>11
  <2> QED BY <1>6, <1>8, <1>9, <1>12, <2>1, <2>2, <2>3, <2>4, <2>5, CoreMoves DEF o
<1>14. WorkOK(v, streams', store', scope)
  <2>1. \A j \in store : streams[j].ref_count > 0 => j \in store' /\ streams'[j].ref_count > 0
    <3>1. SUFFICES ASSUME NEW j \in store, streams[j].ref_count > 0
                   PROVE  j \in store' /\ streams'[j].ref_count > 0
      OBVIOUS
    <3>2. CASE j = k
      <4>1. streams[j] = o /\ streams'[j] = t
        BY <1>2, <1>6, <1>8, <3>2 DEF o
      <4>2. ~IsReleased(s, k)
        BY <1>10, <3>1, <4>1
      <4> QED BY <1>9, <1>11, <3>1, <3>2, <4>1, <4>2
    <3>3. CASE j # k
      <4>1. streams'[j] = streams[j]
        BY <1>2, <1>8, <3>3
      <4> QED BY <1>11, <3>1, <3>3, <4>1
    <3> QED BY <3>2, <3>3
  <2>2. ASSUME NEW i \in 1 .. Len(v), v[i].do = "schedule"
        PROVE  /\ v[i].k \in store'
               /\ FullyClosed(streams'[v[i].k]) => FullyClosed(streams[v[i].k])
    <3> DEFINE j == v[i].k
    <3>1. j \in store /\ (k = j => ~FullyClosed(streams[j]))
      BY <1>5, <1>7, <2>2 DEF Follows, WorkOK, Sound
    <3> HIDE DEF j
    <3>2. CASE j = k
      <4>1. streams[j] = o /\ streams'[j] = t
        BY <1>2, <1>6, <1>8, <3>2 DEF o
      <4>2. ~IsReleased(s, k)
        BY <1>10, <3>1, <3>2, <4>1
      <4>3. j \in store'
        BY <1>11, <3>1, <3>2, <4>2
      <4>4. FullyClosed(streams'[j]) => FullyClosed(streams[j])
        BY <1>9, <4>1
      <4> QED BY <4>3, <4>4 DEF j
    <3>3. CASE j # k
      <4>1. streams'[j] = streams[j] /\ j \in store'
        BY <1>2, <1>8, <1>11, <3>1, <3>3
      <4> QED BY <4>1 DEF j
    <3> QED BY <3>2, <3>3
  <2>3. WorkOK(v, streams, store, scope)
    BY <1>5 DEF Follows
  <2> QED BY <2>1, <2>2, <2>3, WorkStays
<1>15. Follows(v, work, streams', store', scope)
  BY <1>5, <1>14, FollowsStays
<1>16. Buffered(streams', work', in_flight', chunk')
  <2>1. \A j : Queueing(v, j) = Queueing(work, j)
    BY <1>15 DEF Follows
  <2>2. Elsewhere(k, work, in_flight, chunk, v, in_flight, chunk)
    BY <2>1 DEF Elsewhere
  <2>3. o.buffered_send_data
          = Total(o.pending_send) + Queueing(work, k) + Flight(in_flight, chunk, k)
    BY <1>6, <1>8 DEF Buffered, o
  <2>4. t.buffered_send_data
          = Total(t.pending_send) + Queueing(v, k) + Flight(in_flight, chunk, k)
    <3>1. Queueing(v, k) = Queueing(work, k)
      BY <2>1
    <3> QED BY <1>9, <2>3, <3>1, Zenon
  <2>5. Swaps(streams, streams', k, t)
    BY <1>2, <1>6, <1>8 DEF Swaps
  <2>6. Buffered(streams', v, in_flight, chunk)
    BY <1>6, <1>8, <2>2, <2>4, <2>5, BufferedMoves
  <2>7. work' = v /\ in_flight' = in_flight /\ chunk' = chunk
    BY <1>2, <1>3
  <2> QED BY <2>6, <2>7
<1>17. Ranges'
  BY <1>3 DEF SInv, Ranges, InitWindows, SendLimits
<1>18. Slab'
  <2>1. /\ store \subseteq StreamId /\ ids \subseteq store
        /\ pending_send \in Seq(store) /\ pending_capacity \in Seq(store)
        /\ pending_open \in Seq(store)
        /\ \A j \in store \cup Remote : j < next_stream_id
    BY DEF SInv, Slab
  <2>2. store' \subseteq StreamId /\ ids' \subseteq store'
    <3>1. CASE IsReleased(s, k)
      <4>1. ids' = ids \ {k} /\ store' = store \ {k}
        BY <1>2, <1>9, <1>10, <1>11, <3>1
      <4> QED BY <2>1, <4>1
    <3>2. CASE ~IsReleased(s, k)
      <4>1. store' = store /\ ids' \subseteq ids
        BY <1>2, <1>11, <3>2
      <4> QED BY <2>1, <4>1
    <3> QED BY <3>1, <3>2
  <2>3. /\ pending_send \in Seq(store') /\ pending_capacity \in Seq(store')
        /\ pending_open \in Seq(store')
    <3>1. CASE IsReleased(s, k)
      <4>1. /\ k \notin Members(pending_send) /\ k \notin Members(pending_capacity)
            /\ k \notin Members(pending_open)
        BY <1>10, <3>1 DEF IsQueued
      <4>2. /\ Members(pending_send) \subseteq store
            /\ Members(pending_capacity) \subseteq store
            /\ Members(pending_open) \subseteq store
        BY <2>1, MembersOf
      <4>3. /\ Members(pending_send) \subseteq store'
            /\ Members(pending_capacity) \subseteq store'
            /\ Members(pending_open) \subseteq store'
        BY <1>11, <3>1, <4>1, <4>2
      <4> QED BY <2>1, <4>3, MembersOf
    <3>2. CASE ~IsReleased(s, k)
      BY <1>11, <2>1, <3>2
    <3> QED BY <3>1, <3>2
  <2>4. /\ pending_send' \in Seq(store') /\ pending_capacity' \in Seq(store')
        /\ pending_open' \in Seq(store')
    BY <1>3, <2>3
  <2>5. \A j \in store' \cup Remote' : j < next_stream_id'
    BY <1>3, <1>11, <2>1 DEF Remote
  <2> QED BY <2>2, <2>4, <2>5 DEF Slab
<1>19. Loops'
  <2>1. Free(work', {"grow"})
    BY <1>2, <1>5 DEF Follows
  <2>2. conn' = "send" => in_flight' = 0
    BY <1>3 DEF SInv, Loops
  <2> QED BY <2>1, <2>2, LoopsKept
<1>20. WorkOK(work', streams', store', scope')
  BY <1>2, <1>3, <1>14
<1> QED BY <1>13, <1>16, <1>17, <1>18, <1>19, <1>20 DEF SInv

-----------------------------------------------------------------------------
(* The theorem.                                                              *)

\* Nothing adds up to nothing.
LEMMA SumOfZeros ==
  ASSUME NEW f \in [StreamId -> Int], \A k \in StreamId : f[k] = 0
  PROVE  SumOf(f, StreamId) = 0
<1>1. IsFiniteSet(StreamId) /\ IsFiniteSet({})
  BY StreamIds, FS_EmptySet
<1>2. PICK it : Adds(it, f, {}) /\ SumOf(f, {}) = it[{}]
  BY <1>1, SumAdds
<1>3. it[{}] = 0
  BY <1>2 DEF Adds
<1>4. SumOf(f, {}) = SumOf(f, StreamId)
  BY <1>1, SumWithoutZeros
<1> QED BY <1>2, <1>3, <1>4

\* The streams of the peer come first.
LEMMA FirstOfOurs ==
  ASSUME scope \in Scopes
  PROVE  /\ 1 + Cardinality(Remote) \in 1 .. MaxId + 1
         /\ \A k \in Remote : k < 1 + Cardinality(Remote)
<1>1. Remote \in {1 .. n : n \in 0 .. MaxId}
  BY SendAssumption DEF Scope, Remote
<1>2. PICK n \in 0 .. MaxId : Remote = 1 .. n
  BY <1>1
<1>3. MaxId \in Nat /\ n \in Int
  BY StreamIds
<1>4. Cardinality(1 .. n) = IF 1 > n THEN 0 ELSE n - 1 + 1
  BY <1>3, FS_Interval
<1>5. Cardinality(Remote) = n
  BY <1>2, <1>3, <1>4
<1> QED BY <1>2, <1>3, <1>5

\* At first.
LEMMA SInvAtFirst ==
  ASSUME Init
  PROVE  SInv
<1>1. /\ scope \in Scopes /\ init_window_sz \in InitWindows
      /\ max_send_streams \in SendLimits
      /\ streams = [k \in StreamId |-> NewStream(0)]
      /\ store = {} /\ ids = {} /\ flow = NewFlow(init_window_sz)
      /\ pending_send = <<>> /\ pending_capacity = <<>> /\ pending_open = <<>>
      /\ num_send_streams = 0 /\ next_stream_id = 1 + Cardinality(Remote)
      /\ conn_error = FALSE /\ in_flight = 0 /\ chunk = [size |-> 0, eos |-> FALSE]
      /\ task = FALSE /\ conn = "blocked" /\ work = <<>> /\ todo = {}
  BY DEF Init
<1>2. init_window_sz \in Nat
  <2>1. InitWindows \subseteq Nat
    BY <1>1, SendAssumption DEF InitWindows, Scope
  <2> QED BY <1>1, <2>1
<1>3. Ranges
  <2>1. next_stream_id \in 1 .. MaxId + 1
    BY <1>1, FirstOfOurs
  <2>2. 0 \in 0 .. Dropped
    BY SendAssumption DEF Dropped
  <2> QED BY <1>1, <2>1, <2>2 DEF Ranges
<1>4. Slab
  <2>1. \A k \in Remote : k < next_stream_id
    BY <1>1, FirstOfOurs
  <2> QED BY <1>1, <2>1 DEF Slab
<1>5. Loops
  BY <1>1 DEF Loops
<1> DEFINE new == NewStream(0)
<1>6. Fresh(new, FALSE, <<>>)
  <2>1. 0 \in Int
    OBVIOUS
  <2> QED BY <2>1, NewStreamFresh
<1> HIDE DEF new
<1>7. new \in Stream /\ Good(new, scope) /\ ~new.is_counted /\ new.send_flow.available = 0
        /\ new.buffered_send_data = 0 /\ new.pending_send = <<>>
  <2>1. <<>> \in Seq(Sent)
    OBVIOUS
  <2>2. Good(new, scope)
    BY <1>6, <2>1, FreshGood
  <2> QED BY <1>6, <2>2 DEF Fresh
<1>8. streams = [k \in StreamId |-> new]
  BY <1>1 DEF new
<1>9. streams \in [StreamId -> Stream] /\ \A k \in StreamId : streams[k] = new
  BY <1>7, <1>8
<1>10. Records(streams, scope) /\ Absent(streams, store, scope)
  <2>1. Records(streams, scope)
    BY <1>7, <1>9, Zenon DEF Records
  <2>2. \A k \in StreamId \ store :
          /\ streams[k].buffered_send_data = 0 /\ streams[k].pending_send = <<>>
          /\ streams[k].send_flow.available = 0
    BY <1>7, <1>9
  <2>3. \A k \in store : streams[k].ref_count = 1
    BY <1>1
  <2> QED BY <2>1, <2>2, <2>3, Zenon DEF Absent
<1>11. Counted(streams, num_send_streams)
  <2>1. Marked(streams) = {}
    BY <1>7, <1>9 DEF Marked
  <2>2. Cardinality({}) = 0
    BY FS_EmptySet
  <2>3. num_send_streams = 0
    BY <1>1
  <2>4. Cardinality(Marked(streams)) <= num_send_streams
    BY <2>1, <2>2, <2>3
  <2> QED BY <2>3, <2>4 DEF Counted
<1>12. flow \in FlowControl /\ Balance(streams, flow, scope)
  <2> DEFINE held == [k \in StreamId |-> streams[k].send_flow.available]
  <2>1. held \in [StreamId -> Int] /\ \A k \in StreamId : held[k] = 0
    BY <1>7, <1>9
  <2> HIDE DEF held
  <2>2. SumOf(held, StreamId) = 0
    BY <2>1, SumOfZeros
  <2>3. /\ flow \in FlowControl /\ flow.available = init_window_sz
        /\ flow.window_size = init_window_sz
    BY <1>1, <1>2 DEF NewFlow, FlowControl
  <2>4. 0 <= flow.available /\ flow.available + SumOf(held, StreamId) = flow.window_size
    BY <1>2, <2>2, <2>3
  <2> QED BY <2>3, <2>4 DEF Balance, held
<1>13. Core(streams, store, flow, num_send_streams, scope)
  BY <1>10, <1>11, <1>12 DEF Core
<1>14. WorkOK(work, streams, store, scope)
  BY <1>1, NoWork
<1>15. Buffered(streams, work, in_flight, chunk)
  <2>1. SUFFICES ASSUME NEW k \in StreamId
                 PROVE  streams[k].buffered_send_data
                          = Total(streams[k].pending_send) + Queueing(work, k)
                              + Flight(in_flight, chunk, k)
    BY DEF Buffered
  <2>2. Queueing(work, k) = 0 /\ Total(<<>>) = 0
    BY <1>1, QueueingNone, TotalOfNone
  <2>3. Flight(in_flight, chunk, k) = 0
    BY <1>1 DEF Flight
  <2>4. streams[k].buffered_send_data = 0 /\ streams[k].pending_send = <<>>
    BY <1>7, <1>9
  <2> QED BY <2>2, <2>3, <2>4
<1> QED BY <1>3, <1>4, <1>5, <1>13, <1>14, <1>15 DEF SInv

\* The steps of a call, of the peer, of the connection and of the application.
LEMMA SInvInCall ==
  ASSUME SInv, Call
  PROVE  SInv'
<1>1. \/ Assign \/ After \/ ReserveNow \/ Close \/ Queue \/ Schedule
      \/ AbortOne \/ AbortDone \/ ClearQueue \/ Grow \/ Fail
  BY DEF Call
<1>2. Assign \/ After \/ ReserveNow \/ Close \/ Queue \/ Schedule => SInv'
  BY AssignKeeps, AfterKeeps, ReserveNowKeeps, CloseKeeps, QueueKeeps, ScheduleKeeps
<1>3. AbortOne \/ AbortDone \/ ClearQueue \/ Grow \/ Fail => SInv'
  BY AbortOneKeeps, AbortDoneKeeps, ClearQueueKeeps, GrowKeeps, FailKeeps
<1> QED BY <1>1, <1>2, <1>3

\* The peer.
LEMMA SInvInReceive ==
  ASSUME SInv, Receive
  PROVE  SInv'
<1>1. Increments \subseteq Nat
  BY SendAssumption
<1>2. CASE \E k \in StreamId : \E eos \in BOOLEAN : RecvRequest(k, eos)
  BY <1>2, RecvRequestKeeps
<1>3. CASE \E k \in StreamId : RecvEnd(k) \/ RecvRst(k) \/ ExpireReset(k)
  BY <1>3, RecvEndKeeps, RecvRstKeeps, ExpireResetKeeps
<1>4. CASE \E k \in StreamId : \E n \in Increments : RecvStreamWindow(k, n)
  BY <1>1, <1>4, RecvStreamWindowKeeps
<1>5. CASE \E n \in Increments : RecvConnWindow(n)
  BY <1>1, <1>5, RecvConnWindowKeeps
<1>6. CASE \E v \in InitWindows : LowerWindows(v) \/ RaiseWindows(v)
  BY <1>6, LowerWindowsKeeps, RaiseWindowsKeeps
<1>7. CASE \E n \in SendLimits : RecvLimit(n)
  BY <1>7, RecvLimitKeeps
<1>8. CASE \E last \in scope.goaways : RecvGoAway(last)
  BY <1>8, RecvGoAwayKeeps
<1>9. CASE RecvInvalid \/ ConnectionEnds
  BY <1>9, RecvInvalidKeeps, ConnectionEndsKeeps
<1> QED BY <1>2, <1>3, <1>4, <1>5, <1>6, <1>7, <1>8, <1>9, Zenon DEF Receive

\* The connection that writes.
LEMMA SInvInFlush ==
  ASSUME SInv, Flush
  PROVE  SInv'
<1>1. CASE Blocked \/ Written \/ OpenPending \/ Park
  BY <1>1, BlockedKeeps, WrittenKeeps, OpenPendingKeeps, ParkKeeps
<1>2. CASE \E k \in StreamId : PopStalled(k) \/ PopData(k) \/ PopOther(k)
  BY <1>2, PopStalledKeeps, PopDataKeeps, PopOtherKeeps
<1>3. CASE \E k \in StreamId : PopPush(k) \/ PopScheduledReset(k) \/ PopDangling(k)
  BY <1>3, PopPushKeeps, PopScheduledResetKeeps, PopDanglingKeeps
<1> QED BY <1>1, <1>2, <1>3, Zenon DEF Flush, Pop

\* The application.
LEMMA SInvInUse ==
  ASSUME SInv, Use
  PROVE  SInv'
<1>1. scope.sizes \subseteq Nat
  <2>1. scope \in Scopes
    BY Facts
  <2> QED BY <2>1, SendAssumption DEF Scope
<1>2. CASE \E k \in StreamId : \E eos \in BOOLEAN : SendRequest(k, eos) \/ SendResponse(k, eos)
  BY <1>2, SendRequestKeeps, SendResponseKeeps
<1>3. CASE \E k \in StreamId : \E c \in StreamId : PushRequest(k, c)
  BY <1>3, PushRequestKeeps
<1>4. CASE \E k \in StreamId : \E sz \in scope.sizes, eos \in BOOLEAN : SendDataFrame(k, sz, eos)
  BY <1>1, <1>4, SendDataFrameKeeps
<1>5. CASE \E k \in StreamId : \E n \in scope.reservations : ReserveCapacity(k, n)
  BY <1>5, ReserveCapacityKeeps
<1>6. CASE \E k \in StreamId : SendTrailers(k) \/ PollCapacity(k) \/ PollReady(k)
  BY <1>6, SendTrailersKeeps, PollCapacityKeeps, PollReadyKeeps
<1>7. CASE \E k \in StreamId : UserReset(k) \/ DropHandle(k)
  BY <1>7, UserResetKeeps, DropHandleKeeps
<1> QED BY <1>2, <1>3, <1>4, <1>5, <1>6, <1>7, Zenon DEF Use

\* Every step.
LEMMA SInvAlways ==
  ASSUME SInv, [Next]_vars
  PROVE  SInv'
<1>1. CASE Call \/ Receive \/ Flush \/ Use
  BY <1>1, SInvInCall, SInvInReceive, SInvInFlush, SInvInUse
<1>2. CASE BeginPoll
  BY <1>2, BeginPollKeeps
<1>3. CASE UNCHANGED vars
  <2>1. UNCHANGED <<streams, store, ids, num_send_streams, pending_send, pending_capacity,
                    pending_open, flow, scope, init_window_sz, max_send_streams,
                    next_stream_id, conn_error, in_flight, chunk, task, conn, work, todo>>
    BY <1>3 DEF vars, slab, queues, settings, peer, codec
  <2>2. Ranges' /\ Slab' /\ Loops'
    BY <2>1 DEF SInv, Ranges, Slab, Loops, InitWindows, SendLimits, Remote
  <2>3. /\ Core(streams', store', flow', num_send_streams', scope')
        /\ WorkOK(work', streams', store', scope')
        /\ Buffered(streams', work', in_flight', chunk')
    BY <2>1 DEF SInv
  <2> QED BY <2>2, <2>3 DEF SInv
<1> QED BY <1>1, <1>2, <1>3, Zenon DEF Next

\* What the invariant says of the capacity of the connection.
LEMMA SInvAddsUp ==
  ASSUME SInv, DropsUnreserved
  PROVE  /\ CapacityAddsUp
         /\ \A k \in StreamId : /\ 0 <= streams[k].send_flow.available
                                /\ streams[k].send_flow.available <= flow.window_size
<1>1. Unreserved(scope)
  BY DEF DropsUnreserved, Drops, Unreserved, Uses
<1> DEFINE held == [k \in StreamId |-> streams[k].send_flow.available]
<1>2. /\ Absent(streams, store, scope) /\ Balance(streams, flow, scope)
      /\ store \subseteq StreamId /\ flow \in FlowControl
      /\ streams \in [StreamId -> Stream]
      /\ \A k \in StreamId : Good(streams[k], scope)
  BY Facts DEF Core
<1>3. 0 <= flow.available /\ flow.available + SumOf(held, StreamId) = flow.window_size
  BY <1>1, <1>2 DEF Balance
<1>4. \A k \in StreamId : streams[k].send_flow.available \in Nat
  <2>1. SUFFICES ASSUME NEW k \in StreamId PROVE streams[k].send_flow.available \in Nat
    OBVIOUS
  <2>2. streams[k].send_flow.available \in Int /\ 0 <= streams[k].send_flow.available
    BY <1>1, <1>2, StreamFields DEF Good
  <2> QED BY <2>2
<1>5. held \in [StreamId -> Nat] /\ held \in [StreamId -> Int]
  BY <1>4
<1>6. \A k \in StreamId : held[k] = streams[k].send_flow.available
  OBVIOUS
<1>7. \A k \in StreamId \ store : held[k] = 0
  BY <1>1, <1>2 DEF Absent
<1>8. CapacityAddsUp <=> flow.available + SumOver(held, store) = flow.window_size
  BY DEF CapacityAddsUp
<1> HIDE DEF held
<1>9. SumOver(held, store) = SumOf(held, StreamId)
  <2>1. SumOf(held, store) = SumOf(held, StreamId)
    BY <1>2, <1>5, <1>7, StreamIds, SumWithoutZeros
  <2> QED BY <2>1, SumsAgree
<1>10. SumOf(held, StreamId) \in Nat /\ \A k \in StreamId : held[k] <= SumOf(held, StreamId)
  BY <1>5, StreamIds, SumBounds
<1>11. flow.available \in Int /\ flow.window_size \in Int
  BY <1>2 DEF FlowControl
<1>12. CapacityAddsUp
  BY <1>3, <1>8, <1>9
<1>13. ASSUME NEW k \in StreamId
       PROVE  /\ 0 <= streams[k].send_flow.available
              /\ streams[k].send_flow.available <= flow.window_size
  <2>1. held[k] \in Nat /\ held[k] <= SumOf(held, StreamId)
    BY <1>5, <1>10
  <2>2. held[k] <= flow.window_size
    BY <1>3, <1>10, <1>11, <2>1
  <2> QED BY <1>6, <2>1, <2>2
<1> QED BY <1>12, <1>13

\* What is sent next is covered by what its stream was assigned, and that by the window
\* of the connection.
LEMMA SInvCovers ==
  ASSUME SInv, DropsUnreserved
  PROVE  ConnectionCovers
<1>1. SUFFICES ASSUME NEW k \in StreamId, Turn(k), streams[k].pending_send # <<>>
               PROVE  SizeOf(k) <= AsSize(flow.window_size)
  BY DEF ConnectionCovers
<1>2. /\ 0 <= streams[k].send_flow.available
      /\ streams[k].send_flow.available <= flow.window_size
  BY SInvAddsUp
<1>3. streams[k] \in Stream /\ flow \in FlowControl
  BY Facts
<1>4. streams[k].send_flow.available \in Int /\ flow.window_size \in Int
  BY <1>3, StreamFields DEF FlowControl
<1>5. First(k).size \in Nat /\ MaxFrameSize \in Nat
  <2>1. streams[k].pending_send \in Seq(Frame)
    BY <1>3, StreamFields
  <2>2. First(k) \in Frame
    BY <1>1, <2>1, HeadAndTail DEF First
  <2> QED BY <2>2, SendAssumption DEF Frame
<1> DEFINE a == streams[k].send_flow.available
           m == Least(First(k).size, MaxFrameSize)
<1>6. m \in Int
  BY <1>5 DEF Least
<1>7. SizeOf(k) = Least(m, AsSize(a))
  BY DEF SizeOf
<1>8. a \in Int /\ 0 <= a /\ a <= flow.window_size
  BY <1>2, <1>4
<1> HIDE DEF a, m
<1>9. Least(m, AsSize(a)) <= a
  BY <1>6, <1>8 DEF Least, AsSize
<1>10. AsSize(flow.window_size) = flow.window_size
  BY <1>4, <1>8 DEF AsSize
<1>11. Least(m, AsSize(a)) \in Int
  BY <1>6, <1>8 DEF Least, AsSize
<1> QED BY <1>4, <1>7, <1>8, <1>9, <1>10, <1>11

\* The invariant is strong enough.
LEMMA SInvInStep ==
  ASSUME SInv
  PROVE  CapacityInStep
<1>1. TypeOK
  <2>1. /\ Members(pending_send) \subseteq store /\ Members(pending_capacity) \subseteq store
        /\ Members(pending_open) \subseteq store
    BY Facts, MembersOf
  <2>2. Ranges
    BY DEF SInv
  <2> QED BY <2>1, <2>2, Facts DEF TypeOK, Ranges
<1>2. AssignedAsRequested
  <2>1. store \subseteq StreamId /\ \A k \in StreamId : Good(streams[k], scope)
    BY Facts
  <2> QED BY <2>1 DEF AssignedAsRequested, Good
<1>3. BufferedIsQueued
  <2>1. Buffered(streams, work, in_flight, chunk)
    BY Facts
  <2> QED BY <2>1 DEF Buffered, BufferedIsQueued, Flight
<1>4. DropsUnreserved => CapacityAddsUp /\ ConnectionCovers
  BY SInvAddsUp, SInvCovers
<1> QED BY <1>1, <1>2, <1>3, <1>4 DEF CapacityInStep

\* The capacity that the connection has, that its streams were assigned and that they
\* have buffered stay in step, for any number of streams, and whatever the peer does to
\* their windows.
THEOREM CapacityStaysInStep ==
  Spec => []CapacityInStep
<1>1. Init => SInv
  BY SInvAtFirst
<1>2. SInv /\ [Next]_vars => SInv'
  BY SInvAlways
<1>3. SInv => CapacityInStep
  BY SInvInStep
<1> QED BY <1>1, <1>2, <1>3, PTL DEF Spec

=============================================================================
