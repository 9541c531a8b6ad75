--------------------------- MODULE H2CommonProofs ---------------------------
(***************************************************************************)
(* Lemmas that the theorems about whole streams rest on: what the methods  *)
(* of State return, and how a sum over the streams changes with one term.  *)
(***************************************************************************)
EXTENDS Integers, FiniteSets, FiniteSetsExt, H2StreamState,
        FiniteSetTheorems, WellFoundedInduction, TLAPS

-----------------------------------------------------------------------------
(* The methods of State return states, and none of them opens a closed       *)
(* stream.                                                                   *)

\* The fields of a state: what each value of Inner carries.
LEMMA StateFields ==
  ASSUME NEW s \in State
  PROVE  /\ s = Value(s.inner, s.local, s.remote, s.cause)
         /\ s.inner \in {"Open", "HalfClosedRemote"} => s.local \in Peers
         /\ s.inner \in {"Open", "HalfClosedLocal"} => s.remote \in Peers
         /\ s.inner = "Closed" => s.cause \in Causes
BY DEF State, Value, Idle, ReservedLocal, ReservedRemote, Open,
       HalfClosedLocal, HalfClosedRemote, Closed

\* The values that the methods assign are states.
LEMMA StateValues ==
  /\ Idle \in State /\ SetReset \in State /\ SetScheduledReset \in State
  /\ \A c \in Causes : Closed(c) \in State
  /\ \A p \in Peers : HalfClosedLocal(p) \in State /\ HalfClosedRemote(p) \in State
  /\ \A p \in Peers, q \in Peers : Open(p, q) \in State
BY DEF State, SetReset, SetScheduledReset, Causes

\* Constructors of closed states are closed, the others are not.
LEMMA ClosedValues ==
  /\ \A c : IsClosed(Closed(c))
  /\ \A p : ~IsClosed(HalfClosedLocal(p)) /\ ~IsClosed(HalfClosedRemote(p))
  /\ \A p, q : ~IsClosed(Open(p, q))
  /\ ~IsClosed(Idle) /\ IsClosed(SetReset) /\ IsClosed(SetScheduledReset)
BY DEF IsClosed, Closed, HalfClosedLocal, HalfClosedRemote, Open, Idle, Value,
       SetReset, SetScheduledReset

\* State::is_local_reset holds of closed streams only.
LEMMA LocalResetIsClosed ==
  ASSUME NEW s \in State, IsLocalReset(s)
  PROVE  IsClosed(s)
BY DEF State, Value, Idle, ReservedLocal, ReservedRemote, Open, HalfClosedLocal,
       HalfClosedRemote, Closed, IsLocalReset, IsClosed

\* State::send_open: its result is a state, and a closed stream is refused.
LEMMA SendOpenType ==
  ASSUME NEW s \in State, NEW eos \in BOOLEAN, CanSendOpen(s)
  PROVE  SendOpen(s, eos) \in State /\ ~IsClosed(s)
BY StateFields, StateValues DEF SendOpen, CanSendOpen, IsClosed, Peers, Causes

\* State::send_close of a stream that is sending.
LEMMA SendCloseType ==
  ASSUME NEW s \in State, IsSendStreaming(s)
  PROVE  SendClose(s) \in State /\ ~IsClosed(s)
BY StateFields, StateValues DEF SendClose, IsSendStreaming, IsClosed, Causes

\* State::recv_open of a new stream.
LEMMA RecvOpenType ==
  ASSUME NEW eos \in BOOLEAN
  PROVE  /\ RecvOpen(Idle, eos, FALSE) \in State
         /\ ~IsClosed(RecvOpen(Idle, eos, FALSE))
         /\ CanSendOpen(RecvOpen(Idle, eos, FALSE))
         /\ SendOpen(RecvOpen(Idle, eos, FALSE), TRUE) \in State
<1>1. /\ Idle.inner = "Idle"
      /\ HalfClosedRemote("AwaitingHeaders") \in State
      /\ Open("AwaitingHeaders", "Streaming") \in State
      /\ CanSendOpen(HalfClosedRemote("AwaitingHeaders"))
      /\ CanSendOpen(Open("AwaitingHeaders", "Streaming"))
  BY StateValues
  DEF Idle, CanSendOpen, HalfClosedRemote, Open, Value, Peers
<1>2. CASE eos
  <2>1. RecvOpen(Idle, eos, FALSE) = HalfClosedRemote("AwaitingHeaders")
    BY <1>1, <1>2 DEF RecvOpen
  <2> QED BY <1>1, <2>1, ClosedValues, SendOpenType
<1>3. CASE ~eos
  <2>1. RecvOpen(Idle, eos, FALSE) = Open("AwaitingHeaders", "Streaming")
    BY <1>1, <1>3 DEF RecvOpen, Idle, Value
  <2> QED BY <1>1, <2>1, ClosedValues, SendOpenType
<1> QED BY <1>2, <1>3

\* State::recv_close of a stream that is receiving.
LEMMA RecvCloseType ==
  ASSUME NEW s \in State, CanRecvClose(s)
  PROVE  RecvClose(s) \in State /\ ~IsClosed(s)
BY StateFields, StateValues DEF RecvClose, CanRecvClose, IsClosed, Causes

\* A stream that receives data may end, and is not closed.
LEMMA RecvStreamingCanClose ==
  ASSUME NEW s \in State, IsRecvStreaming(s)
  PROVE  CanRecvClose(s) /\ ~IsClosed(s)
BY DEF IsRecvStreaming, CanRecvClose, IsClosed

\* State::recv_reset leaves the stream closed.
LEMMA RecvResetType ==
  ASSUME NEW s \in State, NEW queued
  PROVE  RecvReset(s, queued) \in State /\ IsClosed(RecvReset(s, queued))
BY StateValues, ClosedValues DEF RecvReset, Causes

\* State::handle_error leaves the stream closed.
LEMMA HandleErrorType ==
  ASSUME NEW s \in State, NEW c \in Causes
  PROVE  HandleError(s, c) \in State /\ IsClosed(HandleError(s, c))
BY StateValues, ClosedValues DEF HandleError

-----------------------------------------------------------------------------
(* Sums over a finite set.  MapThenSumSet recurs on the subsets of its set;  *)
(* the lemmas below are by the subset of least size that breaks them, since  *)
(* every nonempty set of naturals has a least element.                       *)

\* The least-number principle, for a set.
LEMMA NatHasMin ==
  ASSUME NEW T \in SUBSET Nat, T # {}
  PROVE  \E m \in T : \A n \in T : m <= n
<1> DEFINE R == OpToRel(<, Nat)
<1>1. IsWellFoundedOn(R, Nat)
  BY NatLessThanWellFounded
<1>2. \A m \in Nat, n \in Nat : n < m => <<n, m>> \in R
  BY DEF OpToRel
<1> HIDE DEF R
<1>3. PICK m \in T : \A n \in T : ~(<<n, m>> \in R)
  BY <1>1, WFMin
<1>4. \A n \in T : ~(n < m)
  BY <1>2, <1>3, Zenon
<1>5. m \in Nat /\ \A n \in T : n \in Nat
  OBVIOUS
<1> QED BY <1>4, <1>5, SMT

(* A set of subsets of S that is not empty has a smallest member, and every  *)
(* subset of S without one of its members is smaller.                        *)
LEMMA SmallestSubset ==
  ASSUME NEW S, IsFiniteSet(S), NEW B \in SUBSET SUBSET S, B # {}
  PROVE  \E s \in B : \A x \in s : s \ {x} \notin B
<1> DEFINE T == {Cardinality(s) : s \in B}
<1>1. \A s \in SUBSET S : IsFiniteSet(s) /\ Cardinality(s) \in Nat
  BY FS_Subset, FS_CardinalityType
<1>2. T \in SUBSET Nat /\ T # {}
  BY <1>1
<1> HIDE DEF T
<1>3. PICK m \in T : \A n \in T : m <= n
  BY <1>2, NatHasMin
<1>4. PICK s \in B : m = Cardinality(s)
  BY DEF T
<1>5. ASSUME NEW x \in s, s \ {x} \in B
      PROVE  FALSE
  <2>1. Cardinality(s \ {x}) \in T
    BY <1>5 DEF T
  <2>2. Cardinality(s \ {x}) = Cardinality(s) - 1
    BY <1>1, FS_RemoveElement
  <2>3. Cardinality(s) \in Nat
    BY <1>1
  <2> QED BY <1>3, <1>4, <2>1, <2>2, <2>3
<1> QED BY <1>4, <1>5

Chosen(s) == CHOOSE x \in s : TRUE

\* it is the recursive function whose value at S is the sum of f over S.
Adds(it, f, S) ==
  it = [s \in SUBSET S |->
          IF s = {} THEN 0 ELSE f[Chosen(s)] + it[s \ {Chosen(s)}]]

\* There is such a function.
LEMMA AddsExists ==
  ASSUME NEW S, IsFiniteSet(S), NEW f
  PROVE  \E it : Adds(it, f, S)
<1> DEFINE Below(n) == {s \in SUBSET S : Cardinality(s) <= n}
           Upto(n) == \E g : g = [s \in Below(n) |->
                        IF s = {} THEN 0 ELSE f[Chosen(s)] + g[s \ {Chosen(s)}]]
           B == {n \in Nat : ~Upto(n)}
<1>1. \A s \in SUBSET S : IsFiniteSet(s) /\ Cardinality(s) \in Nat
  BY FS_Subset, FS_CardinalityType
<1>2. \A s \in SUBSET S : s # {} =>
        /\ Chosen(s) \in s /\ s \ {Chosen(s)} \in SUBSET S
        /\ Cardinality(s \ {Chosen(s)}) = Cardinality(s) - 1
  BY <1>1, FS_RemoveElement DEF Chosen
<1>3. Upto(0)
  <2> DEFINE g == [s \in Below(0) |-> 0]
  <2>1. \A s \in Below(0) : s = {}
    <3>1. SUFFICES ASSUME NEW s \in Below(0) PROVE s = {}
      OBVIOUS
    <3>2. IsFiniteSet(s) /\ Cardinality(s) = 0
      BY <1>1
    <3> QED BY <3>2, FS_EmptySet
  <2>2. g = [s \in Below(0) |->
               IF s = {} THEN 0 ELSE f[Chosen(s)] + g[s \ {Chosen(s)}]]
    BY <2>1
  <2> QED BY <2>2
<1>4. ASSUME NEW n \in Nat, Upto(n)
      PROVE  Upto(n + 1)
  <2>1. PICK g : g = [s \in Below(n) |->
                        IF s = {} THEN 0 ELSE f[Chosen(s)] + g[s \ {Chosen(s)}]]
    BY <1>4
  <2> DEFINE h == [s \in Below(n + 1) |->
                     IF s = {} THEN 0 ELSE f[Chosen(s)] + g[s \ {Chosen(s)}]]
  <2>2. \A s \in Below(n + 1) : s # {} => s \ {Chosen(s)} \in Below(n)
    BY <1>1, <1>2
  <2>3. Below(n) \subseteq Below(n + 1)
    BY <1>1
  <2>4. \A s \in Below(n) : h[s] = g[s]
    <3>1. SUFFICES ASSUME NEW s \in Below(n) PROVE h[s] = g[s]
      OBVIOUS
    <3>2. g[s] = IF s = {} THEN 0 ELSE f[Chosen(s)] + g[s \ {Chosen(s)}]
      <4> HIDE DEF Below
      <4> QED BY <2>1
    <3>3. s \in Below(n + 1)
      BY <2>3
    <3> HIDE DEF Below
    <3> QED BY <3>2, <3>3
  <2>5. h = [s \in Below(n + 1) |->
               IF s = {} THEN 0 ELSE f[Chosen(s)] + h[s \ {Chosen(s)}]]
    <3> HIDE DEF Below
    <3>1. \A s \in Below(n + 1) : s # {} => h[s \ {Chosen(s)}] = g[s \ {Chosen(s)}]
      <4> HIDE DEF h
      <4> QED BY <2>2, <2>4
    <3> QED BY <3>1
  <2> QED BY <2>5
<1> HIDE DEF Upto
<1>5. Upto(Cardinality(S))
  <2>1. Cardinality(S) \in Nat
    BY FS_CardinalityType
  <2>2. SUFFICES ASSUME B # {} PROVE FALSE
    BY <2>1
  <2>3. B \in SUBSET Nat
    OBVIOUS
  <2> HIDE DEF B
  <2>4. PICK m \in B : \A n \in B : m <= n
    BY <2>2, <2>3, NatHasMin
  <2>5. m \in Nat /\ m # 0 /\ ~Upto(m)
    BY <1>3 DEF B
  <2>6. m - 1 \in Nat /\ m = (m - 1) + 1 /\ ~(m <= m - 1)
    BY <2>5
  <2>7. Upto(m - 1)
    BY <2>4, <2>6 DEF B
  <2>8. Upto((m - 1) + 1)
    BY <1>4, <2>6, <2>7
  <2> QED BY <2>5, <2>6, <2>8
<1>6. Below(Cardinality(S)) = SUBSET S
  BY FS_Subset, FS_CardinalityType
<1> QED BY <1>5, <1>6, Zenon DEF Upto, Adds

\* MapThenSumSet is the value of such a function.
SumOf(f, S) == MapThenSumSet(LAMBDA k : f[k], S)

\* It is the value of one.
LEMMA SumAdds ==
  ASSUME NEW S, IsFiniteSet(S), NEW f
  PROVE  \E it : Adds(it, f, S) /\ SumOf(f, S) = it[S]
<1> DEFINE iter == CHOOSE it : Adds(it, f, S)
<1>1. Adds(iter, f, S)
  BY AddsExists
<1>2. SumOf(f, S) = iter[S]
  BY DEF SumOf, MapThenSumSet, MapThenFoldSet, Adds, Chosen
<1> QED BY <1>1, <1>2

\* The sum of nothing.
LEMMA SumOfNothing == ASSUME NEW f PROVE SumOf(f, {}) = 0
<1>1. PICK it : Adds(it, f, {}) /\ SumOf(f, {}) = it[{}]
  BY SumAdds, FS_EmptySet
<1>2. {} \in SUBSET {}
  OBVIOUS
<1> QED BY <1>1, <1>2 DEF Adds

\* The sum of numbers is a number.
LEMMA AddsType ==
  ASSUME NEW S, IsFiniteSet(S), NEW f \in [S -> Int], NEW it, Adds(it, f, S)
  PROVE  \A s \in SUBSET S : it[s] \in Int
<1> DEFINE B == {s \in SUBSET S : it[s] \notin Int}
<1>1. \A s \in SUBSET S :
        it[s] = IF s = {} THEN 0 ELSE f[Chosen(s)] + it[s \ {Chosen(s)}]
  BY DEF Adds
<1>2. SUFFICES ASSUME B # {} PROVE FALSE
  OBVIOUS
<1>3. B \in SUBSET SUBSET S
  OBVIOUS
<1> HIDE DEF B
<1>4. PICK s \in B : \A x \in s : s \ {x} \notin B
  BY <1>2, <1>3, SmallestSubset
<1>5. s \in SUBSET S /\ it[s] \notin Int
  BY DEF B
<1>6. s # {}
  <2>1. it[{}] = 0
    BY <1>1
  <2> QED BY <1>5, <2>1
<1>7. Chosen(s) \in s /\ f[Chosen(s)] \in Int /\ s \ {Chosen(s)} \in SUBSET S
  BY <1>5, <1>6 DEF Chosen
<1>8. it[s \ {Chosen(s)}] \in Int
  BY <1>4, <1>7 DEF B
<1>9. f[Chosen(s)] + it[s \ {Chosen(s)}] \in Int
  BY <1>7, <1>8
<1> QED BY <1>1, <1>5, <1>6, <1>9

\* A sum moves by as much as one of its terms does.
LEMMA AddsMoves ==
  ASSUME NEW S, IsFiniteSet(S), NEW f \in [S -> Int], NEW g \in [S -> Int],
         NEW k \in S, \A j \in S : j # k => g[j] = f[j],
         NEW it, Adds(it, f, S), NEW jt, Adds(jt, g, S)
  PROVE  jt[S] = it[S] + (g[k] - f[k])
<1> DEFINE By(s) == IF k \in s THEN g[k] - f[k] ELSE 0
           B == {s \in SUBSET S : jt[s] # it[s] + By(s)}
<1>1. /\ \A s \in SUBSET S :
           it[s] = IF s = {} THEN 0 ELSE f[Chosen(s)] + it[s \ {Chosen(s)}]
      /\ \A s \in SUBSET S :
           jt[s] = IF s = {} THEN 0 ELSE g[Chosen(s)] + jt[s \ {Chosen(s)}]
  BY DEF Adds
<1>2. \A s \in SUBSET S : it[s] \in Int /\ jt[s] \in Int
  BY AddsType
<1>3. ASSUME B # {}
      PROVE  FALSE
  <2>1. B \in SUBSET SUBSET S
    OBVIOUS
  <2> HIDE DEF B
  <2>2. PICK s \in B : \A x \in s : s \ {x} \notin B
    BY <1>3, <2>1, SmallestSubset
  <2>3. s \in SUBSET S /\ jt[s] # it[s] + By(s)
    BY DEF B
  <2>4. s # {}
    <3>1. By({}) = 0
      OBVIOUS
    <3>2. it[{}] = 0 /\ jt[{}] = 0
      BY <1>1
    <3> HIDE DEF By
    <3> QED BY <2>3, <3>1, <3>2
  <2> DEFINE x == Chosen(s)
             r == s \ {x}
  <2>5. x \in s /\ x \in S /\ r \in SUBSET S
    BY <2>3, <2>4 DEF Chosen
  <2>6. jt[r] = it[r] + By(r)
    BY <2>2, <2>5 DEF B
  <2>7. it[s] = f[x] + it[r] /\ jt[s] = g[x] + jt[r]
    BY <1>1, <2>3, <2>4
  <2>8. /\ f[x] \in Int /\ g[x] \in Int /\ f[k] \in Int /\ g[k] \in Int
        /\ it[r] \in Int /\ jt[r] \in Int
    BY <1>2, <2>5
  <2>9. IF x = k THEN By(r) = 0 /\ By(s) = g[k] - f[k]
                 ELSE By(r) = By(s) /\ g[x] = f[x]
    BY <2>5
  <2>10. By(s) \in Int /\ By(r) \in Int
    BY <2>8
  <2> HIDE DEF x, r, By
  <2>11. CASE x = k
    <3>1. it[s] = f[k] + it[r] /\ jt[s] = g[k] + jt[r] /\ jt[r] = it[r] + 0
      BY <2>6, <2>7, <2>9, <2>11
    <3>2. By(s) = g[k] - f[k]
      BY <2>9, <2>11
    <3>3. jt[s] = it[s] + (g[k] - f[k])
      BY <2>8, <3>1
    <3> QED BY <2>3, <3>2, <3>3
  <2>12. CASE x # k
    BY <2>3, <2>6, <2>7, <2>8, <2>9, <2>10, <2>12
  <2> QED BY <2>11, <2>12
<1> QED BY <1>3

\* The sum of zeros is zero.
LEMMA AddsZeros ==
  ASSUME NEW S, IsFiniteSet(S), NEW f, \A k \in S : f[k] = 0,
         NEW it, Adds(it, f, S)
  PROVE  it[S] = 0
<1> DEFINE B == {s \in SUBSET S : it[s] # 0}
<1>1. \A s \in SUBSET S :
        it[s] = IF s = {} THEN 0 ELSE f[Chosen(s)] + it[s \ {Chosen(s)}]
  BY DEF Adds
<1>2. ASSUME B # {}
      PROVE  FALSE
  <2>1. B \in SUBSET SUBSET S
    OBVIOUS
  <2> HIDE DEF B
  <2>2. PICK s \in B : \A x \in s : s \ {x} \notin B
    BY <1>2, <2>1, SmallestSubset
  <2>3. s \in SUBSET S /\ it[s] # 0
    BY DEF B
  <2>4. s # {}
    BY <1>1, <2>3
  <2>5. Chosen(s) \in s /\ s \ {Chosen(s)} \in SUBSET S
    BY <2>3, <2>4 DEF Chosen
  <2>6. it[s \ {Chosen(s)}] = 0 /\ f[Chosen(s)] = 0
    BY <2>2, <2>3, <2>5 DEF B
  <2>7. it[s] = f[Chosen(s)] + it[s \ {Chosen(s)}]
    BY <1>1, <2>3, <2>4
  <2> QED BY <2>3, <2>6, <2>7
<1> QED BY <1>2

\* Only one function adds the values of f over the subsets of S.
LEMMA AddsUnique ==
  ASSUME NEW S, IsFiniteSet(S), NEW f, NEW it, Adds(it, f, S), NEW jt, Adds(jt, f, S)
  PROVE  it = jt
<1> DEFINE B == {s \in SUBSET S : it[s] # jt[s]}
<1>1. /\ \A s \in SUBSET S :
           it[s] = IF s = {} THEN 0 ELSE f[Chosen(s)] + it[s \ {Chosen(s)}]
      /\ \A s \in SUBSET S :
           jt[s] = IF s = {} THEN 0 ELSE f[Chosen(s)] + jt[s \ {Chosen(s)}]
  BY DEF Adds
<1>2. ASSUME B # {}
      PROVE  FALSE
  <2>1. B \in SUBSET SUBSET S
    OBVIOUS
  <2> HIDE DEF B
  <2>2. PICK s \in B : \A x \in s : s \ {x} \notin B
    BY <1>2, <2>1, SmallestSubset
  <2>3. s \in SUBSET S /\ it[s] # jt[s]
    BY DEF B
  <2>4. s # {}
    BY <1>1, <2>3
  <2>5. Chosen(s) \in s /\ s \ {Chosen(s)} \in SUBSET S
    BY <2>3, <2>4 DEF Chosen
  <2>6. it[s \ {Chosen(s)}] = jt[s \ {Chosen(s)}]
    BY <2>2, <2>5 DEF B
  <2>7. /\ it[s] = f[Chosen(s)] + it[s \ {Chosen(s)}]
        /\ jt[s] = f[Chosen(s)] + jt[s \ {Chosen(s)}]
    BY <1>1, <2>3, <2>4
  <2> QED BY <2>3, <2>6, <2>7
<1>3. \A s \in SUBSET S : it[s] = jt[s]
  BY <1>2
<1>4. /\ it = [s \in SUBSET S |->
                 IF s = {} THEN 0 ELSE f[Chosen(s)] + it[s \ {Chosen(s)}]]
      /\ jt = [s \in SUBSET S |->
                 IF s = {} THEN 0 ELSE f[Chosen(s)] + jt[s \ {Chosen(s)}]]
  BY DEF Adds
<1>5. it = [s \in SUBSET S |-> it[s]] /\ jt = [s \in SUBSET S |-> jt[s]]
  BY <1>4, Zenon
<1> QED BY <1>3, <1>5, Zenon

\* The sum over a subset is the value there of the function that sums over the set.
LEMMA SumOfSubset ==
  ASSUME NEW S, IsFiniteSet(S), NEW f, NEW it, Adds(it, f, S), NEW u \in SUBSET S
  PROVE  SumOf(f, u) = it[u]
<1> DEFINE jt == [s \in SUBSET u |-> it[s]]
<1>1. \A s \in SUBSET S :
        it[s] = IF s = {} THEN 0 ELSE f[Chosen(s)] + it[s \ {Chosen(s)}]
  BY DEF Adds
<1>2. IsFiniteSet(u)
  BY FS_Subset
<1>3. \A s \in SUBSET u : s \in SUBSET S /\ s \ {Chosen(s)} \in SUBSET u
  OBVIOUS
<1>4. jt = [s \in SUBSET u |->
              IF s = {} THEN 0 ELSE f[Chosen(s)] + jt[s \ {Chosen(s)}]]
  <2>1. \A s \in SUBSET u :
          it[s] = IF s = {} THEN 0 ELSE f[Chosen(s)] + jt[s \ {Chosen(s)}]
    BY <1>1, <1>3
  <2> QED BY <2>1, Zenon
<1>5. Adds(jt, f, u)
  BY <1>4 DEF Adds
<1>6. PICK kt : Adds(kt, f, u) /\ SumOf(f, u) = kt[u]
  BY <1>2, SumAdds
<1>7. kt = jt
  BY <1>2, <1>5, <1>6, AddsUnique
<1> QED BY <1>6, <1>7

\* Any element may be the one that is added last.
Removes(it, f, S) == \A s \in SUBSET S : \A x \in s : it[s] = f[x] + it[s \ {x}]

\* A sum is that of the rest and of any one of its elements.
LEMMA AddsRemove ==
  ASSUME NEW S, IsFiniteSet(S), NEW f \in [S -> Int], NEW it, Adds(it, f, S)
  PROVE  Removes(it, f, S)
<1> DEFINE B == {s \in SUBSET S : \E x \in s : it[s] # f[x] + it[s \ {x}]}
<1>1. \A s \in SUBSET S :
        it[s] = IF s = {} THEN 0 ELSE f[Chosen(s)] + it[s \ {Chosen(s)}]
  BY DEF Adds
<1>2. \A s \in SUBSET S : it[s] \in Int
  BY AddsType
<1>3. ASSUME B # {}
      PROVE  FALSE
  <2>1. B \in SUBSET SUBSET S
    OBVIOUS
  <2> HIDE DEF B
  <2>2. PICK s \in B : \A x \in s : s \ {x} \notin B
    BY <1>3, <2>1, SmallestSubset
  <2>3. s \in SUBSET S
    BY DEF B
  <2>4. PICK x \in s : it[s] # f[x] + it[s \ {x}]
    BY DEF B
  <2> DEFINE y == Chosen(s)
  <2>5. y \in s
    BY <2>4 DEF Chosen
  <2>6. it[s] = f[y] + it[s \ {y}]
    BY <1>1, <2>3, <2>4
  <2> HIDE DEF y
  <2>7. x # y
    BY <2>4, <2>6
  <2>8. x \in s \ {y} /\ y \in s \ {x} /\ s \ {x} \in SUBSET S /\ s \ {y} \in SUBSET S
    BY <2>3, <2>5, <2>7
  <2>9. it[s \ {y}] = f[x] + it[(s \ {y}) \ {x}]
    BY <2>2, <2>5, <2>8 DEF B
  <2>10. it[s \ {x}] = f[y] + it[(s \ {x}) \ {y}]
    BY <2>2, <2>4, <2>8 DEF B
  <2>11. (s \ {y}) \ {x} = (s \ {x}) \ {y}
    OBVIOUS
  <2> DEFINE r == it[(s \ {x}) \ {y}]
  <2>12. f[x] \in Int /\ f[y] \in Int /\ r \in Int
    BY <1>2, <2>3, <2>5
  <2>13. it[s \ {y}] = f[x] + r /\ it[s \ {x}] = f[y] + r
    BY <2>9, <2>10, <2>11
  <2> HIDE DEF r
  <2>14. it[s] = f[y] + (f[x] + r) /\ it[s] # f[x] + (f[y] + r)
    BY <2>4, <2>6, <2>13
  <2> DEFINE a == f[x]
             b == f[y]
  <2>15. a \in Int /\ b \in Int /\ r \in Int /\ b + (a + r) # a + (b + r)
    BY <2>12, <2>14
  <2> HIDE DEF a, b
  <2> QED BY <2>15
<1> QED BY <1>3 DEF Removes

\* A sum of integers is one.
LEMMA SumType ==
  ASSUME NEW S, IsFiniteSet(S), NEW f \in [S -> Int]
  PROVE  SumOf(f, S) \in Int
<1>1. PICK it : Adds(it, f, S) /\ SumOf(f, S) = it[S]
  BY SumAdds
<1>2. it[S] \in Int
  BY <1>1, AddsType
<1> QED BY <1>1, <1>2

\* Terms that are zero do not count.
LEMMA SumWithoutZeros ==
  ASSUME NEW S, IsFiniteSet(S), NEW f \in [S -> Int], NEW u \in SUBSET S,
         \A k \in S \ u : f[k] = 0
  PROVE  SumOf(f, u) = SumOf(f, S)
<1>1. PICK it : Adds(it, f, S) /\ SumOf(f, S) = it[S]
  BY SumAdds
<1>2. SumOf(f, u) = it[u]
  BY <1>1, SumOfSubset
<1>3. \A s \in SUBSET S : it[s] \in Int
  BY <1>1, AddsType
<1>4. \A s \in SUBSET S : \A x \in s : it[s] = f[x] + it[s \ {x}]
  <2>1. Removes(it, f, S)
    BY <1>1, AddsRemove
  <2> QED BY <2>1 DEF Removes
<1> DEFINE B == {s \in SUBSET S : it[s] # it[s \cap u]}
<1>5. ASSUME B # {}
      PROVE  FALSE
  <2>1. B \in SUBSET SUBSET S
    OBVIOUS
  <2> HIDE DEF B
  <2>2. PICK s \in B : \A x \in s : s \ {x} \notin B
    BY <1>5, <2>1, SmallestSubset
  <2>3. s \in SUBSET S /\ it[s] # it[s \cap u]
    BY DEF B
  <2>4. PICK x \in s : x \notin u
    <3>1. s # s \cap u
      BY <2>3
    <3> QED BY <3>1
  <2>5. s \ {x} \in SUBSET S /\ (s \ {x}) \cap u = s \cap u
    BY <2>3, <2>4
  <2>6. it[s \ {x}] = it[s \cap u]
    BY <2>2, <2>5 DEF B
  <2>7. it[s] = f[x] + it[s \ {x}] /\ f[x] = 0 /\ it[s \ {x}] \in Int
    BY <1>3, <1>4, <2>3, <2>4, <2>5
  <2> QED BY <2>3, <2>6, <2>7
<1>6. it[S] = it[S \cap u] /\ S \cap u = u
  BY <1>5
<1> QED BY <1>1, <1>2, <1>6

\* No term exceeds the sum of terms that are not negative.
LEMMA SumBounds ==
  ASSUME NEW S, IsFiniteSet(S), NEW f \in [S -> Nat]
  PROVE  SumOf(f, S) \in Nat /\ \A k \in S : f[k] <= SumOf(f, S)
<1>1. PICK it : Adds(it, f, S) /\ SumOf(f, S) = it[S]
  BY SumAdds
<1>2. f \in [S -> Int]
  OBVIOUS
<1>3. \A s \in SUBSET S : it[s] \in Int
  BY <1>1, <1>2, AddsType
<1>4. \A s \in SUBSET S : \A x \in s : it[s] = f[x] + it[s \ {x}]
  <2>1. Removes(it, f, S)
    BY <1>1, <1>2, AddsRemove
  <2> QED BY <2>1 DEF Removes
<1>5. it[{}] = 0
  BY <1>1 DEF Adds
<1> DEFINE B == {s \in SUBSET S : it[s] \notin Nat}
<1>6. ASSUME B # {}
      PROVE  FALSE
  <2>1. B \in SUBSET SUBSET S
    OBVIOUS
  <2> HIDE DEF B
  <2>2. PICK s \in B : \A x \in s : s \ {x} \notin B
    BY <1>6, <2>1, SmallestSubset
  <2>3. s \in SUBSET S /\ it[s] \notin Nat
    BY DEF B
  <2>4. PICK x \in s : TRUE
    BY <1>5, <2>3
  <2>5. s \ {x} \in SUBSET S /\ x \in S
    BY <2>3
  <2>6. it[s \ {x}] \in Nat
    BY <2>2, <2>5 DEF B
  <2>7. it[s] = f[x] + it[s \ {x}] /\ f[x] \in Nat
    BY <1>4, <2>3, <2>5
  <2> QED BY <2>3, <2>6, <2>7
<1>7. \A s \in SUBSET S : it[s] \in Nat
  BY <1>6
<1>8. ASSUME NEW k \in S
      PROVE  f[k] <= it[S]
  <2>1. it[S] = f[k] + it[S \ {k}]
    BY <1>4
  <2>2. f[k] \in Nat /\ it[S \ {k}] \in Nat
    BY <1>7
  <2> QED BY <2>1, <2>2
<1> QED BY <1>1, <1>7, <1>8

\* The sum of the sums of two functions is the sum of their sums.
LEMMA SumOfSums ==
  ASSUME NEW S, IsFiniteSet(S), NEW f \in [S -> Int], NEW g \in [S -> Int],
         NEW h \in [S -> Int], \A k \in S : h[k] = f[k] + g[k]
  PROVE  SumOf(h, S) = SumOf(f, S) + SumOf(g, S)
<1>1. PICK it : Adds(it, f, S) /\ SumOf(f, S) = it[S]
  BY SumAdds
<1>2. PICK jt : Adds(jt, g, S) /\ SumOf(g, S) = jt[S]
  BY SumAdds
<1>3. PICK kt : Adds(kt, h, S) /\ SumOf(h, S) = kt[S]
  BY SumAdds
<1>4. \A s \in SUBSET S : it[s] \in Int /\ jt[s] \in Int /\ kt[s] \in Int
  BY <1>1, <1>2, <1>3, AddsType
<1>5. /\ \A s \in SUBSET S : \A x \in s : it[s] = f[x] + it[s \ {x}]
      /\ \A s \in SUBSET S : \A x \in s : jt[s] = g[x] + jt[s \ {x}]
      /\ \A s \in SUBSET S : \A x \in s : kt[s] = h[x] + kt[s \ {x}]
  <2>1. \A s \in SUBSET S : \A x \in s : it[s] = f[x] + it[s \ {x}]
    <3>1. Removes(it, f, S)
      BY <1>1, AddsRemove
    <3> QED BY <3>1 DEF Removes
  <2>2. \A s \in SUBSET S : \A x \in s : jt[s] = g[x] + jt[s \ {x}]
    <3>1. Removes(jt, g, S)
      BY <1>2, AddsRemove
    <3> QED BY <3>1 DEF Removes
  <2>3. \A s \in SUBSET S : \A x \in s : kt[s] = h[x] + kt[s \ {x}]
    <3>1. Removes(kt, h, S)
      BY <1>3, AddsRemove
    <3> QED BY <3>1 DEF Removes
  <2> QED BY <2>1, <2>2, <2>3
<1>6. it[{}] = 0 /\ jt[{}] = 0 /\ kt[{}] = 0
  BY <1>1, <1>2, <1>3 DEF Adds
<1> DEFINE B == {s \in SUBSET S : kt[s] # it[s] + jt[s]}
<1>7. ASSUME B # {}
      PROVE  FALSE
  <2>1. B \in SUBSET SUBSET S
    OBVIOUS
  <2> HIDE DEF B
  <2>2. PICK s \in B : \A x \in s : s \ {x} \notin B
    BY <1>7, <2>1, SmallestSubset
  <2>3. s \in SUBSET S /\ kt[s] # it[s] + jt[s]
    BY DEF B
  <2>4. PICK x \in s : TRUE
    <3>1. kt[{}] = it[{}] + jt[{}]
      BY <1>6
    <3> QED BY <2>3, <3>1
  <2>5. s \ {x} \in SUBSET S /\ x \in S
    BY <2>3
  <2>6. kt[s \ {x}] = it[s \ {x}] + jt[s \ {x}]
    BY <2>2, <2>5 DEF B
  <2>7. /\ it[s] = f[x] + it[s \ {x}]
        /\ jt[s] = g[x] + jt[s \ {x}]
        /\ kt[s] = (f[x] + g[x]) + kt[s \ {x}]
    BY <1>5, <2>3, <2>5
  <2>8. /\ f[x] \in Int /\ g[x] \in Int /\ it[s \ {x}] \in Int
        /\ jt[s \ {x}] \in Int
    BY <1>4, <2>5
  <2> QED BY <2>3, <2>6, <2>7, <2>8
<1> QED BY <1>1, <1>2, <1>3, <1>7

\* The sum of one function and of another that differs at k.
LEMMA SumMoves ==
  ASSUME NEW S, IsFiniteSet(S), NEW f \in [S -> Int], NEW g \in [S -> Int],
         NEW k \in S, \A j \in S : j # k => g[j] = f[j]
  PROVE  /\ SumOf(f, S) \in Int /\ SumOf(g, S) \in Int
         /\ SumOf(g, S) = SumOf(f, S) + (g[k] - f[k])
<1>1. PICK it : Adds(it, f, S) /\ SumOf(f, S) = it[S]
  BY SumAdds
<1>2. PICK jt : Adds(jt, g, S) /\ SumOf(g, S) = jt[S]
  BY SumAdds
<1>3. it[S] \in Int /\ jt[S] \in Int
  BY <1>1, <1>2, AddsType
<1>4. jt[S] = it[S] + (g[k] - f[k])
  BY <1>1, <1>2, AddsMoves
<1> QED BY <1>1, <1>2, <1>3, <1>4
=============================================================================
