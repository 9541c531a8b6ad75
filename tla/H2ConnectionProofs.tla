------------------------- MODULE H2ConnectionProofs -------------------------
(***************************************************************************)
(* Proofs about H2Connection.  First what each end does by itself: the     *)
(* types, its control (what its GOAWAY, PING and SETTINGS may be at each   *)
(* place of the poll), the identifiers of its GOAWAYs and the count of its *)
(* ACKs.  Then the frames on their way between the two ends: requests that *)
(* are given up were not processed; without faults nobody accuses the      *)
(* other, and no request is lost.                                          *)
(***************************************************************************)
EXTENDS H2Connection, SequenceTheorems, WellFoundedInduction, TLAPS

(* Induction over the naturals, for a set.                                   *)
LEMMA Upwards ==
  ASSUME NEW T \in SUBSET Nat, 0 \in T, \A n \in T : n + 1 \in T
  PROVE  T = Nat
<1> DEFINE R == OpToRel(<, Nat)
<1>1. IsWellFoundedOn(R, Nat)
  BY NatLessThanWellFounded
<1>2. \A m \in Nat, n \in Nat : n < m => <<n, m>> \in R
  BY DEF OpToRel
<1> HIDE DEF R
<1> SUFFICES ASSUME Nat \ T # {} PROVE FALSE
  OBVIOUS
<1>3. PICK m \in Nat \ T : \A n \in Nat \ T : ~(<<n, m>> \in R)
  BY <1>1, WFMin
<1>4. m \in Nat /\ m # 0 /\ m \notin T
  BY <1>3
<1>5. m - 1 \in Nat /\ m - 1 < m /\ m = (m - 1) + 1
  BY <1>4
<1>6. m - 1 \in T
  BY <1>2, <1>3, <1>5
<1> QED BY <1>4, <1>5, <1>6

(* r is s without some of its frames, in the order of s; h is where they     *)
(* were.                                                                     *)
Picks(r, s, n, h) ==
  /\ h \in [1..Len(r) -> 1..n]
  /\ \A i \in 1..Len(r) : r[i] = s[h[i]]
  /\ \A i \in 1..Len(r), j \in 1..Len(r) : i < j => h[i] < h[j]

Within(r, s) == \E h : Picks(r, s, Len(s), h)

(* r is what is kept of the first n frames of q.                             *)
Kept(r, q, gone, n) ==
  /\ \E h : Picks(r, q, n, h)
  /\ \A i \in 1..Len(r) : r[i].arg[1] \notin gone
  /\ \A a \in 1..n : q[a].arg[1] \notin gone => \E i \in 1..Len(r) : r[i] = q[a]

Keeps(q, gone, n, F) ==
  F = [i \in 0..n |->
        IF i = 0 THEN <<>>
        ELSE IF q[i].arg[1] \in gone THEN F[i - 1] ELSE Append(F[i - 1], q[i])]

(* Every prefix of the function Without is defined by keeps what it should.  *)
LEMMA KeptAll ==
  ASSUME NEW S, NEW q \in Seq(S), NEW gone, NEW F, NEW N \in 0..Len(q), Keeps(q, gone, N, F),
         NEW n \in 0..N
  PROVE  F[n] \in Seq(S) /\ Kept(F[n], q, gone, n)
<1> DEFINE T == {n_1 \in Nat : n_1 <= N => F[n_1] \in Seq(S) /\ Kept(F[n_1], q, gone, n_1)}
<1>1. 0 \in T
  <2>1. F[0] = <<>>
    BY DEF Keeps
  <2>2. Picks(<<>>, q, 0, [i \in 1..0 |-> i])
    BY DEF Picks
  <2>3. <<>> \in Seq(S) /\ Kept(<<>>, q, gone, 0)
    BY <2>2 DEF Kept
  <2> QED BY <2>1, <2>3
<1>2. ASSUME NEW m \in T PROVE m + 1 \in T
  <2> SUFFICES ASSUME m + 1 <= N
               PROVE  F[m + 1] \in Seq(S) /\ Kept(F[m + 1], q, gone, m + 1)
    OBVIOUS
  <2>1. m \in Nat /\ m + 1 \in 1..Len(q) /\ m + 1 \in 0..N /\ m + 1 # 0 /\ (m + 1) - 1 = m
    OBVIOUS
  <2>2. F[m + 1] = IF q[m + 1].arg[1] \in gone THEN F[m] ELSE Append(F[m], q[m + 1])
    BY <2>1 DEF Keeps
  <2>3. F[m] \in Seq(S) /\ Kept(F[m], q, gone, m)
    BY <2>1
  <2>4. q[m + 1] \in S
    BY <2>1, ElementOfSeq
  <2>5. PICK h : Picks(F[m], q, m, h)
    BY <2>3 DEF Kept
  <2>6. CASE q[m + 1].arg[1] \in gone
    <3>1. Picks(F[m], q, m + 1, h)
      BY <2>1, <2>5 DEF Picks
    <3> QED BY <2>1, <2>2, <2>3, <2>6, <3>1 DEF Kept
  <2>7. CASE q[m + 1].arg[1] \notin gone
    <3> DEFINE r == Append(F[m], q[m + 1])
               l == Len(F[m])
               g == [i \in 1..(l + 1) |-> IF i = l + 1 THEN m + 1 ELSE h[i]]
    <3>1. /\ r \in Seq(S) /\ l \in Nat /\ Len(r) = l + 1
          /\ r[l + 1] = q[m + 1]
          /\ \A i \in 1..l : r[i] = F[m][i]
      BY <2>3, <2>4, AppendProperties
    <3> HIDE DEF r, l
    <3>2. /\ h \in [1..l -> 1..m]
          /\ \A i \in 1..l : F[m][i] = q[h[i]]
          /\ \A i \in 1..l, j \in 1..l : i < j => h[i] < h[j]
      BY <2>5 DEF Picks, l
    <3>3. /\ g \in [1..(l + 1) -> 1..(m + 1)]
          /\ g[l + 1] = m + 1 /\ \A i \in 1..l : g[i] = h[i] /\ g[i] <= m
      BY <2>1, <3>1, <3>2
    <3> HIDE DEF g
    <3>4. ASSUME NEW i \in 1..(l + 1), NEW j \in 1..(l + 1), i < j PROVE g[i] < g[j]
      <4>1. i \in 1..l
        BY <3>1, <3>4
      <4>2. CASE j = l + 1
        BY <2>1, <3>2, <3>3, <4>1, <4>2
      <4>3. CASE j # l + 1
        <5>1. j \in 1..l
          BY <3>1, <4>3
        <5> QED BY <3>2, <3>3, <3>4, <4>1, <5>1
      <4> QED BY <4>2, <4>3
    <3>5. \A i \in 1..(l + 1) : i = l + 1 \/ i \in 1..l
      BY <3>1
    <3>6. Picks(r, q, m + 1, g)
      BY <3>1, <3>2, <3>3, <3>4, <3>5 DEF Picks
    <3>7. \A i \in 1..Len(r) : r[i].arg[1] \notin gone
      BY <2>3, <2>7, <3>1, <3>5 DEF Kept, l
    <3>8. \A a \in 1..(m + 1) : q[a].arg[1] \notin gone => \E i \in 1..Len(r) : r[i] = q[a]
      <4>1. \A a \in 1..m : q[a].arg[1] \notin gone => \E i \in 1..l : F[m][i] = q[a]
        BY <2>3 DEF Kept, l
      <4>2. \A i \in 1..l : i \in 1..Len(r)
        BY <3>1
      <4>3. l + 1 \in 1..Len(r)
        BY <3>1
      <4>4. \A a \in 1..(m + 1) : a = m + 1 \/ a \in 1..m
        BY <2>1
      <4> QED BY <3>1, <4>1, <4>2, <4>3, <4>4
    <3>9. F[m + 1] = r
      BY <2>2, <2>7 DEF r
    <3> QED BY <3>1, <3>6, <3>7, <3>8, <3>9 DEF Kept
  <2> QED BY <2>6, <2>7
<1>3. T \subseteq Nat
  OBVIOUS
<1>4. n \in Nat /\ n <= N
  OBVIOUS
<1> HIDE DEF T
<1>5. T = Nat
  BY <1>1, <1>2, <1>3, Upwards
<1> QED BY <1>4, <1>5 DEF T

(* The function Without is defined by exists.                                *)
LEMMA KeepsExists ==
  ASSUME NEW q, NEW gone, NEW N \in Nat
  PROVE  \E F : Keeps(q, gone, N, F)
<1> DEFINE T == {n \in Nat : \E F : Keeps(q, gone, n, F)}
<1>1. 0 \in T
  <2>1. Keeps(q, gone, 0, [i \in 0..0 |-> <<>>])
    BY DEF Keeps
  <2> QED BY <2>1
<1>2. ASSUME NEW m \in T PROVE m + 1 \in T
  <2>1. m \in Nat
    OBVIOUS
  <2>2. PICK F : Keeps(q, gone, m, F)
    OBVIOUS
  <2> DEFINE last == IF q[m + 1].arg[1] \in gone THEN F[m] ELSE Append(F[m], q[m + 1])
             G == [i \in 0..(m + 1) |-> IF i = m + 1 THEN last ELSE F[i]]
  <2>3. \A i \in 0..m : F[i] = IF i = 0 THEN <<>>
          ELSE IF q[i].arg[1] \in gone THEN F[i - 1] ELSE Append(F[i - 1], q[i])
    BY <2>2 DEF Keeps
  <2>4. \A i \in 0..(m + 1) : i = m + 1 \/ i \in 0..m
    BY <2>1
  <2>5. /\ \A i \in 0..m : G[i] = F[i]
        /\ G[m + 1] = last
    BY <2>1
  <2>6. \A i \in 0..m : i # 0 => i - 1 \in 0..m
    BY <2>1
  <2>7. m \in 0..m /\ m + 1 # 0 /\ (m + 1) - 1 = m
    BY <2>1
  <2> DEFINE E(i) == IF i = 0 THEN <<>>
          ELSE IF q[i].arg[1] \in gone THEN G[i - 1] ELSE Append(G[i - 1], q[i])
  <2> HIDE DEF G
  <2>8. \A i \in 0..(m + 1) : G[i] = E(i)
    <3> SUFFICES ASSUME NEW i \in 0..(m + 1) PROVE G[i] = E(i)
      OBVIOUS
    <3>1. CASE i = m + 1
      BY <2>5, <2>7, <3>1
    <3>2. CASE i \in 0..m
      BY <2>3, <2>5, <2>6, <3>2
    <3> QED BY <2>4, <3>1, <3>2
  <2>9. G = [i \in 0..(m + 1) |-> G[i]]
    BY DEF G
  <2>10. Keeps(q, gone, m + 1, G)
    BY <2>8, <2>9 DEF Keeps
  <2> QED BY <2>1, <2>10
<1>3. T \subseteq Nat
  OBVIOUS
<1> HIDE DEF T
<1>4. T = Nat
  BY <1>1, <1>2, <1>3, Upwards
<1> QED BY <1>4 DEF T

(* What is left of a queue when streams end.                                 *)
LEMMA WithoutKeeps ==
  ASSUME NEW S, NEW q \in Seq(S), NEW gone
  PROVE  /\ Without(q, gone) \in Seq(S)
         /\ Kept(Without(q, gone), q, gone, Len(q))
<1>1. Len(q) \in Nat
  OBVIOUS
<1>2. \E F : Keeps(q, gone, Len(q), F) /\ Without(q, gone) = F[Len(q)]
  <2>1. \E F : Keeps(q, gone, Len(q), F)
    BY <1>1, KeepsExists
  <2> QED BY <2>1, Zenon DEF Without, Keeps
<1>3. PICK F : Keeps(q, gone, Len(q), F) /\ Without(q, gone) = F[Len(q)]
  BY <1>2
<1>4. Len(q) \in 0..Len(q)
  BY <1>1
<1> QED BY <1>3, <1>4, KeptAll

Place == {"parked", "go_away", "pong", "ping", "ack", "settings", "recv",
          "complete", "closing", "done"}

Con ==
  [state : {"Open", "Closing", "Closed"}, why : Reason \X {"Library"},
   error : GoAway \cup {None},
   local : ({"ToSend", "WaitingAck"} \X Nat) \cup {<<"Synced", None>>},
   remote : Nat \cup {None},
   pending_pong : {None, Shutdown, User}, pending_ping : [sent : BOOLEAN] \cup {None},
   user : {None, "empty", "pending_ping", "pending_pong", "received_pong", "closed"},
   ping_task : BOOLEAN, close_now : BOOLEAN,
   going_away : GoAway \cup {None}, is_user : BOOLEAN,
   pending : GoAway \cup {None}, handles : BOOLEAN]

Queued == [type : {"headers", "end"}, arg : Id \X Nat]

Frames ==
  Queued \cup [type : {"settings"}, arg : Nat] \cup [type : {"ack"}, arg : {None}]
    \cup [type : {"ping", "pong"}, arg : {Shutdown, User}]
    \cup [type : {"go_away"}, arg : GoAway]

History ==
  [scope : Scopes, processed : SUBSET Id, answered : SUBSET Id, aborted : SUBSET Id,
   acks : [End -> Nat], received : [End -> Nat], changes : Nat, pings : Nat]

Types ==
  /\ con \in [End -> Con] /\ pc \in [End -> Place] /\ woken \subseteq End
  /\ queue \in [End -> Seq(Queued)]
  /\ out \in [End -> Seq(Frames)] /\ wire \in [End -> Seq(Frames)]
  /\ streams \in [End -> SUBSET Id]
  /\ ids \in [last_processed : 0..MaxId, recv_max : Nat, next : 1..(MaxId + 1),
              send_max : Nat]
  /\ window \in [End -> [accepts : Nat, sends : Nat]]
  /\ result \in [End -> Outcome \cup {None}]
  /\ history \in History

Bounded ==
  \A e \in End : Len(out[e]) <= Room /\ ((result[e] # None) = (pc[e] = "done"))

(* What a scope is, from the assumption on the constants.                    *)
LEMMA ScopeOK ==
  ASSUME history \in History
  PROVE  /\ Room \in Nat \ {0} /\ history.scope.requests \in 0..MaxId
         /\ history.scope.windows \subseteq Nat
BY H2ConnectionAssumption DEF History, Room

(* What go_away.rs makes of an end has the type of an end.                   *)
LEMMA GoAwayTypes ==
  ASSUME NEW c \in Con, NEW last \in Nat, NEW reason \in Reason
  PROVE  /\ GoAwayFrame(last, reason) \in GoAway
         /\ SetGoAway(c, GoAwayFrame(last, reason)) \in Con
         /\ GoAwayNow(c, GoAwayFrame(last, reason)) \in Con
         /\ Dropped(c) \in Con
         /\ TakeError(c) \in Outcome
<1> DEFINE f == GoAwayFrame(last, reason)
<1>1. f \in GoAway
  BY DEF GoAwayFrame, GoAway
<1> HIDE DEF f
<1>2. SetGoAway(c, f) \in Con
  BY <1>1 DEF SetGoAway, Con
<1>3. [c EXCEPT !.close_now = TRUE] \in Con
  BY DEF Con
<1>4. SetGoAway([c EXCEPT !.close_now = TRUE], f) \in Con
  BY <1>1, <1>3, ZenonT(60) DEF SetGoAway, Con
<1>5. GoAwayNow(c, f) \in Con
  BY <1>3, <1>4 DEF GoAwayNow
<1>6. Dropped(c) \in Con
  <2> DEFINE u == IF c.user = None THEN None ELSE "closed"
  <2>1. u \in {None, "closed"} /\ Dropped(c) = [c EXCEPT !.state = "Closed", !.user = u]
    BY DEF Dropped
  <2> HIDE DEF u
  <2> QED BY <2>1 DEF Con
<1>7. TakeError(c) \in Outcome
  BY DEF TakeError, Outcome
<1> QED BY <1>1, <1>2, <1>5, <1>6, <1>7 DEF f

(* The identifier a GOAWAY carries is a number.                              *)
LEMMA LastTypes ==
  ASSUME Types, NEW e \in End
  PROVE  LastProcessed(e) \in Nat
BY H2ConnectionAssumption DEF Types, LastProcessed

(* Streams::handle_error leaves well-typed streams and queues.               *)
LEMMA AbortTypes ==
  ASSUME Types, NEW e \in End, NEW gone, AbortStreams(e, gone)
  PROVE  queue' \in [End -> Seq(Queued)] /\ streams' \in [End -> SUBSET Id]
<1>1. Without(queue[e], gone) \in Seq(Queued)
  BY WithoutKeeps DEF Types
<1> QED BY <1>1 DEF Types, AbortStreams

(* handle_poll2_result leaves a well-typed end.                              *)
LEMMA ErrorTypes ==
  ASSUME Types, NEW e \in End, NEW c \in Con, NEW reason \in Reason,
         ConnectionError(e, c, reason, "Library")
  PROVE  /\ con' \in [End -> Con] /\ pc' \in [End -> Place]
         /\ queue' \in [End -> Seq(Queued)] /\ streams' \in [End -> SUBSET Id]
<1>1. CASE c.going_away # None /\ c.going_away.reason = reason
  <2>1. [c EXCEPT !.state = "Closing", !.why = <<reason, "Library">>] \in Con
    BY DEF Con
  <2>2. /\ con' = [con EXCEPT ![e] = [c EXCEPT !.state = "Closing",
                                              !.why = <<reason, "Library">>]]
        /\ Goes(e, "closing") /\ UNCHANGED <<queue, streams>>
    BY <1>1, Zenon DEF ConnectionError
  <2> QED BY <2>1, <2>2 DEF Types, Goes, Place
<1>2. CASE ~(c.going_away # None /\ c.going_away.reason = reason)
  <2>1. GoAwayNow(c, GoAwayFrame(LastProcessed(e), reason)) \in Con
    BY LastTypes, GoAwayTypes
  <2>2. /\ con' = [con EXCEPT ![e] = GoAwayNow(c, GoAwayFrame(LastProcessed(e), reason))]
        /\ Goes(e, "go_away") /\ AbortStreams(e, Id)
    BY <1>2, Zenon DEF ConnectionError
  <2> QED BY <2>1, <2>2, AbortTypes DEF Types, Goes, Place
<1> QED BY <1>1, <1>2

(* What the codec takes is a frame.                                          *)
LEMMA BufferTypes ==
  ASSUME Types, NEW e \in End, NEW f \in Frames
  PROVE  [out EXCEPT ![e] = Append(@, f)] \in [End -> Seq(Frames)]
BY DEF Types

(* What is read from the wire is a frame.                                    *)
LEMMA ReadTypes ==
  ASSUME Types, NEW e \in End, wire[Other(e)] # <<>>
  PROVE  /\ Other(e) \in End
         /\ Head(wire[Other(e)]) \in Frames
         /\ [wire EXCEPT ![Other(e)] = Tail(@)] \in [End -> Seq(Frames)]
<1>1. Other(e) \in End
  BY DEF Other, End
<1>2. wire[Other(e)] \in Seq(Frames)
  BY <1>1 DEF Types
<1>3. Head(wire[Other(e)]) \in Frames /\ Tail(wire[Other(e)]) \in Seq(Frames)
  BY <1>2, HeadTailProperties
<1> QED BY <1>1, <1>3 DEF Types

(* What a frame carries.                                                     *)
LEMMA FrameTypes ==
  ASSUME NEW f \in Frames
  PROVE  /\ f.type \in {"headers", "end"} => f.arg \in Id \X Nat
         /\ f.type = "settings" => f.arg \in Nat
         /\ f.type \in {"ping", "pong"} => f.arg \in {Shutdown, User}
         /\ f.type = "go_away" => f.arg \in GoAway
BY DEF Frames, Queued

(* Connection::new makes well-typed ends.                                    *)
LEMMA TypesInit == Init => Types
<1> SUFFICES ASSUME Init PROVE Types
  OBVIOUS
<1>1. PICK scope \in Scopes :
        /\ con = [e \in End |-> NewCon(e, scope)]
        /\ history = [scope |-> scope, processed |-> {}, answered |-> {}, aborted |-> {},
                      acks |-> [e \in End |-> 0], received |-> [e \in End |-> 0],
                      changes |-> 0, pings |-> 0]
  BY Zenon DEF Init
<1>2. ASSUME NEW e \in End PROVE NewCon(e, scope) \in Con
  <2>1. First[e] \in Nat /\ (e = "client") \in BOOLEAN
    BY <1>2, H2ConnectionAssumption
  <2> QED BY <2>1 DEF NewCon, Con, Reason
<1>3. con \in [End -> Con]
  BY <1>1, <1>2
<1>4. history \in History
  BY <1>1 DEF History
<1>5. \A e \in End : <<Frame("settings", First[e])>> \in Seq(Frames)
  BY H2ConnectionAssumption DEF Frame, Frames
<1>6. /\ pc = [e \in End |-> "parked"] /\ woken = End
      /\ queue = [e \in End |-> <<>>] /\ wire = [e \in End |-> <<>>]
      /\ out = [e \in End |-> <<Frame("settings", First[e])>>]
      /\ streams = [e \in End |-> {}]
      /\ ids = [last_processed |-> 0, recv_max |-> MaxStreamId,
                next |-> 1, send_max |-> MaxStreamId]
      /\ window = [e \in End |-> [accepts |-> First[e], sends |-> Default]]
      /\ result = [e \in End |-> None]
  BY DEF Init
<1>7. ids \in [last_processed : 0..MaxId, recv_max : Nat, next : 1..(MaxId + 1),
               send_max : Nat]
  BY <1>6, H2ConnectionAssumption DEF MaxStreamId
<1>8. window \in [End -> [accepts : Nat, sends : Nat]]
  BY <1>6, H2ConnectionAssumption
<1> QED BY <1>3, <1>4, <1>5, <1>6, <1>7, <1>8 DEF Types, Place


(* The types hold when the codec has no room.                                *)
LEMMA TypesBlocked ==
  ASSUME Types, NEW e \in End, Blocked(e)
  PROVE  Types'
BY DEF Types, Blocked, Parks, Place

\* The types hold behind poll_go_away, given that a close now has its GOAWAY.
LEMMA TypesGoAway ==
  ASSUME Types, NEW e \in End, con[e].close_now => con[e].going_away # None,
         PollGoAway(e)
  PROVE  Types'
<1>1. CASE con[e].pending # None /\ Blocked(e)
  BY <1>1, TypesBlocked
<1> DEFINE c == [con[e] EXCEPT !.pending = None]
<1>2. CASE ~(con[e].pending # None /\ Blocked(e))
  <2>1. /\ out' = IF con[e].pending = None THEN out
                  ELSE [out EXCEPT ![e] = Append(@, Frame("go_away", con[e].pending))]
        /\ IF ~ShouldCloseNow(c)
           THEN /\ con' = [con EXCEPT ![e] = c] /\ Goes(e, "pong")
                /\ UNCHANGED <<queue, streams>>
           ELSE IF c.is_user THEN Finished(e, c)
           ELSE ConnectionError(e, c, c.going_away.reason, "Library")
        /\ UNCHANGED <<woken, wire, ids, window, result, history>>
    BY <1>2, Zenon DEF PollGoAway
  <2>2. c \in Con
    <3>1. con[e] \in Con
      BY DEF Types
    <3> QED BY <3>1 DEF Con
  <2>3. con[e].pending # None => Frame("go_away", con[e].pending) \in Frames
    BY DEF Types, Con, Frame, Frames
  <2>4. out' \in [End -> Seq(Frames)]
    BY <2>1, <2>3, BufferTypes DEF Types
  <2>6. c.going_away = con[e].going_away /\ c.close_now = con[e].close_now
    BY DEF Types, Con
  <2> HIDE DEF c
  <2>5. /\ con' \in [End -> Con] /\ pc' \in [End -> Place]
        /\ queue' \in [End -> Seq(Queued)] /\ streams' \in [End -> SUBSET Id]
    <3>1. CASE ~ShouldCloseNow(c)
      BY <2>1, <2>2, <3>1, ZenonT(60) DEF Types, Goes, Place
    <3>2. CASE ShouldCloseNow(c) /\ c.is_user
      <4>1. [c EXCEPT !.state = "Closing", !.why = <<"NO_ERROR", "Library">>] \in Con
        BY <2>2, ZenonT(60) DEF Con, Reason
      <4>2. Finished(e, c)
        BY <2>1, <3>2
      <4> QED BY <4>1, <4>2 DEF Types, Finished, Goes, Place
    <3>3. CASE ShouldCloseNow(c) /\ ~c.is_user
      <4>1. ConnectionError(e, c, c.going_away.reason, "Library")
        BY <2>1, <3>3
      <4>2. c.going_away.reason \in Reason
        <5>1. c.close_now /\ c.going_away = con[e].going_away /\ c.close_now = con[e].close_now
          BY <3>3, <2>6 DEF ShouldCloseNow
        <5> QED BY <5>1, <2>2 DEF Con, GoAway
      <4> QED BY <2>2, <4>1, <4>2, ErrorTypes
    <3> QED BY <3>1, <3>2, <3>3
  <2> QED BY <2>1, <2>4, <2>5 DEF Types
<1> QED BY <1>1, <1>2

(* The state of one end.                                                     *)
LEMMA ConOf == ASSUME Types, NEW e \in End PROVE con[e] \in Con
BY DEF Types

(* Counting keeps the types.                                                 *)
LEMMA HistoryCounts ==
  ASSUME Types, NEW e \in End
  PROVE  /\ [history EXCEPT !.acks[e] = @ + 1] \in History
         /\ [history EXCEPT !.received[e] = @ + 1] \in History
         /\ [history EXCEPT !.changes = @ + 1] \in History
         /\ [history EXCEPT !.pings = @ + 1] \in History
<1>1. /\ history \in History /\ history.acks \in [End -> Nat]
      /\ history.received \in [End -> Nat]
  BY DEF Types, History
<1>2. /\ [history.acks EXCEPT ![e] = @ + 1] \in [End -> Nat]
      /\ [history.received EXCEPT ![e] = @ + 1] \in [End -> Nat]
  BY <1>1
<1>3. ASSUME NEW n \in [End -> Nat]
      PROVE  [history EXCEPT !.acks = n] \in History /\ [history EXCEPT !.received = n] \in History
  BY <1>1, <1>3 DEF History
<1>4. history.changes + 1 \in Nat /\ history.pings + 1 \in Nat
  BY <1>1 DEF History
<1>5. ASSUME NEW n \in Nat
      PROVE  [history EXCEPT !.changes = n] \in History /\ [history EXCEPT !.pings = n] \in History
  BY <1>1, <1>5 DEF History
<1> QED BY <1>2, <1>3, <1>4, <1>5

(* The types hold behind send_pending_pong.                                  *)
LEMMA TypesPong ==
  ASSUME Types, NEW e \in End, SendPong(e)
  PROVE  Types'
<1>1. CASE con[e].pending_pong # None /\ Blocked(e)
  BY <1>1, TypesBlocked
<1>2. CASE ~(con[e].pending_pong # None /\ Blocked(e))
  <2>1. /\ out' = IF con[e].pending_pong = None THEN out
                  ELSE [out EXCEPT ![e] = Append(@, Frame("pong", con[e].pending_pong))]
        /\ con' = [con EXCEPT ![e].pending_pong = None]
        /\ pc' = [pc EXCEPT ![e] = "ping"]
        /\ UNCHANGED <<woken, queue, wire, streams, ids, result, window, history>>
    BY <1>2, Zenon DEF SendPong, Unchanged, Goes
  <2>2. con[e].pending_pong # None => Frame("pong", con[e].pending_pong) \in Frames
    BY ConOf DEF Con, Frame, Frames
  <2>3. out' \in [End -> Seq(Frames)]
    BY <2>1, <2>2, BufferTypes DEF Types
  <2>4. [con[e] EXCEPT !.pending_pong = None] \in Con
    BY ConOf DEF Con
  <2> QED BY <2>1, <2>3, <2>4 DEF Types, Place
<1> QED BY <1>1, <1>2

(* The types hold behind send_pending_ping.                                  *)
LEMMA TypesPing ==
  ASSUME Types, NEW e \in End, SendPing(e)
  PROVE  Types'
<1> DEFINE c == con[e]
<1>1. CASE PingToSend(c) /\ Blocked(e)
  BY <1>1, TypesBlocked
<1>2. CASE ~(PingToSend(c) /\ Blocked(e))
  <2> DEFINE f == Frame("ping", IF c.pending_ping # None THEN Shutdown ELSE User)
             d == IF c.pending_ping # None THEN [c EXCEPT !.pending_ping.sent = TRUE]
                  ELSE [c EXCEPT !.user = IF @ = "pending_ping" THEN "pending_pong" ELSE @,
                                 !.ping_task = @ \/ Registers(c)]
  <2>1. /\ out' = IF ~PingToSend(c) THEN out ELSE [out EXCEPT ![e] = Append(@, f)]
        /\ con' = [con EXCEPT ![e] = d]
        /\ pc' = [pc EXCEPT ![e] = "ack"]
        /\ UNCHANGED <<woken, queue, wire, streams, ids, result, window, history>>
    BY <1>2, Zenon DEF SendPing, Unchanged, Goes
  <2>2. f \in Frames
    BY DEF Frame, Frames
  <2>3. d \in Con
    <3>1. CASE c.pending_ping # None
      <4>1. c.pending_ping \in [sent : BOOLEAN]
        BY <3>1, ConOf DEF Con
      <4>2. [c.pending_ping EXCEPT !.sent = TRUE] \in [sent : BOOLEAN]
        BY <4>1
      <4>3. d = [c EXCEPT !.pending_ping = [c.pending_ping EXCEPT !.sent = TRUE]]
        BY <3>1, ConOf DEF Con
      <4>4. c \in Con
        BY ConOf
      <4> HIDE DEF c, d
      <4> QED BY <4>2, <4>3, <4>4 DEF Con
    <3>2. CASE c.pending_ping = None
      <4> DEFINE u == IF c.user = "pending_ping" THEN "pending_pong" ELSE c.user
                 b == c.ping_task \/ Registers(c)
      <4>1. u \in {None, "empty", "pending_ping", "pending_pong", "received_pong", "closed"}
        BY ConOf DEF Con
      <4>2. b \in BOOLEAN
        BY ConOf DEF Con, Registers
      <4>3. d = [c EXCEPT !.user = u, !.ping_task = b]
        BY <3>2
      <4>4. c \in Con
        BY ConOf
      <4> HIDE DEF c, d, u, b
      <4> QED BY <4>1, <4>2, <4>3, <4>4, ZenonT(60) DEF Con
    <3> QED BY <3>1, <3>2
  <2> HIDE DEF d, f
  <2>4. out' \in [End -> Seq(Frames)]
    BY <2>1, <2>2, BufferTypes DEF Types
  <2> QED BY <2>1, <2>3, <2>4 DEF Types, Place
<1> QED BY <1>1, <1>2

(* The types hold behind the ACK of SETTINGS, also when applying them fails. *)
LEMMA TypesAck ==
  ASSUME Types, NEW e \in End, SendAck(e) \/ FailAck(e)
  PROVE  Types'
<1> DEFINE c == con[e]
<1>1. CASE c.remote # None /\ Blocked(e)
  BY <1>1, TypesBlocked
<1>2. CASE SendAck(e) /\ c.remote = None
  <2>1. /\ pc' = [pc EXCEPT ![e] = "settings"]
        /\ UNCHANGED <<con, out, window, history>>
        /\ UNCHANGED <<woken, queue, wire, streams, ids, result>>
    BY <1>2, Zenon DEF SendAck, Goes, Unchanged
  <2> QED BY <2>1 DEF Types, Place
<1>3. Frame("ack", None) \in Frames
  BY DEF Frame, Frames
<1>4. [history EXCEPT !.acks[e] = @ + 1] \in History
  BY HistoryCounts
<1>5. CASE SendAck(e) /\ ~(c.remote # None /\ Blocked(e)) /\ c.remote # None
  <2>1. /\ pc' = [pc EXCEPT ![e] = "settings"]
        /\ out' = [out EXCEPT ![e] = Append(@, Frame("ack", None))]
        /\ window' = [window EXCEPT ![e].sends = c.remote]
        /\ con' = [con EXCEPT ![e].remote = None]
        /\ history' = [history EXCEPT !.acks[e] = @ + 1]
        /\ UNCHANGED <<woken, queue, wire, streams, ids, result>>
    BY <1>5, Zenon DEF SendAck, Goes, Unchanged, Buffer
  <2>2. [c EXCEPT !.remote = None] \in Con
    BY ConOf DEF Con
  <2>3. c.remote \in Nat
    BY <1>5, ConOf DEF Con
  <2>4. [window[e] EXCEPT !.sends = c.remote] \in [accepts : Nat, sends : Nat]
    BY <2>3 DEF Types
  <2> QED BY <1>3, <1>4, <2>1, <2>2, <2>4, BufferTypes DEF Types, Place
<1>6. CASE FailAck(e)
  <2>1. /\ out' = [out EXCEPT ![e] = Append(@, Frame("ack", None))]
        /\ ConnectionError(e, con[e], "FLOW_CONTROL_ERROR", "Library")
        /\ history' = [history EXCEPT !.acks[e] = @ + 1]
        /\ UNCHANGED <<woken, wire, ids, window, result>>
    BY <1>6, Zenon DEF FailAck, Buffer
  <2>2. "FLOW_CONTROL_ERROR" \in Reason
    BY DEF Reason
  <2> QED BY <1>3, <1>4, <2>1, <2>2, ConOf, BufferTypes, ErrorTypes DEF Types
<1> QED BY <1>1, <1>2, <1>5, <1>6

(* The types hold behind the sending of SETTINGS.                            *)
LEMMA TypesSettings ==
  ASSUME Types, NEW e \in End, SendSettings(e)
  PROVE  Types'
<1> DEFINE c == con[e]
<1>1. CASE Blocked(e)
  BY <1>1, TypesBlocked
<1>2. CASE ~Blocked(e) /\ ~(c.local[1] = "ToSend")
  <2>1. /\ pc' = [pc EXCEPT ![e] = "recv"]
        /\ UNCHANGED <<con, out, window, history>>
        /\ UNCHANGED <<woken, queue, wire, streams, ids, result>>
    BY <1>2, Zenon DEF SendSettings, Goes, Unchanged
  <2> QED BY <2>1 DEF Types, Place
<1>3. CASE ~Blocked(e) /\ c.local[1] = "ToSend"
  <2>1. /\ out' = [out EXCEPT ![e] = Append(@, Frame("settings", c.local[2]))]
        /\ con' = [con EXCEPT ![e].local[1] = "WaitingAck"]
        /\ pc' = [pc EXCEPT ![e] = "recv"]
        /\ UNCHANGED <<woken, queue, wire, streams, ids, result, window, history>>
    BY <1>3, Zenon DEF SendSettings, Unchanged, Goes, Buffer
  <2>2. c.local \in {"ToSend", "WaitingAck"} \X Nat
    BY <1>3, ConOf DEF Con
  <2>3. Frame("settings", c.local[2]) \in Frames
    BY <2>2 DEF Frame, Frames
  <2> DEFINE l == [c.local EXCEPT ![1] = "WaitingAck"]
  <2>4. l = <<"WaitingAck", c.local[2]>>
    BY <2>2
  <2>5. l \in {"ToSend", "WaitingAck"} \X Nat
    BY <2>2, <2>4
  <2>6. con' = [con EXCEPT ![e] = [c EXCEPT !.local = l]]
    BY <2>1
  <2> HIDE DEF l
  <2>7. [c EXCEPT !.local = l] \in Con
    BY <2>5, ConOf DEF Con
  <2>8. con' \in [End -> Con]
    BY <2>6, <2>7 DEF Types
  <2>9. out' \in [End -> Seq(Frames)]
    BY <2>1, <2>3, BufferTypes
  <2> QED BY <2>1, <2>8, <2>9 DEF Types, Place
<1> QED BY <1>1, <1>2, <1>3

(* What a step that reads a frame knows of it.                               *)
LEMMA ReadFacts ==
  ASSUME Types, NEW e \in End, NEW t, Reads(e, t)
  PROVE  /\ wire' \in [End -> Seq(Frames)]
         /\ pc[e] = "recv" /\ wire[Other(e)] # <<>>
         /\ Head(wire[Other(e)]) \in Frames /\ Head(wire[Other(e)]).type = t
         /\ Arg(e) = Head(wire[Other(e)]).arg
BY ReadTypes DEF Reads, At, Arg

(* The types hold when a frame is refused.                                   *)
LEMMA TypesRefused ==
  ASSUME Types, NEW e \in End, NEW t, Reads(e, t), NEW reason \in Reason, Refuses(e, reason)
  PROVE  Types'
BY ReadFacts, ConOf, ErrorTypes DEF Refuses, Types

(* The types hold behind SETTINGS, PING and their answers.                   *)
LEMMA TypesRecvControl ==
  ASSUME Types, NEW e \in End,
         RecvSettings(e) \/ RecvAck(e) \/ RecvPing(e) \/ RecvPong(e)
  PROVE  Types'
<1> DEFINE c == con[e]
<1>1. CASE RecvSettings(e)
  <2>1. /\ Reads(e, "settings")
        /\ con' = [con EXCEPT ![e].remote = Arg(e)]
        /\ history' = [history EXCEPT !.received[e] = @ + 1]
        /\ pc' = [pc EXCEPT ![e] = "go_away"]
        /\ UNCHANGED <<woken, queue, out, streams, ids, window, result>>
    BY <1>1 DEF RecvSettings, Goes
  <2>2. Arg(e) \in Nat
    BY <2>1, ReadFacts, FrameTypes
  <2>3. [c EXCEPT !.remote = Arg(e)] \in Con
    BY <2>2, ConOf DEF Con
  <2>4. history' \in History
    BY <2>1, HistoryCounts
  <2> QED BY <2>1, <2>3, <2>4, ReadFacts DEF Types, Place
<1>2. CASE RecvAck(e)
  <2>1. Reads(e, "ack")
    BY <1>2 DEF RecvAck
  <2>2. CASE c.local[1] # "WaitingAck"
    <3>1. Refuses(e, "PROTOCOL_ERROR") /\ "PROTOCOL_ERROR" \in Reason
      BY <1>2, <2>2 DEF RecvAck, Reason
    <3> QED BY <2>1, <3>1, TypesRefused
  <2>3. CASE c.local[1] = "WaitingAck"
    <3>1. /\ window' = [window EXCEPT ![e].accepts = con[e].local[2]]
          /\ con' = [con EXCEPT ![e].local = <<"Synced", None>>]
          /\ pc' = [pc EXCEPT ![e] = "go_away"]
          /\ UNCHANGED <<woken, queue, out, streams, ids, result, history>>
      BY <1>2, <2>3 DEF RecvAck, Goes
    <3>2. c.local[2] \in Nat
      BY <2>3, ConOf DEF Con
    <3>3. [window[e] EXCEPT !.accepts = c.local[2]] \in [accepts : Nat, sends : Nat]
      BY <3>2 DEF Types
    <3>4. [c EXCEPT !.local = <<"Synced", None>>] \in Con
      BY ConOf DEF Con
    <3> QED BY <2>1, <3>1, <3>3, <3>4, ReadFacts DEF Types, Place
  <2> QED BY <2>2, <2>3
<1>3. CASE RecvPing(e)
  <2>1. /\ Reads(e, "ping")
        /\ con' = [con EXCEPT ![e].pending_pong = Arg(e)]
        /\ pc' = [pc EXCEPT ![e] = "go_away"]
        /\ UNCHANGED <<woken, queue, out, streams, ids, window, result, history>>
    BY <1>3 DEF RecvPing, Goes
  <2>2. Arg(e) \in {Shutdown, User}
    BY <2>1, ReadFacts, FrameTypes
  <2>3. [c EXCEPT !.pending_pong = Arg(e)] \in Con
    BY <2>2, ConOf DEF Con
  <2> QED BY <2>1, <2>3, ReadFacts DEF Types, Place
<1>4. CASE RecvPong(e)
  <2>1. /\ Reads(e, "pong") /\ pc' = [pc EXCEPT ![e] = "go_away"]
        /\ UNCHANGED <<woken, queue, out, streams, window, result, history>>
    BY <1>4 DEF RecvPong, Goes
  <2>2. CASE c.pending_ping # None /\ Arg(e) = Shutdown
    <3> DEFINE d == [c EXCEPT !.pending_ping = None]
               f == GoAwayFrame(LastProcessed(e), "NO_ERROR")
    <3>1. con' = [con EXCEPT ![e] = SetGoAway(d, f)]
      BY <1>4, <2>2 DEF RecvPong
    <3>2. ids' = IF e = "server" THEN [ids EXCEPT !.recv_max = LastProcessed(e)] ELSE ids
      BY <1>4, <2>2 DEF RecvPong
    <3>3. d \in Con
      BY ConOf DEF Con
    <3> HIDE DEF d
    <3>4. SetGoAway(d, f) \in Con
      BY <3>3, LastTypes, GoAwayTypes DEF Reason
    <3>5. [ids EXCEPT !.recv_max = LastProcessed(e)] \in
            [last_processed : 0..MaxId, recv_max : Nat, next : 1..(MaxId + 1), send_max : Nat]
      BY LastTypes DEF Types
    <3> HIDE DEF f
    <3> QED BY <2>1, <3>1, <3>2, <3>4, <3>5, ReadFacts DEF Types, Place
  <2>3. CASE ~(c.pending_ping # None /\ Arg(e) = Shutdown)
    <3> DEFINE u == IF c.user = "pending_pong" THEN "received_pong" ELSE c.user
    <3>1. con' = [con EXCEPT ![e] = [c EXCEPT !.user = u]] /\ ids' = ids
      BY <1>4, <2>3 DEF RecvPong
    <3>2. u \in {None, "empty", "pending_ping", "pending_pong", "received_pong", "closed"}
      BY ConOf DEF Con
    <3> HIDE DEF u
    <3>3. [c EXCEPT !.user = u] \in Con
      BY <3>2, ConOf DEF Con
    <3> QED BY <2>1, <3>1, <3>3, ReadFacts DEF Types, Place
  <2> QED BY <2>2, <2>3
<1> QED BY <1>1, <1>2, <1>3, <1>4

(* The types hold behind HEADERS, the end of a stream, GOAWAY, a bad frame.  *)
LEMMA TypesRecvStreams ==
  ASSUME Types, NEW e \in End,
         RecvBadFrame(e) \/ RecvGoAway(e) \/ (e = "server" /\ RecvHeaders)
           \/ (e = "client" /\ RecvEnd)
  PROVE  Types'
<1>1. CASE RecvBadFrame(e)
  BY <1>1, TypesRefused DEF RecvBadFrame, Reason
<1>2. CASE RecvGoAway(e)
  <2> DEFINE f == Arg(e)
  <2>1. Reads(e, "go_away")
    BY <1>2 DEF RecvGoAway
  <2>2. f \in GoAway
    BY <2>1, ReadFacts, FrameTypes
  <2>3. CASE e = "client" /\ f.last > ids.send_max
    <3>1. Refuses(e, "PROTOCOL_ERROR") /\ "PROTOCOL_ERROR" \in Reason
      BY <1>2, <2>3 DEF RecvGoAway, Reason
    <3> QED BY <2>1, <3>1, TypesRefused
  <2>4. CASE ~(e = "client" /\ f.last > ids.send_max)
    <3>1. /\ ids' = IF e = "client" THEN [ids EXCEPT !.send_max = f.last] ELSE ids
          /\ AbortStreams(e, Above(f.last))
          /\ history' = [history EXCEPT !.aborted =
                IF e = "client" THEN @ \cup (Above(f.last) \cap streams[e]) ELSE @]
          /\ con' = [con EXCEPT ![e].error = f]
          /\ pc' = [pc EXCEPT ![e] = "go_away"]
          /\ UNCHANGED <<woken, out, window, result>>
      BY <1>2, <2>4 DEF RecvGoAway, Goes
    <3> HIDE DEF f
    <3>2. [con[e] EXCEPT !.error = f] \in Con
      BY <2>2, ConOf DEF Con
    <3>3. f.last \in Nat
      BY <2>2 DEF GoAway
    <3>4. [ids EXCEPT !.send_max = f.last] \in
            [last_processed : 0..MaxId, recv_max : Nat, next : 1..(MaxId + 1), send_max : Nat]
      BY <3>3 DEF Types
    <3>5. history.aborted \cup (Above(f.last) \cap streams[e]) \in SUBSET Id
      BY DEF Types, History, Above
    <3>6. history' \in History
      BY <3>1, <3>5 DEF Types, History
    <3> QED BY <2>1, <3>1, <3>2, <3>4, <3>6, ReadFacts, AbortTypes DEF Types, Place
  <2> QED BY <2>3, <2>4
<1>3. CASE e = "server" /\ RecvHeaders
  <2> DEFINE id == Arg("server")[1]
  <2>1. e = "server" /\ Reads(e, "headers")
    BY <1>3 DEF RecvHeaders
  <2>2. id \in Id
    BY <2>1, ReadFacts, FrameTypes
  <2>3. CASE Ignores(id)
    <3>1. /\ pc' = [pc EXCEPT !["server"] = "go_away"]
          /\ UNCHANGED <<con, woken, queue, out, streams, ids, window, result, history>>
      BY <1>3, <2>3 DEF RecvHeaders, Goes
    <3> QED BY <2>1, <3>1, ReadFacts DEF Types, Place
  <2>4. CASE ~Ignores(id) /\ Arg("server")[2] > window["server"].accepts
    <3>1. Refuses(e, "FLOW_CONTROL_ERROR") /\ "FLOW_CONTROL_ERROR" \in Reason
      BY <1>3, <2>4 DEF RecvHeaders, Reason
    <3> QED BY <2>1, <3>1, TypesRefused
  <2>5. CASE ~Ignores(id) /\ ~(Arg("server")[2] > window["server"].accepts)
    <3>1. /\ ids' = [ids EXCEPT !.last_processed = id]
          /\ streams' = [streams EXCEPT !["server"] = @ \cup {id}]
          /\ history' = [history EXCEPT !.processed = @ \cup {id}]
          /\ pc' = [pc EXCEPT !["server"] = "go_away"]
          /\ UNCHANGED <<con, woken, queue, out, window, result>>
      BY <1>3, <2>5 DEF RecvHeaders, Goes
    <3>2. id \in 0..MaxId
      BY <2>2, H2ConnectionAssumption DEF Id
    <3> HIDE DEF id
    <3>3. ids' \in [last_processed : 0..MaxId, recv_max : Nat, next : 1..(MaxId + 1),
                    send_max : Nat]
      BY <3>1, <3>2 DEF Types
    <3>4. history' \in History
      BY <2>2, <3>1 DEF Types, History
    <3>5. streams' \in [End -> SUBSET Id]
      BY <2>2, <3>1 DEF Types
    <3> QED BY <2>1, <3>1, <3>3, <3>4, <3>5, ReadFacts DEF Types, Place
  <2> QED BY <2>3, <2>4, <2>5
<1>4. CASE e = "client" /\ RecvEnd
  <2> DEFINE id == Arg("client")[1]
             bad == id \in streams["client"] /\ Arg("client")[2] > window["client"].accepts
  <2>1. e = "client" /\ Reads(e, "end")
    BY <1>4 DEF RecvEnd
  <2>2. id \in Id
    BY <2>1, ReadFacts, FrameTypes
  <2>3. CASE bad
    <3>1. Refuses(e, "FLOW_CONTROL_ERROR") /\ "FLOW_CONTROL_ERROR" \in Reason
      BY <1>4, <2>3 DEF RecvEnd, Reason
    <3> QED BY <2>1, <3>1, TypesRefused
  <2>4. CASE ~bad
    <3>1. /\ streams' = [streams EXCEPT !["client"] = @ \ {id}]
          /\ history' = [history EXCEPT !.answered = @ \cup ({id} \cap streams["client"])]
          /\ pc' = [pc EXCEPT !["client"] = "go_away"]
          /\ UNCHANGED <<con, woken, queue, out, ids, window, result>>
      BY <1>4, <2>4 DEF RecvEnd, Goes
    <3> HIDE DEF id
    <3>2. history.answered \cup ({id} \cap streams["client"]) \in SUBSET Id
      BY <2>1, <2>2 DEF Types, History
    <3>3. history' \in History
      BY <3>1, <3>2 DEF Types, History
    <3> QED BY <2>1, <3>1, <3>3, ReadFacts DEF Types, Place
  <2> QED BY <2>3, <2>4
<1> QED BY <1>1, <1>2, <1>3, <1>4

(* The types hold behind the steps that end a poll, and the transport's.     *)
LEMMA TypesEnd ==
  ASSUME Types, NEW e \in End,
         RecvEof(e) \/ NoFrame(e) \/ Complete(e) \/ Flushing(e) \/ Park(e) \/ Close(e)
           \/ IoError(e) \/ Write(e) \/ BeginPoll(e)
  PROVE  Types'
<1>0. con[e] \in Con
  BY ConOf
<1>9. "NO_ERROR" \in Reason
  BY DEF Reason
<1>10. GoAwayNow(con[e], GoAwayFrame(LastProcessed(e), "NO_ERROR")) \in Con
  BY <1>0, <1>9, LastTypes, GoAwayTypes
<1>1. CASE RecvEof(e)
  <2>1. [con[e] EXCEPT !.state = "Closing", !.why = <<"NO_ERROR", "Library">>] \in Con
    BY <1>0, <1>9 DEF Con
  <2>2. AbortStreams(e, Id)
    BY <1>1 DEF RecvEof
  <2> QED BY <1>1, <2>1, <2>2, AbortTypes DEF RecvEof, Types, Goes, Place
<1>2. CASE NoFrame(e) \/ Flushing(e)
  BY <1>2 DEF NoFrame, Flushing, Types, Goes, Parks, Place
<1>3. CASE Complete(e)
  <2> DEFINE f == Frame(Head(queue[e]).type, <<Head(queue[e]).arg[1], window[e].sends>>)
  <2>1. /\ queue[e] # <<>> /\ out' = [out EXCEPT ![e] = Append(@, f)]
        /\ queue' = [queue EXCEPT ![e] = Tail(@)]
        /\ UNCHANGED <<con, pc, woken, wire, streams, ids, window, result, history>>
    BY <1>3 DEF Complete, Buffer
  <2>2. queue[e] \in Seq(Queued)
    BY DEF Types
  <2>3. Head(queue[e]) \in Queued /\ Tail(queue[e]) \in Seq(Queued)
    BY <2>1, <2>2, HeadTailProperties
  <2>4. window[e].sends \in Nat
    BY DEF Types
  <2>5. f \in Frames
    BY <2>3, <2>4 DEF Frame, Frames, Queued
  <2> HIDE DEF f
  <2> QED BY <2>1, <2>3, <2>5, BufferTypes DEF Types
<1>4. CASE Park(e)
  BY <1>4, <1>10 DEF Park, Types, Goes, Parks, Place
<1>5. CASE Close(e) \/ IoError(e)
  <2>1. AbortStreams(e, Id)
    BY <1>5 DEF Close, IoError
  <2>2. /\ con' = [con EXCEPT ![e] = Dropped(@)]
        /\ pc' = [pc EXCEPT ![e] = "done"]
        /\ out' = out \/ out' = [out EXCEPT ![e] = <<>>]
        /\ UNCHANGED <<woken, wire, ids, window, history>>
    BY <1>5 DEF Close, IoError, Ends, Goes
  <2>3. result' = [result EXCEPT ![e] = TakeError(con[e])]
          \/ result' = [result EXCEPT ![e] = "io"]
    BY <1>5 DEF Close, IoError, Ends
  <2>4. Dropped(con[e]) \in Con /\ TakeError(con[e]) \in Outcome /\ "io" \in Outcome
    BY <1>0, <1>9, GoAwayTypes DEF Outcome
  <2>5. result' \in [End -> Outcome \cup {None}]
    BY <2>3, <2>4 DEF Types
  <2>6. <<>> \in Seq(Frames)
    OBVIOUS
  <2>7. out' \in [End -> Seq(Frames)]
    BY <2>2, <2>6 DEF Types
  <2> QED BY <2>1, <2>2, <2>4, <2>5, <2>7, AbortTypes DEF Types, Place
<1>6. CASE Write(e)
  <2>1. /\ out[e] # <<>> /\ out' = [out EXCEPT ![e] = Tail(@)]
        /\ wire' = wire \/ wire' = [wire EXCEPT ![e] = Append(@, Head(out[e]))]
        /\ woken' = woken \/ woken' = woken \cup {e}
        /\ UNCHANGED <<con, pc, queue, streams, ids, window, result, history>>
    BY <1>6 DEF Write
  <2>2. Head(out[e]) \in Frames /\ Tail(out[e]) \in Seq(Frames)
    BY <2>1, HeadTailProperties DEF Types
  <2>3. wire[e] \in Seq(Frames) /\ Append(wire[e], Head(out[e])) \in Seq(Frames)
    BY <2>2 DEF Types
  <2>4. wire' \in [End -> Seq(Frames)]
    BY <2>1, <2>3 DEF Types
  <2> QED BY <2>1, <2>2, <2>4 DEF Types
<1>7. CASE BeginPoll(e)
  <2>1. con' = con \/ con' = [con EXCEPT ![e] =
                        GoAwayNow(@, GoAwayFrame(LastProcessed(e), "NO_ERROR"))]
    BY <1>7 DEF BeginPoll
  <2>2. con' \in [End -> Con]
    BY <1>10, <2>1 DEF Types
  <2> QED BY <1>7, <2>2 DEF BeginPoll, Types, Goes, Place
<1> QED BY <1>1, <1>2, <1>3, <1>4, <1>5, <1>6, <1>7

(* What a user queues is a frame of a stream.                                *)
LEMMA QueueTypes ==
  ASSUME Types, NEW e \in End, NEW t \in {"headers", "end"}, NEW id \in Id
  PROVE  [queue EXCEPT ![e] = Append(@, Frame(t, <<id, 0>>))] \in [End -> Seq(Queued)]
<1>1. Frame(t, <<id, 0>>) \in Queued
  BY DEF Frame, Queued
<1> HIDE DEF Queued
<1>2. Append(queue[e], Frame(t, <<id, 0>>)) \in Seq(Queued)
  BY <1>1 DEF Types
<1> QED BY <1>2 DEF Types

(* The types hold behind requests, answers and the end of the handles.       *)
LEMMA TypesRequests ==
  ASSUME Types, SendRequest \/ DropHandles \/ \E id \in Id : Respond(id)
  PROVE  Types'
<1>1. CASE SendRequest
  <2>1. /\ ids.next <= history.scope.requests
        /\ streams' = [streams EXCEPT !["client"] = @ \cup {ids.next}]
        /\ queue' = [queue EXCEPT !["client"] = Append(@, Frame("headers", <<ids.next, 0>>))]
        /\ ids' = [ids EXCEPT !.next = @ + 1]
        /\ woken' = woken \cup {"client"}
        /\ UNCHANGED <<con, pc, out, wire, window, result, history>>
    BY <1>1 DEF SendRequest
  <2>2. history.scope.requests \in 0..MaxId /\ ids.next \in 1..(MaxId + 1)
    BY ScopeOK DEF Types
  <2>3. ids.next \in Id /\ ids.next + 1 \in 1..(MaxId + 1)
    BY <2>1, <2>2, H2ConnectionAssumption DEF Id
  <2>4. ids' \in [last_processed : 0..MaxId, recv_max : Nat, next : 1..(MaxId + 1),
                  send_max : Nat]
    BY <2>1, <2>3 DEF Types
  <2>5. queue' \in [End -> Seq(Queued)]
    BY <2>1, <2>3, QueueTypes DEF End
  <2> QED BY <2>1, <2>3, <2>4, <2>5 DEF Types, End
<1>2. CASE DropHandles
  <2>1. con["client"] \in Con
    BY ConOf DEF End
  <2>2. [con["client"] EXCEPT !.handles = FALSE] \in Con
    BY <2>1, ZenonT(60) DEF Con
  <2> QED BY <1>2, <2>2 DEF DropHandles, Types, End
<1>3. ASSUME NEW id \in Id, Respond(id) PROVE Types'
  <2>1. queue' \in [End -> Seq(Queued)]
    BY <1>3, QueueTypes DEF Respond, End
  <2> QED BY <1>3, <2>1 DEF Respond, Types, End
<1> QED BY <1>1, <1>2, <1>3

(* The types hold behind both kinds of shutdown.                             *)
LEMMA TypesShutdown ==
  ASSUME Types, GracefulShutdown \/ \E reason \in {"NO_ERROR", "PROTOCOL_ERROR"} :
                                       AbruptShutdown(reason)
  PROVE  Types'
<1>0. con["server"] \in Con /\ "server" \in End
  BY ConOf DEF End
<1>1. CASE GracefulShutdown
  <2> DEFINE c == con["server"]
             f == GoAwayFrame(MaxStreamId, "NO_ERROR")
             d == SetGoAway(c, f)
  <2>1. /\ con' = [con EXCEPT !["server"] = [d EXCEPT !.pending_ping = [sent |-> FALSE]]]
        /\ ids' = [ids EXCEPT !.recv_max = MaxStreamId]
        /\ woken' = woken \cup {"server"}
        /\ UNCHANGED <<pc, queue, out, wire, streams, window, result, history>>
    BY <1>1 DEF GracefulShutdown
  <2>2. MaxStreamId \in Nat
    BY H2ConnectionAssumption DEF MaxStreamId
  <2>3. d \in Con
    BY <1>0, <2>2, GoAwayTypes DEF Reason
  <2> HIDE DEF d
  <2>4. [sent |-> FALSE] \in [sent : BOOLEAN]
    OBVIOUS
  <2>5. [d EXCEPT !.pending_ping = [sent |-> FALSE]] \in Con
    BY <2>3, <2>4 DEF Con
  <2>6. ids' \in [last_processed : 0..MaxId, recv_max : Nat, next : 1..(MaxId + 1),
                  send_max : Nat]
    BY <2>1, <2>2 DEF Types
  <2> QED BY <1>0, <2>1, <2>5, <2>6 DEF Types
<1>2. ASSUME NEW reason \in {"NO_ERROR", "PROTOCOL_ERROR"}, AbruptShutdown(reason)
      PROVE  Types'
  <2> DEFINE c == con["server"]
             d == [c EXCEPT !.is_user = TRUE]
             f == GoAwayFrame(LastProcessed("server"), reason)
  <2>1. /\ con' = [con EXCEPT !["server"] = GoAwayNow(d, f)]
        /\ AbortStreams("server", Id)
        /\ woken' = woken \cup {"server"}
        /\ UNCHANGED <<pc, out, wire, ids, window, result, history>>
    BY <1>2 DEF AbruptShutdown
  <2>2. d \in Con
    BY <1>0, ZenonT(60) DEF Con
  <2> HIDE DEF d
  <2>3. reason \in Reason
    BY DEF Reason
  <2>4. GoAwayNow(d, f) \in Con
    BY <1>0, <2>2, <2>3, LastTypes, GoAwayTypes
  <2> QED BY <1>0, <2>1, <2>4, AbortTypes DEF Types
<1> QED BY <1>1, <1>2

(* The types hold behind PINGs and windows of users.                         *)
LEMMA TypesUsers ==
  ASSUME Types, NEW e \in End,
         UserPing(e) \/ PollPong(e) \/ \E w \in history.scope.windows : SetWindow(e, w)
  PROVE  Types'
<1>0. con[e] \in Con
  BY ConOf
<1>1. CASE UserPing(e)
  <2>1. [con[e] EXCEPT !.user = "pending_ping", !.ping_task = FALSE] \in Con
    BY <1>0, ZenonT(60) DEF Con
  <2>2. [history EXCEPT !.pings = @ + 1] \in History
    BY HistoryCounts
  <2>3. woken' \subseteq End
    BY <1>1 DEF UserPing, Types
  <2> QED BY <1>1, <2>1, <2>2, <2>3 DEF UserPing, Types
<1>2. CASE PollPong(e)
  <2>1. [con[e] EXCEPT !.user = "empty"] \in Con
    BY <1>0 DEF Con
  <2> QED BY <1>2, <2>1 DEF PollPong, Types
<1>3. ASSUME NEW w \in history.scope.windows, SetWindow(e, w) PROVE Types'
  <2>1. w \in Nat
    BY ScopeOK DEF Types
  <2>2. [con[e] EXCEPT !.local = <<"ToSend", w>>] \in Con
    BY <1>0, <2>1 DEF Con
  <2>3. [history EXCEPT !.changes = @ + 1] \in History
    BY HistoryCounts
  <2> QED BY <1>3, <2>2, <2>3 DEF SetWindow, Types
<1> QED BY <1>1, <1>2, <1>3

(* The types are kept by every step.                                         *)
LEMMA TypesStep ==
  ASSUME Types, \A e \in End : con[e].close_now => con[e].going_away # None, [Next]_vars
  PROVE  Types'
<1>1. ASSUME NEW e \in End, Step(e) PROVE Types'
  BY <1>1, TypesGoAway, TypesPong, TypesPing, TypesAck, TypesSettings, TypesRecvControl,
     TypesRecvStreams, TypesEnd DEF Step
<1>2. ASSUME NEW e \in End, Fault(e) \/ Write(e) PROVE Types'
  BY <1>2, TypesRecvStreams, TypesAck, TypesEnd DEF Fault
<1>3. CASE Use
  BY <1>3, TypesRequests, TypesShutdown, TypesUsers DEF Use
<1>4. CASE UNCHANGED vars
  BY <1>4 DEF Types, vars
<1> QED BY <1>1, <1>2, <1>3, <1>4 DEF Next

(* Where the poll of an end stands, and what is then left in its state.      *)
Running == {"pong", "ping", "ack", "settings", "recv", "complete"}

Control(e, c, p) ==
  /\ p \in {"settings", "recv", "complete"} => c.remote = None
  /\ p \in Running \ {"pong"} => c.pending_pong = None
  /\ p \in Running \cup {"closing"} => c.pending = None
  /\ c.close_now => p \notin Running /\ c.going_away # None
  /\ c.going_away = None => c.pending_ping = None /\ c.pending = None
  /\ c.pending # None => c.pending = c.going_away
  /\ c.state # "Open" => p \in {"closing", "done"}
  /\ e = "client" => c.pending_ping = None /\ (c.going_away # None => c.close_now)

Controlled == \A e \in End : Control(e, con[e], pc[e])

(* A GOAWAY is not the absence of one.                                       *)
LEMMA NoneIsNone ==
  ASSUME NEW last \in Nat, NEW reason \in Reason
  PROVE  GoAwayFrame(last, reason) # None
BY H2ConnectionAssumption DEF GoAwayFrame, GoAway

(* A step of e that leaves c in its state and stands at p.                   *)
LEMMA ControlMove ==
  ASSUME Types, Controlled, NEW e \in End, NEW c, NEW p, Control(e, c, p),
         con' = [con EXCEPT ![e] = c], pc' = [pc EXCEPT ![e] = p]
  PROVE  Controlled'
BY DEF Types, Controlled

(* GoAway::go_away_now keeps the control of an end in order.                 *)
LEMMA ControlGoAwayNow ==
  ASSUME NEW e \in End, NEW c \in Con, NEW last \in Nat, NEW reason \in Reason, NEW p,
         Control(e, c, p), NEW q \in {"go_away", "parked"}, p \notin {"closing", "done"}
  PROVE  Control(e, GoAwayNow(c, GoAwayFrame(last, reason)), q)
<1> DEFINE f == GoAwayFrame(last, reason)
<1>1. f # None
  BY NoneIsNone
<1> HIDE DEF f
<1>2. ASSUME c.going_away = f PROVE Control(e, GoAwayNow(c, f), q)
  <2>1. GoAwayNow(c, f) = [c EXCEPT !.close_now = TRUE]
    BY <1>2 DEF GoAwayNow
  <2> QED BY <1>1, <1>2, <2>1 DEF Control, Con, Running
<1>3. ASSUME c.going_away # f PROVE Control(e, GoAwayNow(c, f), q)
  <2>1. GoAwayNow(c, f) = [c EXCEPT !.close_now = TRUE, !.going_away = f, !.pending = f]
    BY <1>3 DEF GoAwayNow, SetGoAway, Con
  <2> QED BY <1>1, <2>1 DEF Control, Con, Running
<1> QED BY <1>2, <1>3 DEF f

(* handle_poll2_result keeps the control of an end in order.                 *)
LEMMA ControlError ==
  ASSUME Types, Controlled, NEW e \in End, NEW c \in Con, NEW reason \in Reason,
         NEW p, Control(e, c, p), p \notin {"closing", "done"}, c.pending = None,
         ConnectionError(e, c, reason, "Library")
  PROVE  Controlled'
<1>1. CASE c.going_away # None /\ c.going_away.reason = reason
  <2> DEFINE d == [c EXCEPT !.state = "Closing", !.why = <<reason, "Library">>]
  <2>1. con' = [con EXCEPT ![e] = d] /\ pc' = [pc EXCEPT ![e] = "closing"]
    BY <1>1, Zenon DEF ConnectionError, Goes
  <2>2. Control(e, d, "closing")
    BY DEF Control, Con, Running
  <2> HIDE DEF d
  <2> QED BY <2>1, <2>2, ControlMove
<1>2. CASE ~(c.going_away # None /\ c.going_away.reason = reason)
  <2> DEFINE d == GoAwayNow(c, GoAwayFrame(LastProcessed(e), reason))
  <2>1. con' = [con EXCEPT ![e] = d] /\ pc' = [pc EXCEPT ![e] = "go_away"]
    BY <1>2, Zenon DEF ConnectionError, Goes
  <2>2. Control(e, d, "go_away")
    BY LastTypes, ControlGoAwayNow
  <2> HIDE DEF d
  <2> QED BY <2>1, <2>2, ControlMove
<1> QED BY <1>1, <1>2

(* A step to another place of the poll that changes nothing else.            *)
LEMMA ControlSame ==
  ASSUME Types, Controlled, NEW e \in End, NEW p,
         Control(e, con[e], p), con' = con, pc' = [pc EXCEPT ![e] = p]
  PROVE  Controlled'
BY DEF Types, Controlled

(* A poll that finds no room in the codec.                                   *)
LEMMA ControlBlocked ==
  ASSUME Types, Controlled, NEW e \in End, Blocked(e), pc[e] \notin {"closing", "done"}
  PROVE  Controlled'
<1>1. Control(e, con[e], "parked")
  BY DEF Controlled, Control, Running
<1> QED BY <1>1, ControlSame DEF Blocked, Parks

(* The steps of poll2 that send keep the control in order.                   *)
LEMMA ControlPoll ==
  ASSUME Types, Controlled, NEW e \in End,
         PollGoAway(e) \/ SendPong(e) \/ SendPing(e) \/ SendAck(e) \/ FailAck(e)
           \/ SendSettings(e)
  PROVE  Controlled'
<1> DEFINE c == con[e]
<1>0. c \in Con /\ Control(e, c, pc[e])
  BY ConOf DEF Controlled
<1>1. CASE Blocked(e)
  <2>1. pc[e] \notin {"closing", "done"}
    BY DEF PollGoAway, SendPong, SendPing, SendAck, FailAck, SendSettings, At
  <2> QED BY <1>1, <2>1, ControlBlocked
<1>2. CASE PollGoAway(e) /\ ~Blocked(e)
  <2> DEFINE d == [c EXCEPT !.pending = None]
  <2>1. /\ IF ~ShouldCloseNow(d)
           THEN con' = [con EXCEPT ![e] = d] /\ pc' = [pc EXCEPT ![e] = "pong"]
           ELSE IF d.is_user THEN Finished(e, d)
           ELSE ConnectionError(e, d, d.going_away.reason, "Library")
        /\ pc[e] = "go_away"
    BY <1>2, Zenon DEF PollGoAway, Goes, At
  <2>2. d \in Con
    BY <1>0 DEF Con
  <2>3. /\ d.pending = None
        /\ d.going_away = c.going_away /\ d.close_now = c.close_now
        /\ d.remote = c.remote /\ d.pending_pong = c.pending_pong /\ d.state = c.state
        /\ d.pending_ping = c.pending_ping
    BY <1>0 DEF Con
  <2>4. c.close_now => c.going_away # None
    BY <1>0 DEF Control
  <2> HIDE DEF d
  <2>5. Control(e, d, "go_away")
    BY <1>0, <2>1, <2>3 DEF Control, Running
  <2>6. CASE ~ShouldCloseNow(d)
    <3>1. Control(e, d, "pong")
      BY <2>3, <2>5, <2>6 DEF Control, Running, ShouldCloseNow
    <3> QED BY <2>1, <2>6, <3>1, ControlMove
  <2>7. CASE ShouldCloseNow(d) /\ d.is_user
    <3> DEFINE g == [d EXCEPT !.state = "Closing", !.why = <<"NO_ERROR", "Library">>]
    <3>1. con' = [con EXCEPT ![e] = g] /\ pc' = [pc EXCEPT ![e] = "closing"]
      BY <2>1, <2>7 DEF Finished, Goes
    <3>2. Control(e, g, "closing")
      BY <2>2, <2>3, <2>5 DEF Control, Con, Running
    <3> HIDE DEF g
    <3> QED BY <3>1, <3>2, ControlMove
  <2>8. CASE ShouldCloseNow(d) /\ ~d.is_user
    <3>1. ConnectionError(e, d, d.going_away.reason, "Library")
      BY <2>1, <2>8
    <3>2. d.going_away.reason \in Reason
      BY <2>2, <2>3, <2>4, <2>8 DEF Con, GoAway, ShouldCloseNow
    <3> QED BY <2>2, <2>3, <2>5, <3>1, <3>2, ControlError
  <2> QED BY <2>6, <2>7, <2>8
<1>3. CASE SendPong(e) /\ ~Blocked(e)
  <2> DEFINE d == [c EXCEPT !.pending_pong = None]
  <2>1. con' = [con EXCEPT ![e] = d] /\ pc' = [pc EXCEPT ![e] = "ping"] /\ pc[e] = "pong"
    BY <1>3 DEF SendPong, Goes, At
  <2>2. Control(e, d, "ping")
    BY <1>0, <2>1 DEF Control, Con, Running
  <2> HIDE DEF d
  <2> QED BY <2>1, <2>2, ControlMove
<1>4. CASE SendPing(e) /\ ~Blocked(e)
  <2> DEFINE u == IF c.user = "pending_ping" THEN "pending_pong" ELSE c.user
             b == c.ping_task \/ Registers(c)
             s == [c.pending_ping EXCEPT !.sent = TRUE]
             d == IF c.pending_ping # None THEN [c EXCEPT !.pending_ping = s]
                  ELSE [c EXCEPT !.user = u, !.ping_task = b]
  <2>1. pc' = [pc EXCEPT ![e] = "ack"] /\ pc[e] = "ping"
    BY <1>4 DEF SendPing, Goes, At
  <2>2. con' = [con EXCEPT ![e] = d]
    BY <1>4 DEF SendPing
  <2>3. Control(e, d, "ack")
    <3> HIDE DEF u, b, s
    <3> QED BY <1>0, <2>1 DEF Control, Con, Running
  <2> HIDE DEF d
  <2> QED BY <2>1, <2>2, <2>3, ControlMove
<1>5. CASE SendAck(e) /\ ~Blocked(e)
  <2> DEFINE d == [c EXCEPT !.remote = None]
  <2>1. pc' = [pc EXCEPT ![e] = "settings"] /\ pc[e] = "ack"
    BY <1>5 DEF SendAck, Goes, At
  <2>2. con' = [con EXCEPT ![e] = d] \/ (con' = con /\ c.remote = None)
    BY <1>5 DEF SendAck, Unchanged
  <2>3. Control(e, d, "settings") /\ (c.remote = None => Control(e, c, "settings"))
    BY <1>0, <2>1 DEF Control, Con, Running
  <2> HIDE DEF d
  <2> QED BY <2>1, <2>2, <2>3, ControlMove, ControlSame
<1>6. CASE FailAck(e)
  <2>1. ConnectionError(e, c, "FLOW_CONTROL_ERROR", "Library") /\ pc[e] = "ack"
    BY <1>6 DEF FailAck, At
  <2>2. c.pending = None /\ "FLOW_CONTROL_ERROR" \in Reason
    BY <1>0, <2>1 DEF Control, Running, Reason
  <2> QED BY <1>0, <2>1, <2>2, ControlError
<1>7. CASE SendSettings(e) /\ ~Blocked(e)
  <2> DEFINE l == [c.local EXCEPT ![1] = "WaitingAck"]
             d == [c EXCEPT !.local = l]
  <2>1. pc' = [pc EXCEPT ![e] = "recv"] /\ pc[e] = "settings"
    BY <1>7 DEF SendSettings, Goes, At
  <2>2. con' = [con EXCEPT ![e] = d] \/ con' = con
    BY <1>7 DEF SendSettings, Unchanged
  <2> HIDE DEF l
  <2>3. Control(e, d, "recv") /\ Control(e, c, "recv")
    BY <1>0, <2>1 DEF Control, Con, Running
  <2> HIDE DEF d
  <2> QED BY <2>1, <2>2, <2>3, ControlMove, ControlSame
<1> QED BY <1>1, <1>2, <1>3, <1>4, <1>5, <1>6, <1>7

(* A refused frame keeps the control in order.                               *)
LEMMA ControlRefused ==
  ASSUME Types, Controlled, NEW e \in End, pc[e] = "recv", NEW reason \in Reason,
         Refuses(e, reason)
  PROVE  Controlled'
<1>1. con[e] \in Con /\ Control(e, con[e], "recv")
  BY ConOf DEF Controlled
<1>2. con[e].pending = None
  BY <1>1 DEF Control, Running
<1> QED BY <1>1, <1>2, ControlError DEF Refuses

(* recv_frame keeps the control in order.                                    *)
LEMMA ControlReceive ==
  ASSUME Types, Controlled, NEW e \in End,
         RecvSettings(e) \/ RecvAck(e) \/ RecvPing(e) \/ RecvPong(e) \/ RecvGoAway(e)
           \/ RecvBadFrame(e) \/ (e = "server" /\ RecvHeaders) \/ (e = "client" /\ RecvEnd)
           \/ RecvEof(e) \/ NoFrame(e)
  PROVE  Controlled'
<1> DEFINE c == con[e]
<1>0. c \in Con /\ Control(e, c, pc[e])
  BY ConOf DEF Controlled
<1>1. pc[e] = "recv"
  BY DEF RecvSettings, RecvAck, RecvPing, RecvPong, RecvGoAway, RecvBadFrame, RecvHeaders,
         RecvEnd, RecvEof, NoFrame, Reads, At
<1>2. CASE \E reason \in Reason : Refuses(e, reason)
  BY <1>1, <1>2, ControlRefused
<1>3. \A reason \in {"PROTOCOL_ERROR", "FLOW_CONTROL_ERROR"} : reason \in Reason
  BY DEF Reason
<1>4. CASE RecvBadFrame(e)
  BY <1>2, <1>3, <1>4 DEF RecvBadFrame
<1>5. Control(e, c, "go_away") /\ Control(e, c, "complete")
  BY <1>0, <1>1 DEF Control, Running
<1>6. CASE RecvSettings(e)
  <2> DEFINE a == Arg(e)
             d == [c EXCEPT !.remote = a]
  <2>1. con' = [con EXCEPT ![e] = d] /\ pc' = [pc EXCEPT ![e] = "go_away"]
    BY <1>6 DEF RecvSettings, Goes
  <2> HIDE DEF a
  <2>2. Control(e, d, "go_away")
    BY <1>0, <1>5 DEF Control, Con, Running
  <2> HIDE DEF d
  <2> QED BY <2>1, <2>2, ControlMove
<1>7. CASE RecvAck(e)
  <2> DEFINE d == [c EXCEPT !.local = <<"Synced", None>>]
  <2>1. CASE c.local[1] # "WaitingAck"
    BY <1>2, <1>3, <1>7, <2>1 DEF RecvAck
  <2>2. CASE c.local[1] = "WaitingAck"
    <3>1. con' = [con EXCEPT ![e] = d] /\ pc' = [pc EXCEPT ![e] = "go_away"]
      BY <1>7, <2>2 DEF RecvAck, Goes
    <3>2. Control(e, d, "go_away")
      BY <1>0, <1>5 DEF Control, Con, Running
    <3> HIDE DEF d
    <3> QED BY <3>1, <3>2, ControlMove
  <2> QED BY <2>1, <2>2
<1>8. CASE RecvPing(e)
  <2> DEFINE a == Arg(e)
             d == [c EXCEPT !.pending_pong = a]
  <2>1. con' = [con EXCEPT ![e] = d] /\ pc' = [pc EXCEPT ![e] = "go_away"]
    BY <1>8 DEF RecvPing, Goes
  <2> HIDE DEF a
  <2>2. Control(e, d, "go_away")
    BY <1>0, <1>5 DEF Control, Con, Running
  <2> HIDE DEF d
  <2> QED BY <2>1, <2>2, ControlMove
<1>9. CASE RecvPong(e)
  <2>1. pc' = [pc EXCEPT ![e] = "go_away"]
    BY <1>9 DEF RecvPong, Goes
  <2>2. CASE c.pending_ping # None /\ Arg(e) = Shutdown
    <3> DEFINE f == GoAwayFrame(LastProcessed(e), "NO_ERROR")
               d == SetGoAway([c EXCEPT !.pending_ping = None], f)
    <3>1. con' = [con EXCEPT ![e] = d]
      BY <1>9, <2>2 DEF RecvPong
    <3>2. f # None
      BY LastTypes, NoneIsNone DEF Reason
    <3> HIDE DEF f
    <3>3. e # "client"
      BY <1>0, <2>2 DEF Control
    <3>4. Control(e, d, "go_away")
      BY <1>0, <1>1, <3>2, <3>3 DEF Control, Con, Running, SetGoAway
    <3> HIDE DEF d
    <3> QED BY <2>1, <3>1, <3>4, ControlMove
  <2>3. CASE ~(c.pending_ping # None /\ Arg(e) = Shutdown)
    <3> DEFINE u == IF c.user = "pending_pong" THEN "received_pong" ELSE c.user
               d == [c EXCEPT !.user = u]
    <3>1. con' = [con EXCEPT ![e] = d]
      BY <1>9, <2>3 DEF RecvPong
    <3> HIDE DEF u
    <3>2. Control(e, d, "go_away")
      BY <1>0, <1>5 DEF Control, Con, Running
    <3> HIDE DEF d
    <3> QED BY <2>1, <3>1, <3>2, ControlMove
  <2> QED BY <2>2, <2>3
<1>10. CASE RecvGoAway(e)
  <2> DEFINE f == Arg(e)
             d == [c EXCEPT !.error = f]
  <2>1. CASE e = "client" /\ f.last > ids.send_max
    BY <1>2, <1>3, <1>10, <2>1 DEF RecvGoAway
  <2>2. CASE ~(e = "client" /\ f.last > ids.send_max)
    <3>1. con' = [con EXCEPT ![e] = d] /\ pc' = [pc EXCEPT ![e] = "go_away"]
      BY <1>10, <2>2 DEF RecvGoAway, Goes
    <3> HIDE DEF f
    <3>2. Control(e, d, "go_away")
      BY <1>0, <1>5 DEF Control, Con, Running
    <3> HIDE DEF d
    <3> QED BY <3>1, <3>2, ControlMove
  <2> QED BY <2>1, <2>2
<1>11. CASE e = "server" /\ RecvHeaders
  <2>1. (con' = con /\ pc' = [pc EXCEPT ![e] = "go_away"])
           \/ Refuses(e, "FLOW_CONTROL_ERROR")
    BY <1>11 DEF RecvHeaders, Goes
  <2> QED BY <1>2, <1>3, <1>5, <2>1, ControlSame
<1>12. CASE e = "client" /\ RecvEnd
  <2>1. (con' = con /\ pc' = [pc EXCEPT ![e] = "go_away"])
           \/ Refuses(e, "FLOW_CONTROL_ERROR")
    BY <1>12 DEF RecvEnd, Goes
  <2> QED BY <1>2, <1>3, <1>5, <2>1, ControlSame
<1>13. CASE RecvEof(e)
  <2> DEFINE d == [c EXCEPT !.state = "Closing", !.why = <<"NO_ERROR", "Library">>]
  <2>1. con' = [con EXCEPT ![e] = d] /\ pc' = [pc EXCEPT ![e] = "closing"]
    BY <1>13 DEF RecvEof, Goes
  <2>2. Control(e, d, "closing")
    BY <1>0, <1>1 DEF Control, Con, Running
  <2> HIDE DEF d
  <2> QED BY <2>1, <2>2, ControlMove
<1>14. CASE NoFrame(e)
  BY <1>5, <1>14, ControlSame DEF NoFrame, Goes
<1> QED BY <1>4, <1>6, <1>7, <1>8, <1>9, <1>10, <1>11, <1>12, <1>13, <1>14

(* The end of a poll, and the transport, keep the control in order.          *)
LEMMA ControlEnd ==
  ASSUME Types, Controlled, NEW e \in End,
         Complete(e) \/ Flushing(e) \/ Park(e) \/ Close(e) \/ IoError(e) \/ Write(e)
           \/ BeginPoll(e)
  PROVE  Controlled'
<1> DEFINE c == con[e]
           d == GoAwayNow(c, GoAwayFrame(LastProcessed(e), "NO_ERROR"))
<1>0. c \in Con /\ Control(e, c, pc[e]) /\ LastProcessed(e) \in Nat /\ "NO_ERROR" \in Reason
  BY ConOf, LastTypes DEF Controlled, Reason
<1>1. pc[e] \notin {"closing", "done"} => Control(e, d, "go_away")
  BY <1>0, ControlGoAwayNow
<1> HIDE DEF d
<1>2. CASE Complete(e) \/ Write(e)
  BY <1>2 DEF Complete, Write, Controlled
<1>3. CASE Flushing(e)
  <2>1. con' = con /\ pc' = [pc EXCEPT ![e] = "parked"] /\ pc[e] = "complete"
    BY <1>3 DEF Flushing, Parks, At
  <2>2. Control(e, c, "parked")
    BY <1>0, <2>1 DEF Control, Running
  <2> QED BY <2>1, <2>2, ControlSame
<1>4. CASE Park(e)
  <2>1. pc[e] = "complete"
    BY <1>4 DEF Park, At
  <2>2. \/ con' = [con EXCEPT ![e] = d] /\ pc' = [pc EXCEPT ![e] = "go_away"]
        \/ con' = con /\ pc' = [pc EXCEPT ![e] = "parked"]
    BY <1>4 DEF Park, Goes, Parks, d
  <2>3. Control(e, c, "parked")
    BY <1>0, <2>1 DEF Control, Running
  <2> QED BY <1>1, <2>1, <2>2, <2>3, ControlSame, ControlMove
<1>5. CASE Close(e) \/ IoError(e)
  <2> DEFINE u == IF c.user = None THEN None ELSE "closed"
             g == [c EXCEPT !.state = "Closed", !.user = u]
  <2>1. con' = [con EXCEPT ![e] = g] /\ pc' = [pc EXCEPT ![e] = "done"]
    BY <1>5 DEF Close, IoError, Ends, Goes, Dropped
  <2> HIDE DEF u
  <2>2. Control(e, g, "done")
    BY <1>0 DEF Control, Con, Running
  <2> HIDE DEF g
  <2> QED BY <2>1, <2>2, ControlMove
<1>6. CASE BeginPoll(e)
  <2>1. pc[e] = "parked" /\ pc' = [pc EXCEPT ![e] = "go_away"]
    BY <1>6 DEF BeginPoll, At, Goes
  <2>2. con' = [con EXCEPT ![e] = d] \/ con' = con
    BY <1>6 DEF BeginPoll, d
  <2>3. Control(e, c, "go_away")
    BY <1>0, <2>1 DEF Control, Running
  <2> QED BY <1>1, <2>1, <2>2, <2>3, ControlSame, ControlMove
<1> QED BY <1>2, <1>3, <1>4, <1>5, <1>6

(* The users keep the control in order.                                      *)
LEMMA ControlUse ==
  ASSUME Types, Controlled, Use
  PROVE  Controlled'
<1>0. \A e \in End : con[e] \in Con /\ Control(e, con[e], pc[e])
  BY ConOf DEF Controlled
<1>1. ASSUME NEW e \in End, NEW d, Control(e, d, pc[e]), con' = [con EXCEPT ![e] = d], pc' = pc
      PROVE  Controlled'
  BY <1>1 DEF Types, Controlled
<1>2. CASE SendRequest \/ \E id \in Id : Respond(id)
  BY <1>2 DEF SendRequest, Respond, Controlled
<1>3. CASE DropHandles
  <2> DEFINE d == [con["client"] EXCEPT !.handles = FALSE]
  <2>1. Control("client", d, pc["client"])
    BY <1>0 DEF Control, Con, Running, End
  <2>2. con' = [con EXCEPT !["client"] = d] /\ pc' = pc
    BY <1>3 DEF DropHandles
  <2> HIDE DEF d
  <2> QED BY <1>1, <2>1, <2>2 DEF End
<1>4. CASE GracefulShutdown
  <2> DEFINE c == con["server"]
             f == GoAwayFrame(MaxStreamId, "NO_ERROR")
             s == [sent |-> FALSE]
             d == [SetGoAway(c, f) EXCEPT !.pending_ping = s]
  <2>1. con' = [con EXCEPT !["server"] = d] /\ pc' = pc /\ pc["server"] = "parked"
    BY <1>4 DEF GracefulShutdown
  <2>2. f # None
    BY H2ConnectionAssumption, NoneIsNone DEF Reason, MaxStreamId
  <2>3. c \in Con /\ Control("server", c, "parked")
    BY <1>0, <2>1 DEF End
  <2> HIDE DEF f, s, c
  <2>4. Control("server", d, "parked")
    BY <2>2, <2>3 DEF Control, Con, Running, SetGoAway
  <2> HIDE DEF d
  <2> QED BY <1>1, <2>1, <2>4 DEF End
<1>5. ASSUME NEW reason \in {"NO_ERROR", "PROTOCOL_ERROR"}, AbruptShutdown(reason)
      PROVE  Controlled'
  <2> DEFINE c == [con["server"] EXCEPT !.is_user = TRUE]
             d == GoAwayNow(c, GoAwayFrame(LastProcessed("server"), reason))
  <2>1. con' = [con EXCEPT !["server"] = d] /\ pc' = pc /\ pc["server"] = "parked"
    BY <1>5 DEF AbruptShutdown
  <2>2. c \in Con /\ Control("server", c, "parked")
    BY <1>0, <2>1, ZenonT(60) DEF Control, Con, Running, End
  <2> HIDE DEF c
  <2>3. Control("server", d, "parked")
    BY <2>2, LastTypes, ControlGoAwayNow DEF Reason, End
  <2> HIDE DEF d
  <2> QED BY <1>1, <2>1, <2>3 DEF End
<1>6. ASSUME NEW e \in End, UserPing(e) \/ PollPong(e) \/ \E w \in history.scope.windows : SetWindow(e, w)
      PROVE  Controlled'
  <2>1. \/ con' = [con EXCEPT ![e] = [con[e] EXCEPT !.user = "pending_ping", !.ping_task = FALSE]]
        \/ con' = [con EXCEPT ![e] = [con[e] EXCEPT !.user = "empty"]]
        \/ \E l : con' = [con EXCEPT ![e] = [con[e] EXCEPT !.local = l]]
    <3>1. CASE UserPing(e)
      BY <3>1 DEF UserPing
    <3>2. CASE PollPong(e)
      BY <3>2 DEF PollPong
    <3>3. CASE \E w \in history.scope.windows : SetWindow(e, w)
      BY <3>3 DEF SetWindow
    <3> QED BY <1>6, <3>1, <3>2, <3>3
  <2>2. pc' = pc
    BY <1>6 DEF UserPing, PollPong, SetWindow
  <2>3. ASSUME NEW u, NEW b, NEW l
        PROVE  /\ Control(e, [con[e] EXCEPT !.user = u, !.ping_task = b], pc[e])
               /\ Control(e, [con[e] EXCEPT !.user = u], pc[e])
               /\ Control(e, [con[e] EXCEPT !.local = l], pc[e])
    BY <1>0 DEF Control, Con, Running
  <2> QED BY <1>1, <2>1, <2>2, <2>3
<1> QED BY <1>2, <1>3, <1>4, <1>5, <1>6 DEF Use

(* Every step keeps the control in order.                                    *)
LEMMA ControlStep ==
  ASSUME Types, Controlled, [Next]_vars
  PROVE  Controlled'
<1>1. ASSUME NEW e \in End, Step(e) PROVE Controlled'
  BY <1>1, ControlPoll, ControlReceive, ControlEnd DEF Step
<1>2. ASSUME NEW e \in End, Fault(e) \/ Write(e) PROVE Controlled'
  BY <1>2, ControlPoll, ControlReceive, ControlEnd DEF Fault
<1>3. CASE UNCHANGED vars
  BY <1>3 DEF Controlled, vars
<1> QED BY <1>1, <1>2, <1>3, ControlUse DEF Next

(* The control is in order at first.                                         *)
LEMMA ControlInit == Init => Controlled
<1> SUFFICES ASSUME Init PROVE Controlled
  OBVIOUS
<1>1. PICK scope \in Scopes : con = [e \in End |-> NewCon(e, scope)]
  BY Zenon DEF Init
<1>2. pc = [e \in End |-> "parked"]
  BY DEF Init
<1>3. ASSUME NEW e \in End PROVE Control(e, NewCon(e, scope), "parked")
  BY DEF Control, NewCon, Running
<1> QED BY <1>1, <1>2, <1>3 DEF Controlled

Based == Types /\ Controlled

(* Types and control: the invariant everything else rests on.                *)
LEMMA BasedInvariant == Spec => []Based
<1>1. Init => Based
  BY TypesInit, ControlInit DEF Based
<1>2. Based /\ [Next]_vars => Based'
  BY TypesStep, ControlStep DEF Based, Controlled, Control
<1> QED BY <1>1, <1>2, PTL DEF Spec

(* What a step does to the codecs.                                           *)
Buffers(e, f) == HasRoom(e) /\ out' = [out EXCEPT ![e] = Append(@, f)]

(* How the codec's buffers change.                                           *)
LEMMA OutStep ==
  ASSUME [Next]_vars
  PROVE  \/ out' = out
         \/ \E e \in End : \E f : Buffers(e, f)
         \/ \E e \in End : out[e] # <<>> /\ out' = [out EXCEPT ![e] = Tail(@)]
         \/ \E e \in End : out' = [out EXCEPT ![e] = <<>>]
<1> DEFINE G == \/ out' = out
                \/ \E e \in End : \E f : Buffers(e, f)
                \/ \E e \in End : out[e] # <<>> /\ out' = [out EXCEPT ![e] = Tail(@)]
                \/ \E e \in End : out' = [out EXCEPT ![e] = <<>>]
<1> SUFFICES G
  OBVIOUS
<1>1. ASSUME NEW e \in End, out' = out \/ \E f : Buffers(e, f) PROVE G
  BY <1>1
<1>2. ASSUME NEW e \in End, out[e] # <<>> /\ out' = [out EXCEPT ![e] = Tail(@)] PROVE G
  BY <1>2
<1>3. ASSUME NEW e \in End, out' = [out EXCEPT ![e] = <<>>] PROVE G
  BY <1>3
<1> HIDE DEF G
<1>4. ASSUME NEW e \in End, PollGoAway(e) \/ SendPong(e) \/ SendPing(e) PROVE G
  <2>1. out' = out \/ \E f : Buffers(e, f)
    BY <1>4, Zenon DEF PollGoAway, SendPong, SendPing, Blocked, Buffers
  <2> QED BY <1>1, <2>1
<1>5. ASSUME NEW e \in End, SendAck(e) \/ FailAck(e) \/ SendSettings(e) \/ Complete(e) PROVE G
  <2>1. out' = out \/ \E f : Buffers(e, f)
    BY <1>5, Zenon DEF SendAck, FailAck, SendSettings, Complete, Blocked, Buffers, Buffer
  <2> QED BY <1>1, <2>1
<1>6. ASSUME NEW e \in End,
             RecvSettings(e) \/ RecvAck(e) \/ RecvPing(e) \/ RecvPong(e) \/ RecvGoAway(e)
               \/ RecvBadFrame(e) \/ RecvHeaders \/ RecvEnd \/ RecvEof(e) \/ NoFrame(e)
               \/ Flushing(e) \/ Park(e) \/ Close(e) \/ BeginPoll(e)
      PROVE  G
  <2>1. out' = out
    BY <1>6 DEF RecvSettings, RecvAck, RecvPing, RecvPong, RecvGoAway, RecvBadFrame,
         RecvHeaders, RecvEnd, RecvEof, NoFrame, Flushing, Park, Close, BeginPoll, Refuses
  <2> QED BY <1>1, <2>1
<1>7. ASSUME NEW e \in End, Write(e) \/ IoError(e) PROVE G
  BY <1>2, <1>3, <1>7 DEF Write, IoError
<1>8. CASE Use \/ UNCHANGED vars
  <2>1. out' = out
    BY <1>8 DEF Use, SendRequest, DropHandles, GracefulShutdown, Respond, AbruptShutdown,
         UserPing, PollPong, SetWindow, vars
  <2> QED BY <1>1, <2>1 DEF End
<1> QED BY <1>4, <1>5, <1>6, <1>7, <1>8 DEF Next, Step, Fault

(* The scope of a behaviour is chosen once.                                  *)
LEMMA ScopeStays ==
  ASSUME Types, [Next]_vars
  PROVE  history'.scope = history.scope
<1>0. history \in History
  BY DEF Types
<1>1. ASSUME NEW e \in End,
             PollGoAway(e) \/ SendPong(e) \/ SendPing(e) \/ SendAck(e) \/ FailAck(e)
               \/ SendSettings(e) \/ Complete(e) \/ Flushing(e) \/ Park(e) \/ Close(e)
               \/ IoError(e) \/ Write(e) \/ BeginPoll(e)
      PROVE  history'.scope = history.scope
  BY <1>0, <1>1 DEF PollGoAway, SendPong, SendPing, SendAck, FailAck, SendSettings, Complete,
       Flushing, Park, Close, IoError, Write, BeginPoll, Blocked, History, Unchanged
<1>2. ASSUME NEW e \in End,
             RecvSettings(e) \/ RecvAck(e) \/ RecvPing(e) \/ RecvPong(e) \/ RecvGoAway(e)
               \/ RecvBadFrame(e) \/ RecvHeaders \/ RecvEnd \/ RecvEof(e) \/ NoFrame(e)
      PROVE  history'.scope = history.scope
  BY <1>0, <1>2 DEF RecvSettings, RecvAck, RecvPing, RecvPong, RecvGoAway, RecvBadFrame,
       RecvHeaders, RecvEnd, RecvEof, NoFrame, Refuses, History
<1>3. CASE Use \/ UNCHANGED vars
  BY <1>0, <1>3 DEF Use, SendRequest, DropHandles, GracefulShutdown, Respond, AbruptShutdown,
       UserPing, PollPong, SetWindow, vars, History
<1> QED BY <1>1, <1>2, <1>3 DEF Next, Step, Fault

(* Where an end is, and what its future returned.                            *)
LEMMA DoneStep ==
  ASSUME Based, NEW e \in End, (result[e] # None) = (pc[e] = "done"), [Next]_vars
  PROVE  ((result[e] # None) = (pc[e] = "done"))'
<1>0. pc \in [End -> Place] /\ result \in [End -> Outcome \cup {None}]
  BY DEF Based, Types
<1>1. ASSUME NEW f \in End,
             PollGoAway(f) \/ SendPong(f) \/ SendPing(f) \/ SendAck(f) \/ FailAck(f)
               \/ SendSettings(f) \/ Complete(f) \/ Flushing(f) \/ Park(f)
               \/ Write(f) \/ BeginPoll(f)
      PROVE  ((result[e] # None) = (pc[e] = "done"))'
  <2>1. result' = result
    BY <1>1 DEF PollGoAway, SendPong, SendPing, SendAck, FailAck, SendSettings, Complete,
       Flushing, Park, Write, BeginPoll, Blocked, Unchanged
  <2>2. pc' = pc \/ (pc[f] # "done" /\ \E p \in Place \ {"done"} : pc' = [pc EXCEPT ![f] = p])
    BY <1>1 DEF PollGoAway, SendPong, SendPing, SendAck, FailAck, SendSettings, Complete,
       Flushing, Park, Write, BeginPoll, Blocked, Parks, Goes, At, Place, Finished,
       ConnectionError
  <2> QED BY <1>0, <2>1, <2>2
<1>2. ASSUME NEW f \in End,
             RecvSettings(f) \/ RecvAck(f) \/ RecvPing(f) \/ RecvPong(f) \/ RecvGoAway(f)
               \/ RecvBadFrame(f) \/ (f = "server" /\ RecvHeaders) \/ (f = "client" /\ RecvEnd)
               \/ RecvEof(f) \/ NoFrame(f)
      PROVE  ((result[e] # None) = (pc[e] = "done"))'
  <2>1. result' = result
    BY <1>2 DEF RecvSettings, RecvAck, RecvPing, RecvPong, RecvGoAway, RecvBadFrame,
       RecvHeaders, RecvEnd, RecvEof, NoFrame, Refuses
  <2>2. pc[f] = "recv" /\ \E p \in Place \ {"done"} : pc' = [pc EXCEPT ![f] = p]
    BY <1>2 DEF RecvSettings, RecvAck, RecvPing, RecvPong, RecvGoAway, RecvBadFrame,
       RecvHeaders, RecvEnd, RecvEof, NoFrame, Refuses, ConnectionError, Reads, At, Goes, Place
  <2> QED BY <1>0, <2>1, <2>2
<1>3. ASSUME NEW f \in End, Close(f) \/ IoError(f)
      PROVE  ((result[e] # None) = (pc[e] = "done"))'
  <2>1. pc' = [pc EXCEPT ![f] = "done"]
          /\ (result' = [result EXCEPT ![f] = TakeError(con[f])]
                \/ result' = [result EXCEPT ![f] = "io"])
    BY <1>3 DEF Close, IoError, Ends, Goes
  <2>2. TakeError(con[f]) # None /\ "io" # None
    BY H2ConnectionAssumption DEF TakeError, Outcome
  <2> QED BY <1>0, <2>1, <2>2
<1>4. CASE Use \/ UNCHANGED vars
  BY <1>4 DEF Use, SendRequest, DropHandles, GracefulShutdown, Respond, AbruptShutdown,
       UserPing, PollPong, SetWindow, vars
<1> QED BY <1>1, <1>2, <1>3, <1>4 DEF Next, Step, Fault

(* The codec takes no more than it has room for, and a result is the end.    *)
LEMMA BoundedStep ==
  ASSUME Based, Bounded, [Next]_vars
  PROVE  Bounded'
<1>1. Room' = Room /\ Room \in Nat \ {0}
  BY ScopeStays, ScopeOK DEF Based, Types, Room
<1>2. out \in [End -> Seq(Frames)] /\ \A e \in End : Len(out[e]) \in Nat /\ Len(out[e]) <= Room
  BY DEF Based, Types, Bounded
<1>3. ASSUME NEW e \in End PROVE Len(out'[e]) <= Room
  <2>1. CASE out' = out
    BY <1>2, <2>1
  <2>2. ASSUME NEW f \in End, NEW x, Buffers(f, x) PROVE Len(out'[e]) <= Room
    <3>1. CASE e # f
      BY <1>2, <2>2, <3>1 DEF Buffers
    <3>2. CASE e = f
      <4>1. out'[e] = Append(out[e], x) /\ Len(out[e]) < Room
        BY <1>2, <2>2, <3>2 DEF Buffers, HasRoom
      <4>2. Len(Append(out[e], x)) = Len(out[e]) + 1
        BY <1>2
      <4> QED BY <1>1, <1>2, <4>1, <4>2
    <3> QED BY <3>1, <3>2
  <2>3. ASSUME NEW f \in End, out[f] # <<>>, out' = [out EXCEPT ![f] = Tail(@)]
        PROVE  Len(out'[e]) <= Room
    <3>1. Len(Tail(out[f])) = Len(out[f]) - 1
      BY <1>2, <2>3
    <3> QED BY <1>1, <1>2, <2>3, <3>1
  <2>4. ASSUME NEW f \in End, out' = [out EXCEPT ![f] = <<>>] PROVE Len(out'[e]) <= Room
    BY <1>1, <1>2, <2>4
  <2> QED BY <2>1, <2>2, <2>3, <2>4, OutStep
<1>4. \A e \in End : ((result[e] # None) = (pc[e] = "done"))'
  BY DoneStep DEF Bounded
<1> QED BY <1>1, <1>3, <1>4 DEF Bounded

(* What a step does to what an end has announced, and to the identifiers of  *)
(* the server.                                                               *)
SamePlan(e) ==
  con'[e].going_away = con[e].going_away /\ con'[e].close_now = con[e].close_now

SameIds == ids'.last_processed = ids.last_processed /\ ids'.recv_max = ids.recv_max

Accepts ==
  /\ pc["server"] = "recv" /\ ids'.recv_max = ids.recv_max
  /\ ids'.last_processed \in Id /\ ids'.last_processed <= ids.recv_max

Now(e) ==
  /\ \E reason \in Reason : con'[e].going_away = GoAwayFrame(LastProcessed(e), reason)
  /\ con'[e].close_now

Graceful ==
  /\ con["server"].going_away = None
  /\ con'["server"].going_away = GoAwayFrame(MaxStreamId, "NO_ERROR")
  /\ con'["server"].close_now = con["server"].close_now
  /\ ids'.last_processed = ids.last_processed /\ ids'.recv_max = MaxStreamId

Final ==
  /\ pc["server"] = "recv"
  /\ con'["server"].going_away = GoAwayFrame(ids.last_processed, "NO_ERROR")
  /\ con'["server"].close_now = con["server"].close_now
  /\ ids'.last_processed = ids.last_processed /\ ids'.recv_max = ids.last_processed

Plan(e) ==
  \/ SamePlan(e) /\ (e = "server" => SameIds \/ Accepts)
  \/ Now(e) /\ SameIds
  \/ e = "server" /\ (Graceful \/ Final)

(* A step that leaves GOAWAY alone.                                          *)
LEMMA PlanMove ==
  ASSUME Types, NEW e \in End, NEW f \in End, NEW d, con' = [con EXCEPT ![f] = d],
         d.going_away = con[f].going_away, d.close_now = con[f].close_now
  PROVE  SamePlan(e)
BY DEF Types, SamePlan

(* GoAway::go_away_now announces the last identifier that was processed.     *)
LEMMA PlanNow ==
  ASSUME Types, NEW e \in End, NEW f \in End, NEW c \in Con, NEW reason \in Reason,
         con' = [con EXCEPT ![f] = GoAwayNow(c, GoAwayFrame(LastProcessed(f), reason))],
         SameIds
  PROVE  Plan(e)
<1> DEFINE x == GoAwayFrame(LastProcessed(f), reason)
           d == GoAwayNow(c, x)
<1>1. d.close_now /\ d.going_away = x
  <2> HIDE DEF x
  <2>1. CASE c.going_away = x
    BY <2>1 DEF GoAwayNow, Con
  <2>2. CASE c.going_away # x
    BY <2>2 DEF GoAwayNow, SetGoAway, Con
  <2> QED BY <2>1, <2>2
<1>2. con' = [con EXCEPT ![f] = d]
  OBVIOUS
<1> HIDE DEF d
<1>3. CASE e = f
  <2>1. con'[e] = d
    BY <1>2, <1>3 DEF Types
  <2> QED BY <1>1, <1>3, <2>1 DEF Plan, Now
<1>4. CASE e # f
  BY <1>2, <1>4 DEF Types, Plan, SamePlan
<1> QED BY <1>3, <1>4

(* handle_poll2_result announces it, or finds it announced.                  *)
LEMMA PlanError ==
  ASSUME Types, NEW e \in End, NEW f \in End, NEW c \in Con, NEW reason \in Reason,
         c.going_away = con[f].going_away, c.close_now = con[f].close_now,
         ConnectionError(f, c, reason, "Library"), SameIds
  PROVE  Plan(e)
<1>1. CASE c.going_away # None /\ c.going_away.reason = reason
  <2> DEFINE d == [c EXCEPT !.state = "Closing", !.why = <<reason, "Library">>]
  <2>1. con' = [con EXCEPT ![f] = d]
    BY <1>1, Zenon DEF ConnectionError
  <2>2. d.going_away = c.going_away /\ d.close_now = c.close_now
    BY DEF Con
  <2> HIDE DEF d
  <2> QED BY <2>1, <2>2, PlanMove DEF Plan
<1>2. CASE ~(c.going_away # None /\ c.going_away.reason = reason)
  <2>1. con' = [con EXCEPT ![f] = GoAwayNow(c, GoAwayFrame(LastProcessed(f), reason))]
    BY <1>2, Zenon DEF ConnectionError
  <2> QED BY <2>1, PlanNow
<1> QED BY <1>1, <1>2

(* How an end's GOAWAY, close_now and the identifiers change together.       *)
LEMMA PlanStep ==
  ASSUME Based, [Next]_vars, NEW e \in End
  PROVE  Plan(e)
<1>0. Types /\ Controlled /\ \A f \in End : con[f] \in Con /\ Control(f, con[f], pc[f])
  BY ConOf DEF Based, Controlled
<1>1. ASSUME NEW f \in End,
             SendPong(f) \/ SendPing(f) \/ SendAck(f) \/ SendSettings(f) \/ Complete(f)
               \/ Flushing(f) \/ Close(f) \/ IoError(f) \/ Write(f)
      PROVE  Plan(e)
  <2> DEFINE c == con[f]
  <2>1. ids' = ids
    BY <1>1 DEF SendPong, SendPing, SendAck, SendSettings, Complete, Flushing, Close, IoError,
         Write, Blocked, Unchanged
  <2>2. \/ con' = con
        \/ \E x, y : con' = [con EXCEPT ![f] = [c EXCEPT !.user = x, !.ping_task = y]]
        \/ \E x, y : con' = [con EXCEPT ![f] = [c EXCEPT !.state = x, !.user = y]]
        \/ \E x : \/ con' = [con EXCEPT ![f] = [c EXCEPT !.pending_pong = x]]
                  \/ con' = [con EXCEPT ![f] = [c EXCEPT !.pending_ping = x]]
                  \/ con' = [con EXCEPT ![f] = [c EXCEPT !.remote = x]]
                  \/ con' = [con EXCEPT ![f] = [c EXCEPT !.local = x]]
    <3>1. CASE SendPong(f) \/ SendAck(f) \/ Complete(f) \/ Flushing(f) \/ Write(f)
      BY <3>1 DEF SendPong, SendAck, Complete, Flushing, Write, Blocked, Unchanged
    <3>2. CASE SendPing(f)
      <4>1. CASE Blocked(f)
        BY <4>1 DEF Blocked
      <4>2. CASE ~Blocked(f) /\ c.pending_ping # None
        <5>1. con' = [con EXCEPT ![f] = [c EXCEPT !.pending_ping =
                                            [c.pending_ping EXCEPT !.sent = TRUE]]]
          BY <3>2, <4>2 DEF SendPing
        <5> QED BY <5>1
      <4>3. CASE ~Blocked(f) /\ c.pending_ping = None
        <5> DEFINE x == IF c.user = "pending_ping" THEN "pending_pong" ELSE c.user
                   y == c.ping_task \/ Registers(c)
        <5>1. con' = [con EXCEPT ![f] = [c EXCEPT !.user = x, !.ping_task = y]]
          BY <3>2, <4>3 DEF SendPing
        <5> HIDE DEF x, y
        <5> QED BY <5>1
      <4> QED BY <4>1, <4>2, <4>3
    <3>3. CASE SendSettings(f)
      <4>1. con' = con \/ con' = [con EXCEPT ![f] = [c EXCEPT !.local =
                                                      [c.local EXCEPT ![1] = "WaitingAck"]]]
        BY <3>3 DEF SendSettings, Blocked, Unchanged
      <4> QED BY <4>1
    <3>4. CASE Close(f) \/ IoError(f)
      <4> DEFINE y == IF c.user = None THEN None ELSE "closed"
      <4>1. con' = [con EXCEPT ![f] = [c EXCEPT !.state = "Closed", !.user = y]]
        BY <3>4 DEF Close, IoError, Dropped
      <4> HIDE DEF y
      <4> QED BY <4>1
    <3> QED BY <1>1, <3>1, <3>2, <3>3, <3>4
  <2> DEFINE Same(d) == d.going_away = c.going_away /\ d.close_now = c.close_now
  <2>3. \A x, y : /\ Same([c EXCEPT !.user = x, !.ping_task = y])
                 /\ Same([c EXCEPT !.state = x, !.user = y])
                 /\ Same([c EXCEPT !.pending_pong = x]) /\ Same([c EXCEPT !.pending_ping = x])
                 /\ Same([c EXCEPT !.remote = x]) /\ Same([c EXCEPT !.local = x])
    BY <1>0 DEF Con
  <2>5. \A d : Same(d) /\ con' = [con EXCEPT ![f] = d] => SamePlan(e)
    BY <1>0, PlanMove
  <2>6. con' = con => SamePlan(e)
    BY DEF SamePlan
  <2> HIDE DEF Same, c
  <2>4. SamePlan(e)
    BY <2>2, <2>3, <2>5, <2>6
  <2> QED BY <2>1, <2>4 DEF Plan, SameIds
<1>2. ASSUME NEW f \in End, PollGoAway(f)
      PROVE  Plan(e)
  <2> DEFINE c == con[f]
             d == [c EXCEPT !.pending = None]
  <2>1. CASE Blocked(f)
    BY <2>1 DEF Blocked, Plan, SamePlan, SameIds
  <2>2. CASE ~Blocked(f)
    <3>1. /\ IF ~ShouldCloseNow(d) THEN con' = [con EXCEPT ![f] = d]
             ELSE IF d.is_user THEN Finished(f, d)
             ELSE ConnectionError(f, d, d.going_away.reason, "Library")
          /\ ids' = ids
      BY <1>2, <2>2, Zenon DEF PollGoAway
    <3>2. /\ d \in Con /\ d.going_away = c.going_away /\ d.close_now = c.close_now
          /\ c.close_now => c.going_away # None
      BY <1>0 DEF Con, Control
    <3> HIDE DEF d
    <3>3. CASE ~ShouldCloseNow(d)
      BY <1>0, <3>1, <3>2, <3>3, PlanMove DEF Plan, SameIds
    <3>4. CASE ShouldCloseNow(d) /\ d.is_user
      <4> DEFINE g == [d EXCEPT !.state = "Closing", !.why = <<"NO_ERROR", "Library">>]
      <4>1. con' = [con EXCEPT ![f] = g]
        BY <3>1, <3>4 DEF Finished
      <4>2. g.going_away = c.going_away /\ g.close_now = c.close_now
        BY <3>2 DEF Con
      <4> HIDE DEF g
      <4> QED BY <1>0, <3>1, <4>1, <4>2, PlanMove DEF Plan, SameIds
    <3>5. CASE ShouldCloseNow(d) /\ ~d.is_user
      <4>1. d.going_away.reason \in Reason
        BY <3>2, <3>5 DEF Con, GoAway, ShouldCloseNow
      <4> QED BY <1>0, <3>1, <3>2, <3>5, <4>1, PlanError DEF SameIds
    <3> QED BY <3>3, <3>4, <3>5
  <2> QED BY <2>1, <2>2
<1>3. ASSUME NEW f \in End, NEW reason \in Reason,
             ConnectionError(f, con[f], reason, "Library"), ids' = ids
      PROVE  Plan(e)
  BY <1>0, <1>3, PlanError DEF SameIds
<1>4. "PROTOCOL_ERROR" \in Reason /\ "FLOW_CONTROL_ERROR" \in Reason /\ "NO_ERROR" \in Reason
  BY DEF Reason
<1>5. ASSUME NEW f \in End, FailAck(f) \/ \E reason \in Reason : Refuses(f, reason)
      PROVE  Plan(e)
  BY <1>3, <1>4, <1>5 DEF FailAck, Refuses
<1>6. ASSUME NEW f \in End,
             RecvSettings(f) \/ RecvAck(f) \/ RecvPing(f) \/ RecvGoAway(f) \/ RecvBadFrame(f)
               \/ RecvEnd \/ RecvEof(f) \/ NoFrame(f)
      PROVE  Plan(e)
  <2> DEFINE c == con[f]
  <2>1. CASE \E g \in End, reason \in Reason : Refuses(g, reason)
    BY <1>5, <2>1
  <2> DEFINE Same(d) == d.going_away = c.going_away /\ d.close_now = c.close_now
  <2>2. \A x, y : /\ Same([c EXCEPT !.remote = x]) /\ Same([c EXCEPT !.local = x])
                 /\ Same([c EXCEPT !.pending_pong = x]) /\ Same([c EXCEPT !.error = x])
                 /\ Same([c EXCEPT !.state = x, !.why = y])
    BY <1>0 DEF Con
  <2>4. \A d : Same(d) /\ con' = [con EXCEPT ![f] = d] => SamePlan(e)
    BY <1>0, PlanMove
  <2>5. con' = con => SamePlan(e)
    BY DEF SamePlan
  <2>3. CASE ~\E g \in End, reason \in Reason : Refuses(g, reason)
    <3>1. SameIds
      <4>1. ids' = ids \/ \E x : ids' = [ids EXCEPT !.send_max = x]
        BY <1>4, <1>6, <2>3 DEF RecvSettings, RecvAck, RecvPing, RecvGoAway, RecvBadFrame, RecvEnd,
           RecvEof, NoFrame, End
      <4> QED BY <1>0, <4>1 DEF SameIds, Types
    <3>2. \/ con' = con
          \/ \E x, y : con' = [con EXCEPT ![f] = [c EXCEPT !.state = x, !.why = y]]
          \/ \E x : \/ con' = [con EXCEPT ![f] = [c EXCEPT !.pending_pong = x]]
                    \/ con' = [con EXCEPT ![f] = [c EXCEPT !.error = x]]
                    \/ con' = [con EXCEPT ![f] = [c EXCEPT !.remote = x]]
                    \/ con' = [con EXCEPT ![f] = [c EXCEPT !.local = x]]
      <4>1. CASE RecvGoAway(f)
        <5>1. con' = [con EXCEPT ![f] = [c EXCEPT !.error = Arg(f)]]
          BY <1>4, <2>3, <4>1 DEF RecvGoAway
        <5> QED BY <5>1
      <4>2. CASE RecvAck(f)
        <5>1. con' = [con EXCEPT ![f] = [c EXCEPT !.local = <<"Synced", None>>]]
          BY <1>4, <2>3, <4>2 DEF RecvAck
        <5> QED BY <5>1
      <4>3. CASE RecvSettings(f) \/ RecvPing(f)
        <5>1. \/ con' = [con EXCEPT ![f] = [c EXCEPT !.remote = Arg(f)]]
              \/ con' = [con EXCEPT ![f] = [c EXCEPT !.pending_pong = Arg(f)]]
          BY <4>3 DEF RecvSettings, RecvPing
        <5> QED BY <5>1
      <4>4. CASE RecvEof(f)
        <5>1. con' = [con EXCEPT ![f] = [c EXCEPT !.state = "Closing",
                                                  !.why = <<"NO_ERROR", "Library">>]]
          BY <4>4 DEF RecvEof
        <5> QED BY <5>1
      <4>5. CASE RecvEnd \/ NoFrame(f)
        <5>1. con' = con
          BY <1>4, <2>3, <4>5 DEF RecvEnd, NoFrame, End
        <5> QED BY <5>1
      <4>6. ~RecvBadFrame(f)
        BY <1>4, <2>3 DEF RecvBadFrame
      <4> QED BY <1>6, <4>1, <4>2, <4>3, <4>4, <4>5, <4>6
    <3> HIDE DEF Same, c
    <3>3. SamePlan(e)
      BY <2>2, <2>4, <2>5, <3>2
    <3> QED BY <3>1, <3>3 DEF Plan
  <2> QED BY <2>1, <2>3
<1>7. ASSUME RecvHeaders PROVE Plan(e)
  <2> DEFINE id == Arg("server")[1]
  <2>1. Reads("server", "headers") /\ pc["server"] = "recv"
    BY <1>7 DEF RecvHeaders, Reads, At
  <2>2. CASE Refuses("server", "FLOW_CONTROL_ERROR")
    BY <1>4, <1>5, <2>2 DEF End
  <2>3. CASE ~Refuses("server", "FLOW_CONTROL_ERROR")
    <3>1. con' = con /\ (ids' = ids \/ (~Ignores(id) /\ ids' = [ids EXCEPT !.last_processed = id]))
      BY <1>7, <2>3 DEF RecvHeaders
    <3>2. id \in Id
      BY <1>0, <2>1, ReadFacts, FrameTypes DEF End
    <3>3. id \in Nat /\ ids.recv_max \in Nat
      BY <1>0, <3>2 DEF Types, Id
    <3> HIDE DEF id
    <3>4. SameIds \/ Accepts
      BY <1>0, <2>1, <3>1, <3>2, <3>3 DEF SameIds, Accepts, Types, Ignores
    <3> QED BY <3>1, <3>4 DEF Plan, SamePlan
  <2> QED BY <2>2, <2>3
<1>8. ASSUME NEW f \in End, RecvPong(f) PROVE Plan(e)
  <2> DEFINE c == con[f]
             x == GoAwayFrame(LastProcessed(f), "NO_ERROR")
             d == SetGoAway([c EXCEPT !.pending_ping = None], x)
  <2>1. CASE c.pending_ping # None /\ Arg(f) = Shutdown
    <3>1. f = "server"
      BY <1>0, <2>1 DEF Control, End
    <3>2. /\ con' = [con EXCEPT !["server"] = d] /\ pc["server"] = "recv"
          /\ ids' = [ids EXCEPT !.recv_max = LastProcessed(f)]
      BY <1>8, <2>1, <3>1 DEF RecvPong, Reads, At
    <3>3. LastProcessed(f) = ids.last_processed
      BY <3>1 DEF LastProcessed
    <3>4. d.going_away = x /\ d.close_now = c.close_now
      <4> HIDE DEF x
      <4> QED BY <1>0 DEF Con, SetGoAway
    <3> HIDE DEF d
    <3>5. CASE e = "server"
      BY <1>0, <3>1, <3>2, <3>3, <3>4, <3>5 DEF Plan, Final, Types
    <3>6. CASE e # "server"
      BY <1>0, <3>2, <3>6 DEF Plan, SamePlan, Types
    <3> QED BY <3>5, <3>6
  <2>2. CASE ~(c.pending_ping # None /\ Arg(f) = Shutdown)
    <3> DEFINE u == IF c.user = "pending_pong" THEN "received_pong" ELSE c.user
               g == [c EXCEPT !.user = u]
    <3>1. con' = [con EXCEPT ![f] = g] /\ ids' = ids
      BY <1>8, <2>2 DEF RecvPong
    <3> HIDE DEF u
    <3>2. g.going_away = c.going_away /\ g.close_now = c.close_now
      BY <1>0 DEF Con
    <3> HIDE DEF g
    <3> QED BY <1>0, <3>1, <3>2, PlanMove DEF Plan, SameIds
  <2> QED BY <2>1, <2>2
<1>9. ASSUME NEW f \in End, Park(f) \/ BeginPoll(f) PROVE Plan(e)
  <2>1. /\ con' = con \/ con' = [con EXCEPT ![f] =
                             GoAwayNow(con[f], GoAwayFrame(LastProcessed(f), "NO_ERROR"))]
        /\ ids' = ids
    BY <1>9 DEF Park, BeginPoll
  <2> QED BY <1>0, <1>4, <2>1, PlanNow DEF Plan, SamePlan, SameIds
<1>10. ASSUME GracefulShutdown PROVE Plan(e)
  <2> DEFINE c == con["server"]
             x == GoAwayFrame(MaxStreamId, "NO_ERROR")
             d == [SetGoAway(c, x) EXCEPT !.pending_ping = [sent |-> FALSE]]
  <2>1. /\ con' = [con EXCEPT !["server"] = d] /\ c.going_away = None
        /\ ids' = [ids EXCEPT !.recv_max = MaxStreamId]
    BY <1>10 DEF GracefulShutdown, MayShutDown
  <2>2. d.going_away = x /\ d.close_now = c.close_now
    <3> HIDE DEF x
    <3>1. c \in Con
      BY <1>0 DEF End
    <3> QED BY <3>1 DEF Con, SetGoAway
  <2> HIDE DEF d
  <2>3. CASE e = "server"
    BY <1>0, <2>1, <2>2, <2>3 DEF Plan, Graceful, Types
  <2>4. CASE e # "server"
    BY <1>0, <2>1, <2>4 DEF Plan, SamePlan, Types
  <2> QED BY <2>3, <2>4
<1>11. ASSUME NEW reason \in {"NO_ERROR", "PROTOCOL_ERROR"}, AbruptShutdown(reason)
       PROVE  Plan(e)
  <2> DEFINE c == [con["server"] EXCEPT !.is_user = TRUE]
  <2>1. /\ con' = [con EXCEPT !["server"] =
                     GoAwayNow(c, GoAwayFrame(LastProcessed("server"), reason))]
        /\ ids' = ids
    BY <1>11 DEF AbruptShutdown
  <2>2. c \in Con
    BY <1>0 DEF Con, End
  <2> HIDE DEF c
  <2> QED BY <1>0, <2>1, <2>2, PlanNow DEF Reason, SameIds, End
<1>12. CASE SendRequest \/ (\E id \in Id : Respond(id)) \/ UNCHANGED vars
  <2>1. con' = con /\ (ids' = ids \/ ids' = [ids EXCEPT !.next = ids.next + 1])
    BY <1>12 DEF SendRequest, Respond, vars
  <2> QED BY <1>0, <2>1 DEF Plan, SamePlan, SameIds, Types
<1>13. ASSUME NEW f \in End,
              (f = "client" /\ DropHandles) \/ UserPing(f) \/ PollPong(f)
                \/ \E w \in history.scope.windows : SetWindow(f, w)
       PROVE  Plan(e)
  <2> DEFINE c == con[f]
  <2> DEFINE Same(d) == d.going_away = c.going_away /\ d.close_now = c.close_now
  <2>1. \E d : con' = [con EXCEPT ![f] = d] /\ Same(d)
    <3>1. CASE f = "client" /\ DropHandles
      <4>1. Same([c EXCEPT !.handles = FALSE])
        BY <1>0 DEF Con
      <4>2. con' = [con EXCEPT ![f] = [c EXCEPT !.handles = FALSE]]
        BY <3>1 DEF DropHandles
      <4> HIDE DEF Same
      <4> QED BY <4>1, <4>2
    <3>2. CASE UserPing(f)
      <4>1. Same([c EXCEPT !.user = "pending_ping", !.ping_task = FALSE])
        BY <1>0 DEF Con
      <4>2. con' = [con EXCEPT ![f] = [c EXCEPT !.user = "pending_ping", !.ping_task = FALSE]]
        BY <3>2 DEF UserPing
      <4> HIDE DEF Same
      <4> QED BY <4>1, <4>2
    <3>3. CASE PollPong(f)
      <4>1. Same([c EXCEPT !.user = "empty"])
        BY <1>0 DEF Con
      <4>2. con' = [con EXCEPT ![f] = [c EXCEPT !.user = "empty"]]
        BY <3>3 DEF PollPong
      <4> HIDE DEF Same
      <4> QED BY <4>1, <4>2
    <3>4. ASSUME NEW w, SetWindow(f, w) PROVE \E d : con' = [con EXCEPT ![f] = d] /\ Same(d)
      <4>1. Same([c EXCEPT !.local = <<"ToSend", w>>])
        BY <1>0 DEF Con
      <4>2. con' = [con EXCEPT ![f] = [c EXCEPT !.local = <<"ToSend", w>>]]
        BY <3>4 DEF SetWindow
      <4> HIDE DEF Same
      <4> QED BY <4>1, <4>2
    <3> QED BY <1>13, <3>1, <3>2, <3>3, <3>4
  <2>2. ids' = ids
    BY <1>13 DEF DropHandles, UserPing, PollPong, SetWindow
  <2>4. SamePlan(e)
    BY <1>0, <2>1, PlanMove
  <2> QED BY <2>2, <2>4 DEF Plan, SameIds
<1> QED BY <1>1, <1>2, <1>5, <1>6, <1>7, <1>8, <1>9, <1>10, <1>11, <1>12, <1>13
        DEF Next, Step, Fault, Use, End

(* e refuses a frame.                                                        *)
Rejects(e) ==
  \/ RecvBadFrame(e)
  \/ RecvAck(e) /\ con[e].local[1] # "WaitingAck"
  \/ e = "client" /\ RecvGoAway(e) /\ Arg(e).last > ids.send_max
  \/ e = "server" /\ RecvHeaders /\ Arg(e)[2] > window[e].accepts
  \/ e = "client" /\ RecvEnd /\ Arg(e)[2] > window[e].accepts

(* e ends with an error of its own, or the user of the server ends it.       *)
Trouble(e) ==
  \/ FailAck(e) \/ Rejects(e)
  \/ e = "server" /\ \E reason \in {"NO_ERROR", "PROTOCOL_ERROR"} : AbruptShutdown(reason)

(* c becomes d in a step of e: who may change what.                          *)
Fields(e, c, d) ==
  /\ d.remote # c.remote => RecvSettings(e) \/ SendAck(e)
  /\ d.local # c.local =>
       RecvAck(e) \/ SendSettings(e) \/ \E w \in history.scope.windows : SetWindow(e, w)
  /\ d.error # c.error => RecvGoAway(e)
  /\ d.state # c.state => d.state # "Open"
  /\ d.pending # c.pending => PollGoAway(e) \/ d.pending = d.going_away
  /\ d.going_away # c.going_away =>
       /\ d.pending = d.going_away
       /\ d.going_away.reason = "NO_ERROR" \/ Trouble(e)
  /\ d.why # c.why =>
       d.why[1] = "NO_ERROR" \/ (c.going_away # None /\ d.why[1] = c.going_away.reason)

(* Nothing changes.                                                          *)
LEMMA FieldsSame ==
  ASSUME NEW e, NEW f, con' = con PROVE Fields(e, con[e], con'[e])
BY DEF Fields

(* A step of one end is seen at that end alone.                              *)
LEMMA FieldsMove ==
  ASSUME Types, NEW e \in End, NEW f \in End, NEW d, Fields(f, con[f], d),
         con' = [con EXCEPT ![f] = d]
  PROVE  Fields(e, con[e], con'[e])
<1>1. CASE e = f
  BY <1>1 DEF Types
<1>2. CASE e # f
  <2>1. con'[e] = con[e]
    BY <1>2 DEF Types
  <2> QED BY <2>1 DEF Fields
<1> QED BY <1>1, <1>2

(* What leaves all of these fields alone.                                    *)
LEMMA FieldsOther ==
  ASSUME NEW e, NEW c \in Con, NEW x, NEW y
  PROVE  /\ Fields(e, c, [c EXCEPT !.user = x, !.ping_task = y])
         /\ Fields(e, c, [c EXCEPT !.user = x])
         /\ Fields(e, c, [c EXCEPT !.pending_pong = x])
         /\ Fields(e, c, [c EXCEPT !.pending_ping = x])
         /\ Fields(e, c, [c EXCEPT !.handles = x])
         /\ Fields(e, c, [c EXCEPT !.state = "Closed", !.user = x])
         /\ Fields(e, c, [c EXCEPT !.state = "Closing", !.why = <<"NO_ERROR", "Library">>])
<1>1. ASSUME NEW d, d.remote = c.remote, d.local = c.local, d.error = c.error,
             d.state = c.state \/ d.state # "Open", d.pending = c.pending,
             d.going_away = c.going_away, d.why = c.why \/ d.why[1] = "NO_ERROR"
      PROVE  Fields(e, c, d)
  BY <1>1 DEF Fields
<1>2. /\ Fields(e, c, [c EXCEPT !.user = x, !.ping_task = y])
      /\ Fields(e, c, [c EXCEPT !.user = x])
      /\ Fields(e, c, [c EXCEPT !.pending_pong = x])
      /\ Fields(e, c, [c EXCEPT !.pending_ping = x])
  BY <1>1 DEF Con
<1>3. /\ Fields(e, c, [c EXCEPT !.handles = x])
      /\ Fields(e, c, [c EXCEPT !.state = "Closed", !.user = x])
      /\ Fields(e, c, [c EXCEPT !.state = "Closing", !.why = <<"NO_ERROR", "Library">>])
  BY <1>1 DEF Con
<1> QED BY <1>2, <1>3

(* What GoAway::go_away_now may change.                                      *)
LEMMA FieldsNow ==
  ASSUME NEW e, NEW c \in Con, NEW d \in Con, NEW last \in Nat, NEW reason \in Reason,
         d.remote = c.remote, d.local = c.local, d.error = c.error, d.state = c.state,
         d.pending = c.pending, d.going_away = c.going_away, d.why = c.why,
         reason = "NO_ERROR" \/ Trouble(e)
  PROVE  Fields(e, c, GoAwayNow(d, GoAwayFrame(last, reason)))
<1> DEFINE x == GoAwayFrame(last, reason)
           g == GoAwayNow(d, x)
<1>1. x.reason = reason
  BY DEF GoAwayFrame
<1> HIDE DEF x
<1>2. /\ g.remote = d.remote /\ g.local = d.local /\ g.error = d.error /\ g.state = d.state
      /\ g.why = d.why
      /\ \/ g.going_away = d.going_away /\ g.pending = d.pending
         \/ g.going_away = x /\ g.pending = x
  BY DEF GoAwayNow, SetGoAway, Con
<1> HIDE DEF g
<1>3. Fields(e, c, g)
  BY <1>1, <1>2 DEF Fields
<1> QED BY <1>3 DEF g, x

(* What handle_poll2_result may change.                                      *)
LEMMA FieldsError ==
  ASSUME Types, NEW e \in End, NEW f \in End, NEW reason \in Reason, Trouble(f),
         ConnectionError(f, con[f], reason, "Library")
  PROVE  Fields(e, con[e], con'[e])
<1> DEFINE c == con[f]
<1>0. c \in Con
  BY ConOf
<1>1. CASE c.going_away # None /\ c.going_away.reason = reason
  <2> DEFINE d == [c EXCEPT !.state = "Closing", !.why = <<reason, "Library">>]
  <2>1. con' = [con EXCEPT ![f] = d]
    BY <1>1, Zenon DEF ConnectionError
  <2>2. /\ d.remote = c.remote /\ d.local = c.local /\ d.error = c.error /\ d.state = "Closing"
        /\ d.pending = c.pending /\ d.going_away = c.going_away /\ d.why[1] = reason
    BY <1>0 DEF Con
  <2> HIDE DEF d
  <2>3. Fields(f, c, d)
    BY <1>1, <2>2 DEF Fields
  <2> QED BY <2>1, <2>3, FieldsMove
<1>2. CASE ~(c.going_away # None /\ c.going_away.reason = reason)
  <2> DEFINE d == GoAwayNow(c, GoAwayFrame(LastProcessed(f), reason))
  <2>1. con' = [con EXCEPT ![f] = d]
    BY <1>2, Zenon DEF ConnectionError
  <2>2. Fields(f, c, d)
    BY <1>0, LastTypes, FieldsNow
  <2> HIDE DEF d
  <2> QED BY <2>1, <2>2, FieldsMove
<1> QED BY <1>1, <1>2

(* What the steps of poll2 that send may change.                             *)
LEMMA FieldsPoll ==
  ASSUME Based, NEW e \in End, NEW f \in End,
         PollGoAway(f) \/ SendPong(f) \/ SendPing(f) \/ SendAck(f) \/ FailAck(f)
           \/ SendSettings(f)
  PROVE  Fields(e, con[e], con'[e])
<1> DEFINE c == con[f]
<1>0. Types /\ c \in Con /\ Control(f, c, pc[f])
  BY ConOf DEF Based, Controlled
<1>1. CASE con' = con
  BY <1>1, FieldsSame
<1>2. CASE PollGoAway(f) /\ con' # con
  <2> DEFINE d == [c EXCEPT !.pending = None]
  <2>1. IF ~ShouldCloseNow(d) THEN con' = [con EXCEPT ![f] = d]
             ELSE IF d.is_user THEN Finished(f, d)
             ELSE ConnectionError(f, d, d.going_away.reason, "Library")
    BY <1>2, Zenon DEF PollGoAway, Blocked
  <2>2. /\ d \in Con /\ d.remote = c.remote /\ d.local = c.local /\ d.error = c.error
        /\ d.state = c.state /\ d.going_away = c.going_away /\ d.why = c.why
        /\ d.close_now = c.close_now /\ (c.close_now => c.going_away # None)
    BY <1>0 DEF Con, Control
  <2> HIDE DEF d
  <2>3. CASE ~ShouldCloseNow(d)
    <3>1. Fields(f, c, d)
      BY <1>2, <2>2 DEF Fields
    <3> QED BY <1>0, <2>1, <2>3, <3>1, FieldsMove
  <2>4. CASE ShouldCloseNow(d)
    <3>1. \E reason \in Reason :
            /\ con' = [con EXCEPT ![f] = [d EXCEPT !.state = "Closing", !.why = <<reason, "Library">>]]
            /\ reason = "NO_ERROR" \/ reason = d.going_away.reason
      <4>1. CASE d.is_user
        <5>1. con' = [con EXCEPT ![f] = [d EXCEPT !.state = "Closing",
                                                  !.why = <<"NO_ERROR", "Library">>]]
          BY <2>1, <2>4, <4>1 DEF Finished
        <5> QED BY <5>1 DEF Reason
      <4>2. CASE ~d.is_user
        <5>1. d.going_away # None /\ d.going_away.reason \in Reason
          BY <2>2, <2>4 DEF Con, GoAway, ShouldCloseNow
        <5>2. ConnectionError(f, d, d.going_away.reason, "Library")
          BY <2>1, <2>4, <4>2
        <5>3. con' = [con EXCEPT ![f] = [d EXCEPT !.state = "Closing",
                                                  !.why = <<d.going_away.reason, "Library">>]]
          BY <5>1, <5>2, Zenon DEF ConnectionError
        <5> QED BY <5>1, <5>3
      <4> QED BY <4>1, <4>2
    <3>2. PICK reason \in Reason :
            /\ con' = [con EXCEPT ![f] = [d EXCEPT !.state = "Closing", !.why = <<reason, "Library">>]]
            /\ reason = "NO_ERROR" \/ reason = d.going_away.reason
      BY <3>1
    <3> DEFINE g == [d EXCEPT !.state = "Closing", !.why = <<reason, "Library">>]
    <3>3. /\ g.remote = c.remote /\ g.local = c.local /\ g.error = c.error /\ g.state = "Closing"
          /\ g.going_away = c.going_away /\ g.why[1] = reason
      BY <2>2 DEF Con
    <3>4. c.going_away # None
      BY <2>2, <2>4 DEF ShouldCloseNow
    <3> HIDE DEF g
    <3>5. Fields(f, c, g)
      BY <1>2, <2>2, <3>2, <3>3, <3>4 DEF Fields
    <3>6. con' = [con EXCEPT ![f] = g]
      BY <3>2 DEF g
    <3> QED BY <1>0, <3>5, <3>6, FieldsMove
  <2> QED BY <2>3, <2>4
<1>3. CASE SendPong(f) /\ con' # con
  <2>1. con' = [con EXCEPT ![f] = [c EXCEPT !.pending_pong = None]]
    BY <1>3 DEF SendPong, Blocked
  <2> QED BY <1>0, <2>1, FieldsOther, FieldsMove
<1>4. CASE SendPing(f) /\ con' # con
  <2>1. CASE c.pending_ping # None
    <3> DEFINE x == [c.pending_ping EXCEPT !.sent = TRUE]
    <3>1. con' = [con EXCEPT ![f] = [c EXCEPT !.pending_ping = x]]
      BY <1>4, <2>1 DEF SendPing, Blocked
    <3> HIDE DEF x
    <3> QED BY <1>0, <3>1, FieldsOther, FieldsMove
  <2>2. CASE c.pending_ping = None
    <3> DEFINE x == IF c.user = "pending_ping" THEN "pending_pong" ELSE c.user
               y == c.ping_task \/ Registers(c)
    <3>1. con' = [con EXCEPT ![f] = [c EXCEPT !.user = x, !.ping_task = y]]
      BY <1>4, <2>2 DEF SendPing, Blocked
    <3> HIDE DEF x, y
    <3> QED BY <1>0, <3>1, FieldsOther, FieldsMove
  <2> QED BY <2>1, <2>2
<1>5. CASE SendAck(f) /\ con' # con
  <2> DEFINE d == [c EXCEPT !.remote = None]
  <2>1. con' = [con EXCEPT ![f] = d]
    BY <1>5 DEF SendAck, Blocked, Unchanged
  <2>2. Fields(f, c, d)
    <3>1. /\ d.local = c.local /\ d.error = c.error /\ d.state = c.state
          /\ d.pending = c.pending /\ d.going_away = c.going_away /\ d.why = c.why
      BY <1>0 DEF Con
    <3> HIDE DEF d
    <3> QED BY <1>5, <3>1 DEF Fields
  <2> HIDE DEF d
  <2> QED BY <1>0, <2>1, <2>2, FieldsMove
<1>6. CASE FailAck(f)
  <2>1. ConnectionError(f, c, "FLOW_CONTROL_ERROR", "Library") /\ Trouble(f)
    BY <1>6 DEF FailAck, Trouble
  <2> QED BY <1>0, <2>1, FieldsError DEF Reason
<1>7. CASE SendSettings(f) /\ con' # con
  <2> DEFINE l == [c.local EXCEPT ![1] = "WaitingAck"]
             d == [c EXCEPT !.local = l]
  <2>1. con' = [con EXCEPT ![f] = d]
    BY <1>7 DEF SendSettings, Blocked, Unchanged
  <2> HIDE DEF l
  <2>2. Fields(f, c, d)
    <3>1. /\ d.remote = c.remote /\ d.error = c.error /\ d.state = c.state
          /\ d.pending = c.pending /\ d.going_away = c.going_away /\ d.why = c.why
      BY <1>0 DEF Con
    <3> HIDE DEF d
    <3> QED BY <1>7, <3>1 DEF Fields
  <2> HIDE DEF d
  <2> QED BY <1>0, <2>1, <2>2, FieldsMove
<1> QED BY <1>1, <1>2, <1>3, <1>4, <1>5, <1>6, <1>7

(* What recv_frame may change.                                               *)
LEMMA FieldsReceive ==
  ASSUME Based, NEW e \in End, NEW f \in End,
         RecvSettings(f) \/ RecvAck(f) \/ RecvPing(f) \/ RecvPong(f) \/ RecvGoAway(f)
           \/ RecvBadFrame(f) \/ RecvHeaders \/ RecvEnd \/ RecvEof(f) \/ NoFrame(f)
  PROVE  Fields(e, con[e], con'[e])
<1> DEFINE c == con[f]
<1>0. Types /\ c \in Con /\ Control(f, c, pc[f])
  BY ConOf DEF Based, Controlled
<1>1. ASSUME NEW g \in End, NEW reason \in Reason, Refuses(g, reason), Rejects(g)
      PROVE  Fields(e, con[e], con'[e])
  BY <1>0, <1>1, FieldsError DEF Refuses, Trouble
<1>2. CASE con' = con
  BY <1>2, FieldsSame
<1>3. "PROTOCOL_ERROR" \in Reason /\ "FLOW_CONTROL_ERROR" \in Reason
  BY DEF Reason
<1>4. CASE RecvBadFrame(f) \/ RecvHeaders \/ RecvEnd \/ NoFrame(f)
  <2>1. con' = con \/ \E g \in End, reason \in Reason : Refuses(g, reason) /\ Rejects(g)
    BY <1>3, <1>4 DEF RecvBadFrame, RecvHeaders, RecvEnd, NoFrame, End, Rejects
  <2> QED BY <1>1, <1>2, <2>1
<1>5. CASE RecvSettings(f)
  <2> DEFINE x == Arg(f)
             d == [c EXCEPT !.remote = x]
  <2>1. con' = [con EXCEPT ![f] = d]
    BY <1>5 DEF RecvSettings
  <2>2. Fields(f, c, d)
    <3> HIDE DEF x
    <3>1. /\ d.local = c.local /\ d.error = c.error /\ d.state = c.state
          /\ d.pending = c.pending /\ d.going_away = c.going_away /\ d.why = c.why
      BY <1>0 DEF Con
    <3> HIDE DEF d
    <3> QED BY <1>5, <3>1 DEF Fields
  <2> HIDE DEF d
  <2> QED BY <1>0, <2>1, <2>2, FieldsMove
<1>6. CASE RecvAck(f)
  <2>1. CASE c.local[1] # "WaitingAck"
    <3>1. Refuses(f, "PROTOCOL_ERROR") /\ Rejects(f)
      BY <1>6, <2>1 DEF RecvAck, Rejects
    <3> QED BY <1>1, <1>3, <3>1
  <2>2. CASE c.local[1] = "WaitingAck"
    <3> DEFINE d == [c EXCEPT !.local = <<"Synced", None>>]
    <3>1. con' = [con EXCEPT ![f] = d]
      BY <1>6, <2>2 DEF RecvAck
    <3>2. /\ d.remote = c.remote /\ d.error = c.error /\ d.state = c.state
          /\ d.pending = c.pending /\ d.going_away = c.going_away /\ d.why = c.why
      BY <1>0 DEF Con
    <3> HIDE DEF d
    <3>3. Fields(f, c, d)
      BY <1>6, <3>2 DEF Fields
    <3> QED BY <1>0, <3>1, <3>3, FieldsMove
  <2> QED BY <2>1, <2>2
<1>7. CASE RecvPing(f)
  <2>1. con' = [con EXCEPT ![f] = [c EXCEPT !.pending_pong = Arg(f)]]
    BY <1>7 DEF RecvPing
  <2> QED BY <1>0, <2>1, FieldsOther, FieldsMove
<1>8. CASE RecvPong(f)
  <2>1. CASE c.pending_ping # None /\ Arg(f) = Shutdown
    <3> DEFINE x == GoAwayFrame(LastProcessed(f), "NO_ERROR")
               d == SetGoAway([c EXCEPT !.pending_ping = None], x)
    <3>1. con' = [con EXCEPT ![f] = d]
      BY <1>8, <2>1 DEF RecvPong
    <3>2. x.reason = "NO_ERROR"
      BY DEF GoAwayFrame
    <3> HIDE DEF x
    <3>3. /\ d.remote = c.remote /\ d.local = c.local /\ d.error = c.error /\ d.state = c.state
          /\ d.pending = x /\ d.going_away = x /\ d.why = c.why
      BY <1>0 DEF Con, SetGoAway
    <3> HIDE DEF d
    <3>4. Fields(f, c, d)
      BY <3>2, <3>3 DEF Fields
    <3> QED BY <1>0, <3>1, <3>4, FieldsMove
  <2>2. CASE ~(c.pending_ping # None /\ Arg(f) = Shutdown)
    <3> DEFINE x == IF c.user = "pending_pong" THEN "received_pong" ELSE c.user
    <3>1. con' = [con EXCEPT ![f] = [c EXCEPT !.user = x]]
      BY <1>8, <2>2 DEF RecvPong
    <3> HIDE DEF x
    <3> QED BY <1>0, <3>1, FieldsOther, FieldsMove
  <2> QED BY <2>1, <2>2
<1>9. CASE RecvGoAway(f)
  <2>1. CASE f = "client" /\ Arg(f).last > ids.send_max
    <3>1. Refuses(f, "PROTOCOL_ERROR") /\ Rejects(f)
      BY <1>9, <2>1 DEF RecvGoAway, Rejects
    <3> QED BY <1>1, <1>3, <3>1
  <2>2. CASE ~(f = "client" /\ Arg(f).last > ids.send_max)
    <3> DEFINE x == Arg(f)
               d == [c EXCEPT !.error = x]
    <3>1. con' = [con EXCEPT ![f] = d]
      BY <1>9, <2>2 DEF RecvGoAway
    <3> HIDE DEF x
    <3>2. /\ d.remote = c.remote /\ d.local = c.local /\ d.state = c.state
          /\ d.pending = c.pending /\ d.going_away = c.going_away /\ d.why = c.why
      BY <1>0 DEF Con
    <3> HIDE DEF d
    <3>3. Fields(f, c, d)
      BY <1>9, <3>2 DEF Fields
    <3> QED BY <1>0, <3>1, <3>3, FieldsMove
  <2> QED BY <2>1, <2>2
<1>10. CASE RecvEof(f)
  <2>1. con' = [con EXCEPT ![f] = [c EXCEPT !.state = "Closing", !.why = <<"NO_ERROR", "Library">>]]
    BY <1>10 DEF RecvEof
  <2> QED BY <1>0, <2>1, FieldsOther, FieldsMove
<1> QED BY <1>4, <1>5, <1>6, <1>7, <1>8, <1>9, <1>10

(* What the end of a poll may change.                                        *)
LEMMA FieldsEnd ==
  ASSUME Based, NEW e \in End, NEW f \in End,
         Complete(f) \/ Flushing(f) \/ Park(f) \/ Close(f) \/ IoError(f) \/ Write(f)
           \/ BeginPoll(f)
  PROVE  Fields(e, con[e], con'[e])
<1> DEFINE c == con[f]
<1>0. Types /\ c \in Con /\ LastProcessed(f) \in Nat
  BY ConOf, LastTypes DEF Based
<1>1. CASE con' = con
  BY <1>1, FieldsSame
<1>2. CASE Complete(f) \/ Flushing(f) \/ Write(f)
  BY <1>1, <1>2 DEF Complete, Flushing, Write
<1>3. CASE Park(f) \/ BeginPoll(f)
  <2> DEFINE d == GoAwayNow(c, GoAwayFrame(LastProcessed(f), "NO_ERROR"))
  <2>1. con' = con \/ con' = [con EXCEPT ![f] = d]
    BY <1>3 DEF Park, BeginPoll
  <2>2. Fields(f, c, d)
    BY <1>0, FieldsNow DEF Reason
  <2> HIDE DEF d
  <2> QED BY <1>0, <1>1, <2>1, <2>2, FieldsMove
<1>4. CASE Close(f) \/ IoError(f)
  <2> DEFINE x == IF c.user = None THEN None ELSE "closed"
  <2>1. con' = [con EXCEPT ![f] = [c EXCEPT !.state = "Closed", !.user = x]]
    BY <1>4 DEF Close, IoError, Dropped
  <2> HIDE DEF x
  <2> QED BY <1>0, <2>1, FieldsOther, FieldsMove
<1> QED BY <1>2, <1>3, <1>4

(* What the users may change.                                                *)
LEMMA FieldsUse ==
  ASSUME Based, NEW e \in End, Use
  PROVE  Fields(e, con[e], con'[e])
<1>0. Types /\ \A f \in End : con[f] \in Con
  BY ConOf DEF Based
<1>1. CASE SendRequest \/ \E id \in Id : Respond(id)
  BY <1>1, FieldsSame DEF SendRequest, Respond
<1>2. CASE DropHandles
  <2>1. con' = [con EXCEPT !["client"] = [con["client"] EXCEPT !.handles = FALSE]]
    BY <1>2 DEF DropHandles
  <2>2. "client" \in End
    BY DEF End
  <2> QED BY <1>0, <2>1, <2>2, FieldsOther, FieldsMove
<1>3. CASE GracefulShutdown
  <2> DEFINE c == con["server"]
             x == GoAwayFrame(MaxStreamId, "NO_ERROR")
             d == [SetGoAway(c, x) EXCEPT !.pending_ping = [sent |-> FALSE]]
  <2>1. con' = [con EXCEPT !["server"] = d] /\ x.reason = "NO_ERROR"
    BY <1>3 DEF GracefulShutdown, GoAwayFrame
  <2> HIDE DEF x
  <2>2. /\ d.remote = c.remote /\ d.local = c.local /\ d.error = c.error /\ d.state = c.state
        /\ d.pending = x /\ d.going_away = x /\ d.why = c.why
    <3>1. c \in Con
      BY <1>0 DEF End
    <3> QED BY <3>1 DEF Con, SetGoAway
  <2> HIDE DEF d
  <2>3. Fields("server", c, d)
    BY <2>1, <2>2 DEF Fields
  <2> QED BY <1>0, <2>1, <2>3, FieldsMove DEF End
<1>4. ASSUME NEW reason \in {"NO_ERROR", "PROTOCOL_ERROR"}, AbruptShutdown(reason)
      PROVE  Fields(e, con[e], con'[e])
  <2> DEFINE c == con["server"]
             d == [c EXCEPT !.is_user = TRUE]
             g == GoAwayNow(d, GoAwayFrame(LastProcessed("server"), reason))
  <2>1. con' = [con EXCEPT !["server"] = g]
    BY <1>4 DEF AbruptShutdown
  <2>2. c \in Con /\ LastProcessed("server") \in Nat
    BY <1>0, LastTypes DEF End
  <2>3. /\ d \in Con /\ d.remote = c.remote /\ d.local = c.local /\ d.error = c.error
        /\ d.state = c.state /\ d.pending = c.pending /\ d.going_away = c.going_away
        /\ d.why = c.why
    BY <2>2 DEF Con
  <2>4. Trouble("server") /\ reason \in Reason
    BY <1>4 DEF Trouble, Reason
  <2> HIDE DEF d
  <2>5. Fields("server", c, g)
    BY <2>2, <2>3, <2>4, FieldsNow
  <2> HIDE DEF g
  <2> QED BY <1>0, <2>1, <2>5, FieldsMove DEF End
<1>5. ASSUME NEW f \in End, UserPing(f) \/ PollPong(f) PROVE Fields(e, con[e], con'[e])
  <2>1. \/ con' = [con EXCEPT ![f] = [con[f] EXCEPT !.user = "pending_ping", !.ping_task = FALSE]]
        \/ con' = [con EXCEPT ![f] = [con[f] EXCEPT !.user = "empty"]]
    BY <1>5 DEF UserPing, PollPong
  <2> QED BY <1>0, <2>1, FieldsOther, FieldsMove
<1>6. ASSUME NEW f \in End, NEW w \in history.scope.windows, SetWindow(f, w)
      PROVE  Fields(e, con[e], con'[e])
  <2> DEFINE c == con[f]
             d == [c EXCEPT !.local = <<"ToSend", w>>]
  <2>1. con' = [con EXCEPT ![f] = d]
    BY <1>6 DEF SetWindow
  <2>2. /\ d.remote = c.remote /\ d.error = c.error /\ d.state = c.state
        /\ d.pending = c.pending /\ d.going_away = c.going_away /\ d.why = c.why
    BY <1>0 DEF Con
  <2> HIDE DEF d
  <2>3. Fields(f, c, d)
    BY <1>6, <2>2 DEF Fields
  <2> QED BY <1>0, <2>1, <2>3, FieldsMove
<1> QED BY <1>1, <1>2, <1>3, <1>4, <1>5, <1>6 DEF Use

(* Each part of an end's control is changed by the steps of that part alone. *)
LEMMA FieldsStep ==
  ASSUME Based, [Next]_vars, NEW e \in End
  PROVE  Fields(e, con[e], con'[e])
<1>1. CASE UNCHANGED vars
  BY <1>1, FieldsSame DEF vars
<1> QED BY <1>1, FieldsPoll, FieldsReceive, FieldsEnd, FieldsUse DEF Next, Step, Fault

(* The identifiers of the server and what it announced of them.              *)
IdsOK ==
  /\ ids.last_processed <= ids.recv_max
  /\ con["server"].going_away # None =>
       /\ ids.last_processed <= con["server"].going_away.last
       /\ ~con["server"].close_now => con["server"].going_away.last = ids.recv_max

(* What was acknowledged, and what waits for it.                             *)
AcksOK ==
  \A e \in End :
    /\ history.acks[e] <= history.received[e]
    /\ con[e].remote # None /\ ~con[e].close_now /\ con[e].state = "Open" =>
         history.acks[e] + 1 <= history.received[e]

(* What was processed stays below what the GOAWAYs promise.                  *)
LEMMA IdsStep ==
  ASSUME Based, IdsOK, [Next]_vars
  PROVE  IdsOK'
<1> DEFINE c == con["server"]
           d == con'["server"]
<1>0. /\ Types /\ Controlled /\ c \in Con /\ Control("server", c, pc["server"])
      /\ Types' /\ d \in Con
  <2>1. Types' /\ Controlled'
    BY TypesStep, ControlStep DEF Based, Controlled, Control
  <2> QED BY <2>1 DEF Based, Controlled, End, Types
<1>1. /\ ids.last_processed \in Nat /\ ids.recv_max \in Nat /\ ids.last_processed <= MaxId
      /\ ids'.last_processed \in Nat /\ ids'.recv_max \in Nat /\ MaxId \in Nat
      /\ c.going_away # None => c.going_away.last \in Nat
      /\ d.close_now \in BOOLEAN /\ c.close_now \in BOOLEAN
  <2>1. /\ MaxId \in Nat /\ ids.last_processed \in 0..MaxId /\ ids.recv_max \in Nat
        /\ ids'.last_processed \in 0..MaxId /\ ids'.recv_max \in Nat
    BY <1>0, H2ConnectionAssumption DEF Types
  <2>2. /\ c.going_away \in GoAway \cup {None}
        /\ d.close_now \in BOOLEAN /\ c.close_now \in BOOLEAN
    BY <1>0 DEF Con
  <2> QED BY <2>1, <2>2 DEF GoAway
<1>2. pc["server"] = "recv" => ~c.close_now
  BY <1>0 DEF Control, Running
<1>3. Plan("server")
  BY PlanStep DEF End
<1> HIDE DEF c, d
<1>4. CASE SamePlan("server") /\ (SameIds \/ Accepts)
  BY <1>1, <1>2, <1>4 DEF SamePlan, SameIds, Accepts, IdsOK, Id, c, d
<1>5. CASE Now("server") /\ SameIds
  BY <1>1, <1>5 DEF Now, SameIds, IdsOK, LastProcessed, GoAwayFrame, c, d
<1>6. CASE Graceful
  BY <1>1, <1>6 DEF Graceful, IdsOK, GoAwayFrame, MaxStreamId, c, d
<1>7. CASE Final
  BY <1>1, <1>7 DEF Final, IdsOK, GoAwayFrame, c, d
<1> QED BY <1>3, <1>4, <1>5, <1>6, <1>7 DEF Plan

(* Who counts SETTINGS and their ACKs.                                       *)
LEMMA CountsStep ==
  ASSUME Types, [Next]_vars
  PROVE  \/ history'.acks = history.acks /\ history'.received = history.received
         \/ \E e \in End :
              \/ /\ SendAck(e) \/ FailAck(e)
                 /\ history'.acks = [history.acks EXCEPT ![e] = @ + 1]
                 /\ history'.received = history.received
              \/ /\ RecvSettings(e)
                 /\ history'.received = [history.received EXCEPT ![e] = @ + 1]
                 /\ history'.acks = history.acks
<1> DEFINE Stay == history'.acks = history.acks /\ history'.received = history.received
<1>0. history \in History
  BY DEF Types
<1>1. ASSUME NEW e \in End,
             PollGoAway(e) \/ SendPong(e) \/ SendPing(e)
               \/ SendSettings(e) \/ Complete(e) \/ Flushing(e) \/ Park(e) \/ Close(e)
               \/ IoError(e) \/ Write(e) \/ BeginPoll(e)
      PROVE  Stay
  BY <1>1 DEF PollGoAway, SendPong, SendPing, SendSettings, Complete,
       Flushing, Park, Close, IoError, Write, BeginPoll, Blocked, Unchanged
<1>2. ASSUME NEW e \in End,
             RecvAck(e) \/ RecvPing(e) \/ RecvPong(e) \/ RecvGoAway(e)
               \/ RecvBadFrame(e) \/ RecvHeaders \/ RecvEnd \/ RecvEof(e) \/ NoFrame(e)
      PROVE  Stay
  BY <1>0, <1>2 DEF RecvAck, RecvPing, RecvPong, RecvGoAway, RecvBadFrame,
       RecvHeaders, RecvEnd, RecvEof, NoFrame, Refuses, History
<1>3. CASE Use \/ UNCHANGED vars
  BY <1>0, <1>3 DEF Use, SendRequest, DropHandles, GracefulShutdown, Respond, AbruptShutdown,
       UserPing, PollPong, SetWindow, vars, History
<1>4. ASSUME NEW e \in End, SendAck(e) \/ FailAck(e), ~Stay
      PROVE  /\ history'.acks = [history.acks EXCEPT ![e] = @ + 1]
             /\ history'.received = history.received
  BY <1>0, <1>4 DEF SendAck, FailAck, Blocked, History
<1>5. ASSUME NEW e \in End, RecvSettings(e)
      PROVE  /\ history'.received = [history.received EXCEPT ![e] = @ + 1]
             /\ history'.acks = history.acks
  BY <1>0, <1>5 DEF RecvSettings, History
<1> QED BY <1>1, <1>2, <1>3, <1>4, <1>5 DEF Next, Step, Fault

(* An end that cannot apply the SETTINGS stops.                              *)
LEMMA FailStops ==
  ASSUME Based, NEW e \in End, FailAck(e)
  PROVE  con'[e].close_now \/ con'[e].state = "Closing"
<1> DEFINE c == con[e]
           x == GoAwayFrame(LastProcessed(e), "FLOW_CONTROL_ERROR")
<1>0. con \in [End -> Con] /\ c \in Con
  BY ConOf DEF Based, Types
<1>1. \/ con' = [con EXCEPT ![e] = [c EXCEPT !.state = "Closing",
                                             !.why = <<"FLOW_CONTROL_ERROR", "Library">>]]
      \/ con' = [con EXCEPT ![e] = GoAwayNow(c, x)]
  BY DEF FailAck, ConnectionError
<1> HIDE DEF x
<1>2. GoAwayNow(c, x).close_now
  BY <1>0 DEF GoAwayNow, SetGoAway, Con
<1>3. [c EXCEPT !.state = "Closing", !.why = <<"FLOW_CONTROL_ERROR", "Library">>].state = "Closing"
  BY <1>0 DEF Con
<1> QED BY <1>0, <1>1, <1>2, <1>3

(* SETTINGS that are not yet acknowledged are counted once.                  *)
LEMMA AcksStep ==
  ASSUME Based, AcksOK, [Next]_vars
  PROVE  AcksOK'
<1> SUFFICES ASSUME NEW e \in End
             PROVE  /\ history'.acks[e] <= history'.received[e]
                    /\ con'[e].remote # None /\ ~con'[e].close_now /\ con'[e].state = "Open" =>
                         history'.acks[e] + 1 <= history'.received[e]
  BY DEF AcksOK
<1> DEFINE c == con[e]
           d == con'[e]
           a == history.acks[e]
           r == history.received[e]
<1>0. Types /\ c \in Con /\ Control(e, c, pc[e]) /\ d \in Con /\ Types'
  <2>1. Types' /\ Controlled'
    BY TypesStep, ControlStep DEF Based, Controlled, Control
  <2> QED BY <2>1 DEF Based, Controlled, Types
<1>1. /\ history.acks \in [End -> Nat] /\ history.received \in [End -> Nat]
      /\ a \in Nat /\ r \in Nat /\ c.close_now \in BOOLEAN /\ d.close_now \in BOOLEAN
  BY <1>0 DEF Types, History, Con
<1>2. a <= r /\ (c.remote # None /\ ~c.close_now /\ c.state = "Open" => a + 1 <= r)
  BY DEF AcksOK
<1>3. ~d.close_now => ~c.close_now
  BY PlanStep, <1>1 DEF Plan, SamePlan, Now, Graceful, Final
<1>4. /\ d.remote # c.remote => RecvSettings(e) \/ SendAck(e)
      /\ d.state = "Open" => c.state = "Open"
  BY FieldsStep DEF Fields
<1>5. \A f \in End : \/ history'.acks[e] = a /\ history'.received[e] = r
                     \/ history'.acks[e] = a + 1 /\ history'.received[e] = r
                          /\ (SendAck(e) \/ FailAck(e))
                     \/ history'.acks[e] = a /\ history'.received[e] = r + 1
                          /\ RecvSettings(e)
  BY <1>0, <1>1, CountsStep
<1>6. ASSUME SendAck(e) \/ FailAck(e), history'.acks[e] = a + 1
      PROVE  a + 1 <= r
  <2>1. pc[e] = "ack" /\ c.remote # None
    <3>1. CASE FailAck(e)
      BY <3>1 DEF FailAck, At
    <3>2. CASE SendAck(e)
      <4>1. ~(history' = history)
        BY <1>1, <1>6
      <4> QED BY <3>2, <4>1 DEF SendAck, Blocked, At
    <3> QED BY <1>6, <3>1, <3>2
  <2>2. ~c.close_now /\ c.state = "Open"
    BY <1>0, <2>1 DEF Control, Running
  <2> QED BY <1>2, <2>1, <2>2
<1>7. ASSUME RecvSettings(e)
      PROVE  c.remote = None /\ history'.acks[e] = a /\ history'.received[e] = r + 1
  <2>1. history' = [history EXCEPT !.received = [history.received EXCEPT ![e] = r + 1]]
    BY <1>7 DEF RecvSettings
  <2>2. history'.acks = history.acks /\ history'.received = [history.received EXCEPT ![e] = r + 1]
    BY <1>0, <2>1 DEF Types, History
  <2> QED BY <1>0, <1>1, <1>7, <2>2 DEF RecvSettings, Reads, At, Control
<1>8. ASSUME SendAck(e), d.remote # c.remote \/ history'.acks[e] # a
      PROVE  d.remote = None
  <2>1. ~Blocked(e) /\ ~(history' = history /\ con' = con)
    <3>1. ~(history' = history /\ con' = con)
      BY <1>8
    <3> QED BY <3>1 DEF Blocked
  <2>2. con' = [con EXCEPT ![e] = [c EXCEPT !.remote = None]]
    BY <1>8, <2>1 DEF SendAck, Unchanged
  <2>3. [c EXCEPT !.remote = None].remote = None /\ con \in [End -> Con]
    BY <1>0 DEF Con, Types
  <2> QED BY <2>2, <2>3
<1>9. FailAck(e) => d.close_now \/ d.state # "Open"
  BY FailStops
<1>10. d.remote # c.remote => RecvSettings(e) \/ d.remote = None
  BY <1>4, <1>8
<1> HIDE DEF a, r, c, d
<1>11. CASE RecvSettings(e)
  BY <1>1, <1>2, <1>7, <1>11
<1>12. CASE ~RecvSettings(e) /\ history'.acks[e] = a /\ history'.received[e] = r
  BY <1>1, <1>2, <1>3, <1>4, <1>10, <1>12 DEF d
<1>13. CASE (SendAck(e) \/ FailAck(e)) /\ history'.acks[e] = a + 1 /\ history'.received[e] = r
  BY <1>1, <1>6, <1>8, <1>9, <1>13 DEF d, a, r
<1> QED BY <1>5, <1>11, <1>12, <1>13 DEF a, r, End

Safe == Based /\ Bounded /\ IdsOK /\ AcksOK

(* The inductive invariant of the connection.                                *)
LEMMA SafeInvariant == Spec => []Safe
<1>1. Init => Safe
  <2> SUFFICES ASSUME Init PROVE Safe
    OBVIOUS
  <2>1. Based
    BY TypesInit, ControlInit DEF Based
  <2>2. Room \in Nat \ {0}
    BY <2>1, ScopeOK DEF Based, Types
  <2>3. \A e \in End : con[e].remote = None /\ con[e].going_away = None
    <3>1. PICK scope \in Scopes : con = [e \in End |-> NewCon(e, scope)]
      BY Zenon DEF Init
    <3> QED BY <3>1 DEF NewCon
  <2>4. Bounded
    <3>1. \A e \in End : out[e] = <<Frame("settings", First[e])>> /\ pc[e] = "parked" /\ result[e] = None
      BY DEF Init
    <3>2. \A e \in End : Len(out[e]) = 1
      BY <3>1
    <3>3. Room >= 1
      BY <2>2
    <3>4. \A e \in End : Len(out[e]) <= Room
      BY <3>2, <3>3, <2>2
    <3> QED BY <3>1, <3>4 DEF Bounded
  <2>5. IdsOK
    BY <2>3, H2ConnectionAssumption DEF Init, IdsOK, MaxStreamId, End
  <2>6. AcksOK
    <3>1. history.acks = [e \in End |-> 0] /\ history.received = [e \in End |-> 0]
      BY DEF Init
    <3> QED BY <2>3, <3>1 DEF AcksOK
  <2> QED BY <2>1, <2>4, <2>5, <2>6 DEF Safe
<1>2. Safe /\ [Next]_vars => Safe'
  <2> SUFFICES ASSUME Safe, [Next]_vars PROVE Safe'
    OBVIOUS
  <2>1. Based'
    BY TypesStep, ControlStep DEF Safe, Based, Controlled, Control
  <2> QED BY <2>1, BoundedStep, IdsStep, AcksStep DEF Safe
<1> QED BY <1>1, <1>2, PTL DEF Spec

(* The invariant has the types the runs check.                               *)
LEMMA SafeTypes == Safe => TypeOK
<1> SUFFICES ASSUME Safe PROVE TypeOK
  OBVIOUS
<1>1. ASSUME NEW e \in End
      PROVE /\ con[e].state \in {"Open", "Closing", "Closed"}
            /\ con[e].local[1] \in {"ToSend", "WaitingAck", "Synced"}
            /\ con[e].remote \in Nat \cup {None}
            /\ con[e].user \in {None, "empty", "pending_ping", "pending_pong",
                                "received_pong", "closed"}
  <2>1. con[e] \in Con
    BY ConOf DEF Safe, Based
  <2>2. con[e].local[1] \in {"ToSend", "WaitingAck", "Synced"}
    <3>1. con[e].local \in ({"ToSend", "WaitingAck"} \X Nat) \cup {<<"Synced", None>>}
      BY <2>1 DEF Con
    <3> QED BY <3>1
  <2> QED BY <2>1, <2>2 DEF Con
<1>2. ASSUME NEW e \in End
      PROVE  /\ pc[e] \in Place /\ streams[e] \subseteq Id /\ result[e] \in Outcome \cup {None}
             /\ Len(out[e]) <= Room /\ (result[e] # None) = (pc[e] = "done")
  BY DEF Safe, Based, Types, Bounded
<1>3. woken \subseteq End
  BY DEF Safe, Based, Types
<1> QED BY <1>1, <1>2, <1>3 DEF TypeOK, Place

\* settings.rs, ping_pong.rs and go_away.rs: their assertions hold, and SETTINGS are
\* acknowledged once each, also when applying them fails behind the ACK.
THEOREM AnsweredAlways == Spec => []AnsweredInStep
<1>1. Safe => AnsweredInStep
  <2> SUFFICES ASSUME Safe PROVE AnsweredInStep
    OBVIOUS
  <2>1. Asserts
    <3> SUFFICES ASSUME NEW e \in End
                 PROVE  /\ pc[e] = "recv" => con[e].remote = None /\ con[e].pending_pong = None
                        /\ con[e].going_away = None => con[e].pending_ping = None
                        /\ con[e].going_away # None => LastProcessed(e) <= con[e].going_away.last
      BY DEF Asserts
    <3>1. Control(e, con[e], pc[e]) /\ con[e] \in Con
      BY ConOf DEF Safe, Based, Controlled
    <3>2. con[e].going_away # None => con[e].going_away.last \in Nat
      BY <3>1 DEF Con, GoAway
    <3>3. con[e].going_away # None => LastProcessed(e) <= con[e].going_away.last
      BY <3>2 DEF Safe, IdsOK, LastProcessed, End
    <3> QED BY <3>1, <3>3 DEF Control, Running
  <2>2. OneAckEach
    BY DEF Safe, AcksOK, OneAckEach
  <2> QED BY <2>1, <2>2, SafeTypes DEF AnsweredInStep
<1> QED BY <1>1, SafeInvariant, PTL

\* go_away.rs: the identifiers of the GOAWAY frames never grow, and none is left
\* unsent when the connection closes.
THEOREM GoAwayAlwaysOrderly == Spec => GoAwayOrderly
<1>1. Safe => GoAwayAnnounced
  BY DEF Safe, Based, Controlled, Control, GoAwayAnnounced
<1>2. Safe /\ Safe' /\ [Next]_vars =>
        [\A e \in End : con[e].going_away # None =>
           con'[e].going_away.last <= con[e].going_away.last]_vars
  <2> SUFFICES ASSUME Safe, [Next]_vars, NEW e \in End, con[e].going_away # None
               PROVE  con'[e].going_away.last <= con[e].going_away.last
    OBVIOUS
  <2>1. Types /\ Control(e, con[e], pc[e]) /\ con[e] \in Con
    BY ConOf DEF Safe, Based, Controlled
  <2>2. con[e].going_away.last \in Nat /\ ids.last_processed \in Nat
    BY <2>1, H2ConnectionAssumption DEF Con, GoAway, Types
  <2>3. LastProcessed(e) <= con[e].going_away.last
    BY <2>2 DEF Safe, IdsOK, LastProcessed, End
  <2>4. Plan(e)
    BY PlanStep DEF Safe
  <2>5. CASE SamePlan(e)
    BY <2>2, <2>5 DEF SamePlan
  <2>6. CASE Now(e)
    BY <2>3, <2>6 DEF Now, GoAwayFrame
  <2>7. CASE e = "server" /\ Graceful
    BY <2>7 DEF Graceful
  <2>8. CASE e = "server" /\ Final
    BY <2>3, <2>8 DEF Final, GoAwayFrame, LastProcessed
  <2> QED BY <2>4, <2>5, <2>6, <2>7, <2>8 DEF Plan
<1>3. Spec => [][Next]_vars
  BY DEF Spec
<1> QED BY <1>1, <1>2, <1>3, SafeInvariant, PTL DEF GoAwayOrderly, GoAwayNeverRises

-----------------------------------------------------------------------------
(* The frames on their way between the two ends.                             *)

(* How a step of either end moves the frames from e.                         *)
ControlFrame(f) == f.type \in {"settings", "ack", "ping", "pong"}

QueueKind(e) ==
  \/ queue'[e] = queue[e]
  \/ \E gone : queue'[e] = Without(queue[e], gone)
  \/ Complete(e)
  \/ e = "client" /\ SendRequest
  \/ e = "server" /\ \E id \in Id : Respond(id)

OutKind(e) ==
  \/ out'[e] = out[e]
  \/ \E f : /\ HasRoom(e) /\ out'[e] = Append(out[e], f)
            /\ \/ ControlFrame(f)
               \/ con[e].pending # None /\ f = Frame("go_away", con[e].pending)
  \/ Complete(e) \/ Write(e)
  \/ out'[e] = <<>>

WireKind(e) ==
  \/ wire'[e] = wire[e]
  \/ Write(e)
  \/ \E t : Reads(Other(e), t)

(* What makes a step that is neither a transfer nor a read or a use.         *)
Polls(f) ==
  \/ PollGoAway(f) \/ SendPong(f) \/ SendPing(f) \/ SendAck(f) \/ FailAck(f) \/ SendSettings(f)

Receives(f) ==
  \/ RecvSettings(f) \/ RecvAck(f) \/ RecvPing(f) \/ RecvPong(f) \/ RecvGoAway(f)
  \/ RecvBadFrame(f) \/ (f = "server" /\ RecvHeaders) \/ (f = "client" /\ RecvEnd)

Settles(f) ==
  \/ RecvEof(f) \/ NoFrame(f) \/ Flushing(f) \/ Park(f) \/ Close(f) \/ IoError(f) \/ BeginPoll(f)

(* The steps, by what they have in common.                                   *)
LEMMA NextKinds ==
  ASSUME [Next]_vars
  PROVE  \/ UNCHANGED vars \/ Use
         \/ \E f \in End : Polls(f) \/ Receives(f) \/ Settles(f) \/ Complete(f) \/ Write(f)
BY DEF Next, Step, Fault, Polls, Receives, Settles

(* A step of recv_frame reads a frame.                                       *)
LEMMA ReceivesReads ==
  ASSUME NEW f \in End, Receives(f)
  PROVE  \E t : Reads(f, t)
BY DEF Receives, RecvSettings, RecvAck, RecvPing, RecvPong, RecvGoAway, RecvBadFrame,
   RecvHeaders, RecvEnd

(* A step of the other end leaves the queue of e alone.                      *)
LEMMA OthersQueue ==
  ASSUME Types, NEW e \in End, NEW f \in End, e # f,
         Polls(f) \/ Receives(f) \/ Settles(f) \/ Complete(f) \/ Write(f)
  PROVE  queue'[e] = queue[e]
<1> DEFINE Stays == queue'[e] = queue[e]
<1>0. queue \in [End -> Seq(Queued)]
  BY DEF Types
<1>1. ASSUME NEW gone, AbortStreams(f, gone) PROVE Stays
  BY <1>0, <1>1 DEF AbortStreams
<1>2. ASSUME NEW c, NEW reason, ConnectionError(f, c, reason, "Library") PROVE Stays
  BY <1>1, <1>2 DEF ConnectionError
<1> HIDE DEF Stays
<1>3. queue' = queue => Stays
  BY DEF Stays
<1>4. ASSUME Polls(f) PROVE Stays
  BY <1>2, <1>3, <1>4 DEF Polls, PollGoAway, SendPong, SendPing, SendAck, FailAck, SendSettings,
     Blocked, Finished, Unchanged
<1>5. ASSUME Receives(f) PROVE Stays
  BY <1>1, <1>2, <1>3, <1>5 DEF Receives, RecvSettings, RecvAck, RecvPing, RecvPong, RecvGoAway,
     RecvBadFrame, RecvHeaders, RecvEnd, Refuses
<1>6. ASSUME Settles(f) PROVE Stays
  BY <1>1, <1>3, <1>6 DEF Settles, RecvEof, NoFrame, Flushing, Park, Close, IoError, BeginPoll
<1>7. ASSUME Complete(f) \/ Write(f) PROVE Stays
  BY <1>0, <1>7 DEF Complete, Write, Stays
<1> QED BY <1>4, <1>5, <1>6, <1>7 DEF Stays

(* How the queue of e changes.                                               *)
LEMMA QueueStep ==
  ASSUME Types, [Next]_vars, NEW e \in End
  PROVE  QueueKind(e)
<1> DEFINE Moves == queue'[e] = queue[e] \/ \E gone : queue'[e] = Without(queue[e], gone)
<1>0. queue \in [End -> Seq(Queued)]
  BY DEF Types
<1>1. ASSUME NEW gone, AbortStreams(e, gone) PROVE Moves
  BY <1>0, <1>1 DEF AbortStreams
<1>2. ASSUME NEW c, NEW reason, ConnectionError(e, c, reason, "Library") PROVE Moves
  BY <1>1, <1>2 DEF ConnectionError
<1> HIDE DEF Moves
<1>3. queue' = queue => Moves
  BY DEF Moves
<1>4. ASSUME Polls(e) PROVE Moves
  BY <1>2, <1>3, <1>4 DEF Polls, PollGoAway, SendPong, SendPing, SendAck, FailAck, SendSettings,
     Blocked, Finished, Unchanged
<1>5. ASSUME Receives(e) PROVE Moves
  BY <1>1, <1>2, <1>3, <1>5 DEF Receives, RecvSettings, RecvAck, RecvPing, RecvPong, RecvGoAway,
     RecvBadFrame, RecvHeaders, RecvEnd, Refuses
<1>6. ASSUME Settles(e) PROVE Moves
  BY <1>1, <1>3, <1>6 DEF Settles, RecvEof, NoFrame, Flushing, Park, Close, IoError, BeginPoll
<1>7. ASSUME Write(e) \/ UNCHANGED vars PROVE Moves
  BY <1>3, <1>7 DEF Write, vars
<1>8. CASE Use
  <2>1. CASE SendRequest \/ \E id \in Id : Respond(id)
    BY <1>0, <2>1 DEF SendRequest, Respond, QueueKind, End
  <2>2. CASE \E reason \in {"NO_ERROR", "PROTOCOL_ERROR"} : AbruptShutdown(reason)
    <3>1. AbortStreams("server", Id)
      BY <2>2 DEF AbruptShutdown
    <3>2. CASE e = "server"
      BY <1>1, <3>1, <3>2 DEF QueueKind, Moves
    <3>3. CASE e # "server"
      BY <1>0, <3>1, <3>3 DEF QueueKind, AbortStreams
    <3> QED BY <3>2, <3>3
  <2>3. CASE \/ DropHandles \/ GracefulShutdown
             \/ \E f \in End : UserPing(f) \/ PollPong(f)
                                 \/ \E w \in history.scope.windows : SetWindow(f, w)
    BY <2>3 DEF DropHandles, GracefulShutdown, UserPing, PollPong, SetWindow, QueueKind
  <2> QED BY <1>8, <2>1, <2>2, <2>3 DEF Use
<1>9. ASSUME NEW f \in End, e # f,
             Polls(f) \/ Receives(f) \/ Settles(f) \/ Complete(f) \/ Write(f)
      PROVE  QueueKind(e)
  BY <1>9, OthersQueue DEF QueueKind
<1>10. Moves \/ Complete(e) => QueueKind(e)
  BY DEF QueueKind, Moves
<1> QED BY <1>4, <1>5, <1>6, <1>7, <1>8, <1>9, <1>10, NextKinds

(* How the codec of e changes.                                               *)
LEMMA OutKinds ==
  ASSUME Types, [Next]_vars, NEW e \in End
  PROVE  OutKind(e)
<1>0. out \in [End -> Seq(Frames)]
  BY DEF Types
<1> DEFINE Puts(f, g) == /\ HasRoom(f) /\ out' = [out EXCEPT ![f] = Append(@, g)]
                         /\ \/ ControlFrame(g)
                            \/ con[f].pending # None /\ g = Frame("go_away", con[f].pending)
<1>1. ASSUME NEW f \in End, Polls(f) PROVE out' = out \/ \E g : Puts(f, g)
  <2>1. CASE out' = out
    BY <2>1
  <2>2. CASE PollGoAway(f) /\ out' # out
    <3>1. /\ con[f].pending # None /\ HasRoom(f)
          /\ out' = [out EXCEPT ![f] = Append(@, Frame("go_away", con[f].pending))]
      BY <2>2, Zenon DEF PollGoAway, Blocked
    <3> QED BY <3>1
  <2>3. CASE (SendPong(f) \/ SendPing(f)) /\ out' # out
    <3>1. \E g : /\ HasRoom(f) /\ out' = [out EXCEPT ![f] = Append(@, g)]
                 /\ \E x : g = Frame("pong", x) \/ g = Frame("ping", x)
      BY <2>3, Zenon DEF SendPong, SendPing, Blocked
    <3>2. \A x : ControlFrame(Frame("pong", x)) /\ ControlFrame(Frame("ping", x))
      BY DEF ControlFrame, Frame
    <3> QED BY <3>1, <3>2
  <2>4. CASE (SendAck(f) \/ FailAck(f) \/ SendSettings(f)) /\ out' # out
    <3>1. \E g : /\ HasRoom(f) /\ out' = [out EXCEPT ![f] = Append(@, g)]
                 /\ \E x : g = Frame("ack", x) \/ g = Frame("settings", x)
      BY <2>4, Zenon DEF SendAck, FailAck, SendSettings, Blocked, Buffer
    <3>2. \A x : ControlFrame(Frame("ack", x)) /\ ControlFrame(Frame("settings", x))
      BY DEF ControlFrame, Frame
    <3> QED BY <3>1, <3>2
  <2> QED BY <1>1, <2>1, <2>2, <2>3, <2>4 DEF Polls
<1>2. ASSUME NEW f \in End, NEW g, Puts(f, g) PROVE OutKind(e)
  <2>1. CASE e = f
    BY <1>0, <1>2, <2>1 DEF OutKind
  <2>2. CASE e # f
    BY <1>0, <1>2, <2>2 DEF OutKind
  <2> QED BY <2>1, <2>2
<1> HIDE DEF Puts
<1>3. out' = out => OutKind(e)
  BY DEF OutKind
<1>4. ASSUME NEW f \in End, Receives(f) \/ Settles(f) PROVE out' = out \/ IoError(f)
  BY <1>4 DEF Receives, RecvSettings, RecvAck, RecvPing, RecvPong, RecvGoAway,
     RecvBadFrame, RecvHeaders, RecvEnd, Refuses, Settles, RecvEof, NoFrame, Flushing, Park,
     Close, BeginPoll
<1>5. CASE Use \/ UNCHANGED vars
  <2>1. out' = out
    BY <1>5 DEF Use, SendRequest, DropHandles, GracefulShutdown, Respond, AbruptShutdown,
         UserPing, PollPong, SetWindow, vars
  <2> QED BY <1>3, <2>1
<1>6. ASSUME NEW f \in End, Complete(f) \/ Write(f) \/ IoError(f) PROVE OutKind(e)
  <2>1. CASE e = f
    BY <1>0, <1>6, <2>1 DEF OutKind, IoError
  <2>2. CASE e # f
    <3>1. out'[e] = out[e]
      BY <1>0, <1>6, <2>2 DEF Complete, Write, IoError, Buffer
    <3> QED BY <3>1 DEF OutKind
  <2> QED BY <2>1, <2>2
<1> QED BY <1>1, <1>2, <1>3, <1>4, <1>5, <1>6, NextKinds

(* How the wire of e changes.                                                *)
LEMMA WireKinds ==
  ASSUME Types, [Next]_vars, NEW e \in End
  PROVE  WireKind(e)
<1>0. wire \in [End -> Seq(Frames)]
  BY DEF Types
<1>1. CASE wire' = wire
  BY <1>1 DEF WireKind
<1>2. ASSUME NEW f \in End, Polls(f) \/ Settles(f) \/ Complete(f) PROVE wire' = wire
  BY <1>2 DEF Polls, PollGoAway, SendPong, SendPing, SendAck, FailAck, SendSettings,
     Blocked, Finished, Unchanged, Settles, RecvEof, NoFrame, Flushing, Park, Close, IoError,
     BeginPoll, Complete
<1>3. Use \/ UNCHANGED vars => wire' = wire
  BY DEF Use, SendRequest, DropHandles, GracefulShutdown, Respond, AbruptShutdown,
       UserPing, PollPong, SetWindow, vars
<1>4. ASSUME NEW f \in End, Receives(f) PROVE WireKind(e)
  <2>1. PICK t : Reads(f, t)
    BY <1>4, ReceivesReads
  <2>2. CASE f = Other(e)
    BY <2>1, <2>2 DEF WireKind
  <2>3. CASE f # Other(e)
    BY <1>0, <2>1, <2>3 DEF WireKind, Reads, Other, End
  <2> QED BY <2>2, <2>3
<1>5. ASSUME NEW f \in End, Write(f) PROVE WireKind(e)
  <2>1. CASE e = f
    BY <1>5, <2>1 DEF WireKind
  <2>2. CASE e # f
    <3>1. wire'[e] = wire[e]
      BY <1>0, <1>5, <2>2 DEF Write
    <3> QED BY <3>1 DEF WireKind
  <2> QED BY <2>1, <2>2
<1> QED BY <1>1, <1>2, <1>3, <1>4, <1>5, NextKinds

(* The HEADERS of s have ascending identifiers, from lo on and below hi.     *)
Rising(s, lo, hi) ==
  /\ \A i \in 1..Len(s) : s[i].type = "headers" => lo <= s[i].arg[1] /\ s[i].arg[1] < hi
  /\ \A i, j \in 1..Len(s) :
       i < j /\ s[i].type = "headers" /\ s[j].type = "headers" => s[i].arg[1] < s[j].arg[1]

(* HEADERS carry an identifier.                                              *)
LEMMA HeadersIds ==
  ASSUME NEW f \in Frames, f.type = "headers"
  PROVE  f.arg[1] \in Id /\ f.arg[1] \in Nat
<1>1. f.arg \in Id \X Nat
  BY FrameTypes
<1>2. Id \subseteq Nat
  BY DEF Id
<1> QED BY <1>1, <1>2

(* The HEADERS behind the first of an ascending sequence are above it.       *)
LEMMA RisingTail ==
  ASSUME NEW s \in Seq(Frames), s # <<>>, NEW lo \in Nat, NEW hi \in Nat, Rising(s, lo, hi)
  PROVE  /\ Rising(Tail(s), lo, hi)
         /\ Head(s).type = "headers" =>
              /\ lo <= Head(s).arg[1] /\ Head(s).arg[1] < hi
              /\ Rising(Tail(s), Head(s).arg[1] + 1, hi)
<1> DEFINE r == Tail(s)
<1>1. /\ Len(s) \in Nat /\ Len(r) = Len(s) - 1 /\ Head(s) = s[1] /\ 1 \in 1..Len(s)
      /\ \A i \in 1..Len(r) : i + 1 \in 1..Len(s) /\ r[i] = s[i + 1] /\ 1 < i + 1
      /\ Len(r) \in Nat
  OBVIOUS
<1>2. \A i \in 1..Len(s) : s[i].type = "headers" => s[i].arg[1] \in Nat
  BY HeadersIds, ElementOfSeq
<1> HIDE DEF r
<1>3. \A i, j \in 1..Len(r) : i < j => i + 1 < j + 1
  BY <1>1
<1>4. Rising(r, lo, hi)
  BY <1>1, <1>3, ZenonT(60) DEF Rising
<1>5. ASSUME Head(s).type = "headers"
      PROVE  /\ lo <= Head(s).arg[1] /\ Head(s).arg[1] < hi
             /\ Rising(r, Head(s).arg[1] + 1, hi)
  <2> DEFINE n == s[1].arg[1]
  <2>1. n \in Nat /\ lo <= n /\ n < hi
    BY <1>1, <1>2, <1>5 DEF Rising
  <2>2. \A i \in 1..Len(r) : r[i].type = "headers" => n < r[i].arg[1] /\ r[i].arg[1] \in Nat
    BY <1>1, <1>2, <1>5 DEF Rising
  <2> HIDE DEF n
  <2>3. \A i \in 1..Len(r) : r[i].type = "headers" => n + 1 <= r[i].arg[1]
    BY <2>1, <2>2
  <2>4. Rising(r, n + 1, hi)
    BY <1>4, <2>3 DEF Rising
  <2> QED BY <1>1, <2>1, <2>4 DEF n
<1> QED BY <1>4, <1>5 DEF r

(* A frame at the end of an ascending sequence.                              *)
LEMMA RisingAppend ==
  ASSUME NEW s \in Seq(Frames), NEW f \in Frames, NEW lo \in Nat, NEW hi \in Nat,
         Rising(s, lo, hi)
  PROVE  /\ f.type # "headers" => Rising(Append(s, f), lo, hi)
         /\ f.type = "headers" /\ lo <= f.arg[1] /\ hi <= f.arg[1] =>
              Rising(Append(s, f), lo, f.arg[1] + 1)
<1> DEFINE r == Append(s, f)
           l == Len(s)
<1>1. /\ l \in Nat /\ Len(r) = l + 1 /\ r[l + 1] = f
      /\ \A i \in 1..l : r[i] = s[i]
  OBVIOUS
<1>2. \A i \in 1..(l + 1) : i = l + 1 \/ (i \in 1..l /\ i < l + 1)
  BY <1>1
<1>3. \A i \in 1..l : s[i].type = "headers" => s[i].arg[1] \in Nat
  BY HeadersIds, ElementOfSeq
<1>7. \A i \in 1..(l + 1) : ~(l + 1 < i)
  BY <1>1
<1> HIDE DEF r
<1>4. CASE f.type # "headers"
  BY <1>1, <1>2, <1>4 DEF Rising, r, l
<1>5. CASE f.type = "headers"
  <2> DEFINE n == f.arg[1]
  <2>1. n \in Nat
    BY <1>5, HeadersIds
  <2>2. ASSUME lo <= n, hi <= n PROVE Rising(r, lo, n + 1)
    <3>1. \A i \in 1..l : s[i].type = "headers" =>
            lo <= s[i].arg[1] /\ s[i].arg[1] < n /\ s[i].arg[1] < n + 1
      BY <1>3, <2>1, <2>2 DEF Rising
    <3>2. n < n + 1
      BY <2>1
    <3>3. \A i \in 1..Len(r) : r[i].type = "headers" => lo <= r[i].arg[1] /\ r[i].arg[1] < n + 1
      BY <1>1, <1>2, <2>2, <3>1, <3>2
    <3>4. \A i, j \in 1..Len(r) :
            i < j /\ r[i].type = "headers" /\ r[j].type = "headers" => r[i].arg[1] < r[j].arg[1]
      <4> SUFFICES ASSUME NEW i \in 1..(l + 1), NEW j \in 1..(l + 1), i < j,
                          r[i].type = "headers", r[j].type = "headers"
                   PROVE  r[i].arg[1] < r[j].arg[1]
        BY <1>1
      <4>1. i \in 1..l
        BY <1>2, <1>7
      <4>2. CASE j = l + 1
        BY <1>1, <3>1, <4>1, <4>2
      <4>3. CASE j \in 1..l
        BY <1>1, <4>1, <4>3 DEF Rising
      <4> QED BY <1>2, <4>2, <4>3
    <3> QED BY <3>3, <3>4 DEF Rising
  <2> QED BY <1>5, <2>2 DEF r
<1> QED BY <1>4, <1>5 DEF r

(* Frames that are taken out leave the others in order.                      *)
LEMMA RisingKept ==
  ASSUME NEW s \in Seq(Frames), NEW r \in Seq(Frames), NEW n \in Nat, n = Len(s),
         NEW lo, NEW hi, Rising(s, lo, hi), NEW h, Picks(r, s, n, h)
  PROVE  Rising(r, lo, hi)
<1>1. \A i \in 1..Len(r) : h[i] \in 1..Len(s) /\ r[i] = s[h[i]]
  BY DEF Picks
<1>2. \A i, j \in 1..Len(r) : i < j => h[i] < h[j]
  BY DEF Picks
<1>3. ASSUME NEW i \in 1..Len(r), r[i].type = "headers"
      PROVE  lo <= r[i].arg[1] /\ r[i].arg[1] < hi
  <2>1. h[i] \in 1..Len(s) /\ s[h[i]].type = "headers" /\ r[i].arg[1] = s[h[i]].arg[1]
    BY <1>1, <1>3
  <2> QED BY <2>1 DEF Rising
<1>4. ASSUME NEW i \in 1..Len(r), NEW j \in 1..Len(r), i < j,
             r[i].type = "headers", r[j].type = "headers"
      PROVE  r[i].arg[1] < r[j].arg[1]
  <2>1. /\ h[i] \in 1..Len(s) /\ s[h[i]].type = "headers" /\ r[i].arg[1] = s[h[i]].arg[1]
        /\ h[j] \in 1..Len(s) /\ s[h[j]].type = "headers" /\ r[j].arg[1] = s[h[j]].arg[1]
        /\ h[i] < h[j]
    BY <1>1, <1>2, <1>4
  <2> QED BY <2>1 DEF Rising
<1> QED BY <1>3, <1>4 DEF Rising

(* So do those of streams that end.                                          *)
LEMMA RisingWithout ==
  ASSUME NEW s \in Seq(Queued), NEW gone, NEW lo, NEW hi, Rising(s, lo, hi)
  PROVE  Rising(Without(s, gone), lo, hi)
<1>1. Without(s, gone) \in Seq(Queued) /\ Kept(Without(s, gone), s, gone, Len(s))
  BY WithoutKeeps
<1>2. Queued \subseteq Frames
  BY DEF Frames
<1>3. s \in Seq(Frames) /\ Without(s, gone) \in Seq(Frames) /\ Len(s) \in Nat
  BY <1>1, <1>2
<1>4. PICK h : Picks(Without(s, gone), s, Len(s), h)
  BY <1>1 DEF Kept
<1> QED BY <1>3, <1>4, RisingKept

(* The GOAWAY frames of s do not say less than c does.                       *)
Announces(s, c) ==
  \A i \in 1..Len(s) : s[i].type = "go_away" => c # None /\ c.last <= s[i].arg.last

(* A frame at the end of what announces c.                                   *)
LEMMA AnnouncesAppend ==
  ASSUME NEW S, NEW s \in Seq(S), NEW f, NEW c, Announces(s, c),
         f.type = "go_away" => c # None /\ c.last <= f.arg.last
  PROVE  Announces(Append(s, f), c)
<1> DEFINE r == Append(s, f)
<1>1. /\ Len(s) \in Nat /\ Len(r) = Len(s) + 1
  OBVIOUS
<1>2. \A i \in 1..(Len(s) + 1) : r[i] = f \/ (i \in 1..Len(s) /\ r[i] = s[i])
  OBVIOUS
<1> HIDE DEF r
<1>3. Announces(r, c)
  BY <1>1, <1>2 DEF Announces
<1> QED BY <1>3 DEF r

(* What announces c does so behind its first frame.                          *)
LEMMA AnnouncesTail ==
  ASSUME NEW S, NEW s \in Seq(S), s # <<>>, NEW c, Announces(s, c)
  PROVE  /\ Announces(Tail(s), c)
         /\ Head(s).type = "go_away" => c # None /\ c.last <= Head(s).arg.last
<1> DEFINE r == Tail(s)
<1>1. /\ Head(s) = s[1] /\ 1 \in 1..Len(s)
      /\ \A i \in 1..Len(r) : i + 1 \in 1..Len(s) /\ r[i] = s[i + 1]
  OBVIOUS
<1> HIDE DEF r
<1>2. Announces(r, c)
  BY <1>1 DEF Announces
<1> QED BY <1>1, <1>2 DEF Announces, r

(* What announces c announces what c falls to.                               *)
LEMMA AnnouncesLess ==
  ASSUME NEW s \in Seq(Frames), NEW c, NEW d, Announces(s, c),
         c # None => c.last \in Nat /\ d # None /\ d.last \in Nat /\ d.last <= c.last
  PROVE  Announces(s, d)
<1>1. \A i \in 1..Len(s) : s[i].type = "go_away" => s[i].arg.last \in Nat
  <2> SUFFICES ASSUME NEW i \in 1..Len(s), s[i].type = "go_away" PROVE s[i].arg.last \in Nat
    OBVIOUS
  <2>1. s[i] \in Frames
    BY ElementOfSeq
  <2> QED BY <2>1, FrameTypes DEF GoAway
<1> QED BY <1>1 DEF Announces

(* The requests on their way have ascending identifiers, above what the      *)
(* server has processed and below the next.                                  *)
RoadOK ==
  \E a, b \in Nat :
    /\ ids.last_processed < a /\ a <= b /\ b <= ids.next
    /\ Rising(wire["client"], ids.last_processed + 1, a)
    /\ Rising(out["client"], a, b)
    /\ Rising(queue["client"], b, ids.next)

(* Who was processed, given up, and what the server has said about it.       *)
AbortOK ==
  LET c == con["server"].going_away
  IN  /\ history.processed \subseteq 1..ids.last_processed
      /\ \A id \in history.aborted : c # None /\ c.last < id
      /\ Announces(wire["server"], c) /\ Announces(out["server"], c)

(* Only HEADERS that are not ignored raise what was processed.               *)
LEMMA ProcessStep ==
  ASSUME Types, [Next]_vars
  PROVE  \/ ids'.last_processed = ids.last_processed /\ history'.processed = history.processed
         \/ /\ Reads("server", "headers") /\ ids'.last_processed = Arg("server")[1]
            /\ history'.processed = history.processed \cup {Arg("server")[1]}
            /\ ~Ignores(Arg("server")[1]) /\ queue' = queue /\ out' = out
            /\ streams' = [streams EXCEPT !["server"] = @ \cup {Arg("server")[1]}]
<1> DEFINE Stay == /\ ids'.last_processed = ids.last_processed
                   /\ history'.processed = history.processed
<1>0. /\ history \in History
      /\ ids \in [last_processed : 0..MaxId, recv_max : Nat, next : 1..(MaxId + 1), send_max : Nat]
  BY DEF Types
<1>1. ASSUME NEW f \in End, Polls(f) \/ Settles(f) \/ Complete(f) \/ Write(f) PROVE Stay
  <2>1. ids' = ids
    BY <1>1 DEF Polls, PollGoAway, SendPong, SendPing, SendAck, FailAck, SendSettings,
     Blocked, Finished, Unchanged, Settles, RecvEof, NoFrame, Flushing, Park, Close, IoError,
     BeginPoll, Complete, Write
  <2>2. history'.processed = history.processed
    BY <1>0, <1>1 DEF Polls, PollGoAway, SendPong, SendPing, SendAck, FailAck, SendSettings,
     Blocked, Finished, Unchanged, Settles, RecvEof, NoFrame, Flushing, Park, Close, IoError,
     BeginPoll, Complete, Write, History
  <2> QED BY <2>1, <2>2
<1>2. CASE Use \/ UNCHANGED vars
  <2>1. ids' = ids \/ (\E x : ids' = [ids EXCEPT !.next = x] \/ ids' = [ids EXCEPT !.recv_max = x])
    BY <1>2 DEF Use, SendRequest, DropHandles, GracefulShutdown, Respond, AbruptShutdown,
       UserPing, PollPong, SetWindow, vars
  <2>2. history' = history \/ (\E x : history' = [history EXCEPT !.changes = x]
                                 \/ history' = [history EXCEPT !.pings = x])
    BY <1>2 DEF Use, SendRequest, DropHandles, GracefulShutdown, Respond, AbruptShutdown,
       UserPing, PollPong, SetWindow, vars
  <2> QED BY <1>0, <2>1, <2>2 DEF History
<1>3. ASSUME NEW f \in End, RecvSettings(f) \/ RecvAck(f) \/ RecvPing(f) \/ RecvPong(f)
                              \/ RecvGoAway(f) \/ RecvBadFrame(f) \/ RecvEnd
      PROVE  Stay
  <2>1. ids' = ids \/ (\E x : ids' = [ids EXCEPT !.send_max = x] \/ ids' = [ids EXCEPT !.recv_max = x])
    BY <1>3 DEF RecvSettings, RecvAck, RecvPing, RecvPong, RecvGoAway, RecvBadFrame, RecvEnd, Refuses
  <2>2. history'.processed = history.processed
    BY <1>0, <1>3 DEF RecvSettings, RecvAck, RecvPing, RecvPong, RecvGoAway, RecvBadFrame,
       RecvEnd, Refuses, History
  <2> QED BY <1>0, <2>1, <2>2
<1>4. ASSUME RecvHeaders
      PROVE  Stay \/ (/\ Reads("server", "headers") /\ ids'.last_processed = Arg("server")[1]
                      /\ history'.processed = history.processed \cup {Arg("server")[1]}
                      /\ ~Ignores(Arg("server")[1]) /\ queue' = queue /\ out' = out
                      /\ streams' = [streams EXCEPT !["server"] = @ \cup {Arg("server")[1]}])
  <2>1. CASE ids' = ids /\ history' = history
    BY <2>1
  <2>2. CASE ~(ids' = ids /\ history' = history)
    <3>1. /\ Reads("server", "headers")
          /\ ids' = [ids EXCEPT !.last_processed = Arg("server")[1]]
          /\ history' = [history EXCEPT !.processed = @ \cup {Arg("server")[1]}]
          /\ ~Ignores(Arg("server")[1]) /\ queue' = queue /\ out' = out
          /\ streams' = [streams EXCEPT !["server"] = @ \cup {Arg("server")[1]}]
      BY <1>4, <2>2 DEF RecvHeaders, Refuses
    <3> QED BY <1>0, <3>1 DEF History
  <2> QED BY <2>1, <2>2
<1> QED BY <1>1, <1>2, <1>3, <1>4, NextKinds DEF Receives

(* Only a request takes an identifier.                                       *)
LEMMA NextIdStep ==
  ASSUME Types, [Next]_vars
  PROVE  ids'.next = ids.next \/ SendRequest
<1>0. ids \in [last_processed : 0..MaxId, recv_max : Nat, next : 1..(MaxId + 1), send_max : Nat]
  BY DEF Types
<1>1. ASSUME NEW f \in End, Polls(f) \/ Settles(f) \/ Complete(f) \/ Write(f) PROVE ids' = ids
  BY <1>1 DEF Polls, PollGoAway, SendPong, SendPing, SendAck, FailAck, SendSettings,
     Blocked, Finished, Unchanged, Settles, RecvEof, NoFrame, Flushing, Park, Close, IoError,
     BeginPoll, Complete, Write
<1>2. CASE Use \/ UNCHANGED vars
  <2>1. ids' = ids \/ SendRequest \/ (\E x : ids' = [ids EXCEPT !.recv_max = x])
    BY <1>2 DEF Use, DropHandles, GracefulShutdown, Respond, AbruptShutdown,
       UserPing, PollPong, SetWindow, vars
  <2> QED BY <1>0, <2>1
<1>3. ASSUME NEW f \in End, Receives(f) PROVE ids'.next = ids.next
  <2>1. ids' = ids \/ (\E x : ids' = [ids EXCEPT !.send_max = x] \/ ids' = [ids EXCEPT !.recv_max = x]
                         \/ ids' = [ids EXCEPT !.last_processed = x])
    BY <1>3 DEF Receives, RecvSettings, RecvAck, RecvPing, RecvPong, RecvGoAway, RecvBadFrame,
       RecvHeaders, RecvEnd, Refuses
  <2> QED BY <1>0, <2>1
<1> QED BY <1>1, <1>2, <1>3, NextKinds

(* The HEADERS on their way to the server ascend, above what it has taken.   *)
LEMMA RoadStep ==
  ASSUME Safe, RoadOK, [Next]_vars
  PROVE  RoadOK'
<1> DEFINE w == wire["client"]
           o == out["client"]
           q == queue["client"]
           p == ids.last_processed
           n == ids.next
<1>0. /\ Types /\ Types' /\ "client" \in End /\ "server" \in End /\ Other("client") = "server"
      /\ Other("server") = "client"
      /\ ids \in [last_processed : 0..MaxId, recv_max : Nat, next : 1..(MaxId + 1), send_max : Nat]
      /\ wire \in [End -> Seq(Frames)] /\ out \in [End -> Seq(Frames)]
      /\ queue \in [End -> Seq(Queued)]
  BY TypesStep DEF Safe, Based, Controlled, Control, End, Other, Types
<1>1. w \in Seq(Frames) /\ o \in Seq(Frames) /\ q \in Seq(Queued) /\ q \in Seq(Frames)
  <2>1. Queued \subseteq Frames
    BY DEF Frames
  <2> QED BY <1>0, <2>1
<1>2. p \in Nat /\ n \in Nat
  <2>1. MaxId \in Nat
    BY H2ConnectionAssumption
  <2>2. p \in 0..MaxId /\ n \in 1..(MaxId + 1)
    BY <1>0
  <2> QED BY <2>1, <2>2
<1>3. PICK a \in Nat, b \in Nat :
         /\ p < a /\ a <= b /\ b <= n
         /\ Rising(w, p + 1, a) /\ Rising(o, a, b) /\ Rising(q, b, n)
  BY DEF RoadOK
<1>4. ASSUME NEW c \in Nat, NEW d \in Nat, ids'.last_processed < c, c <= d, d <= ids'.next,
             Rising(wire'["client"], ids'.last_processed + 1, c),
             Rising(out'["client"], c, d), Rising(queue'["client"], d, ids'.next)
      PROVE  RoadOK'
  BY <1>4 DEF RoadOK
<1>5. CASE SendRequest
  <2> DEFINE f == Frame("headers", <<n, 0>>)
  <2>1. /\ wire'["client"] = w /\ out'["client"] = o /\ queue'["client"] = Append(q, f)
        /\ ids' = [ids EXCEPT !.next = n + 1] /\ n <= history.scope.requests
    BY <1>0, <1>5 DEF SendRequest
  <2>2. ids'.last_processed = p /\ ids'.next = n + 1
    BY <1>0, <2>1
  <2>3. n \in Id
    <3>1. history.scope.requests \in 0..MaxId /\ MaxId \in Nat
      BY <1>0, ScopeOK, H2ConnectionAssumption DEF Types
    <3>2. n \in 1..(MaxId + 1)
      BY <1>0
    <3> QED BY <2>1, <3>1, <3>2 DEF Id
  <2>4. f \in Frames /\ f.type = "headers" /\ f.arg[1] = n
    BY <2>3 DEF Frames, Queued, Frame
  <2> HIDE DEF f
  <2>5. Rising(Append(q, f), b, n + 1)
    BY <1>1, <1>2, <1>3, <2>4, RisingAppend
  <2>6. b <= n + 1
    BY <1>2, <1>3
  <2> QED BY <1>3, <1>4, <2>1, <2>2, <2>5, <2>6
<1>6. ASSUME ids'.last_processed = p, ids'.next = n, Write("client") PROVE RoadOK'
  <2> DEFINE f == Head(o)
             m == IF f.type = "headers" THEN f.arg[1] + 1 ELSE a
  <2>1. /\ o # <<>> /\ out'["client"] = Tail(o) /\ queue'["client"] = q
        /\ wire'["client"] = w \/ wire'["client"] = Append(w, f)
    BY <1>0, <1>6 DEF Write
  <2>2. f \in Frames
    BY <1>1, <2>1, HeadTailProperties
  <2>3. f.type = "headers" => f.arg[1] \in Nat
    BY <2>2, HeadersIds
  <2>4. /\ Rising(Tail(o), a, b)
        /\ f.type = "headers" =>
             a <= f.arg[1] /\ f.arg[1] < b /\ Rising(Tail(o), f.arg[1] + 1, b)
    BY <1>1, <1>3, <2>1, RisingTail
  <2>5. m \in Nat /\ a <= m /\ m <= b
    BY <1>3, <2>3, <2>4
  <2>6. Rising(Tail(o), m, b)
    BY <2>4
  <2>7. CASE wire'["client"] = w
    BY <1>3, <1>4, <1>6, <2>1, <2>4, <2>7
  <2>8. CASE wire'["client"] = Append(w, f)
    <3>1. p + 1 \in Nat /\ p + 1 <= a
      BY <1>2, <1>3
    <3>2. f.type = "headers" => p + 1 <= f.arg[1]
      BY <2>3, <2>4, <3>1, <1>3
    <3>3. Rising(Append(w, f), p + 1, m)
      BY <1>1, <1>3, <2>2, <2>4, <3>1, <3>2, RisingAppend
    <3>4. p < m
      BY <1>2, <1>3, <2>5
    <3> HIDE DEF m
    <3> QED BY <1>3, <1>4, <1>6, <2>1, <2>5, <2>6, <2>8, <3>3, <3>4
  <2> QED BY <2>1, <2>7, <2>8
<1>7. ASSUME ids'.last_processed = p, ids'.next = n, Complete("client") PROVE RoadOK'
  <2> DEFINE h == Head(q)
             f == Frame(h.type, <<h.arg[1], window["client"].sends>>)
             m == IF f.type = "headers" THEN f.arg[1] + 1 ELSE b
  <2>1. /\ q # <<>> /\ out'["client"] = Append(o, f) /\ queue'["client"] = Tail(q)
        /\ wire'["client"] = w
    BY <1>0, <1>7 DEF Complete, Buffer
  <2>2. h \in Queued /\ h \in Frames
    <3>1. h \in Queued
      BY <1>1, <2>1, HeadTailProperties
    <3> QED BY <3>1 DEF Frames
  <2>3. f \in Frames /\ f.type = h.type /\ f.arg[1] = h.arg[1]
    <3>1. window["client"].sends \in Nat
      BY <1>0 DEF Types
    <3>2. h.type \in {"headers", "end"} /\ h.arg[1] \in Id
      BY <2>2 DEF Queued
    <3> QED BY <3>1, <3>2 DEF Frames, Queued, Frame
  <2> HIDE DEF f, h
  <2>4. f.type = "headers" => f.arg[1] \in Nat
    BY <2>3, HeadersIds
  <2>5. /\ Rising(Tail(q), b, n)
        /\ f.type = "headers" =>
             b <= f.arg[1] /\ f.arg[1] < n /\ Rising(Tail(q), f.arg[1] + 1, n)
    BY <1>1, <1>2, <1>3, <2>1, <2>3, RisingTail DEF h
  <2>6. m \in Nat /\ b <= m /\ m <= n /\ Rising(Tail(q), m, n)
    BY <1>2, <1>3, <2>4, <2>5
  <2>7. f.type = "headers" => a <= f.arg[1]
    BY <1>3, <2>4, <2>5
  <2>8. Rising(Append(o, f), a, m)
    BY <1>1, <1>3, <2>3, <2>5, <2>7, RisingAppend
  <2>9. a <= m
    BY <1>3, <2>6
  <2> HIDE DEF m
  <2> QED BY <1>3, <1>4, <1>7, <2>1, <2>6, <2>8, <2>9
<1>8. CASE ~SendRequest /\ ~Write("client") /\ ~Complete("client")
  <2>1. ids'.next = n
    BY <1>0, <1>8, NextIdStep
  <2>2. Rising(queue'["client"], b, n)
    <3>1. queue'["client"] = q \/ \E gone : queue'["client"] = Without(q, gone)
      BY <1>0, <1>8, QueueStep DEF QueueKind
    <3> QED BY <1>1, <1>3, <3>1, RisingWithout
  <2>3. Rising(out'["client"], a, b)
    <3>1. OutKind("client")
      BY <1>0, OutKinds
    <3>2. CASE out'["client"] = o
      BY <1>3, <3>2
    <3>3. CASE out'["client"] = <<>>
      BY <3>3 DEF Rising
    <3>4. ASSUME NEW f, out'["client"] = Append(o, f), f.type # "headers"
          PROVE  Rising(out'["client"], a, b)
      <4>1. out'["client"] \in Seq(Frames) /\ Len(o) \in Nat
        BY <1>0, <1>1 DEF Types
      <4>2. f = Append(o, f)[Len(o) + 1] /\ Len(o) + 1 \in 1..Len(Append(o, f))
        BY <1>1, <4>1
      <4>3. f \in Frames
        BY <3>4, <4>1, <4>2, ElementOfSeq
      <4> QED BY <1>1, <1>3, <3>4, <4>3, RisingAppend
    <3>5. \A f, x : ControlFrame(f) \/ f = Frame("go_away", x) => f.type # "headers"
      BY DEF ControlFrame, Frame
    <3> QED BY <1>8, <3>1, <3>2, <3>3, <3>4, <3>5 DEF OutKind
  <2>4. CASE ids'.last_processed = p
    <3>1. wire'["client"] = w \/ (w # <<>> /\ wire'["client"] = Tail(w))
      BY <1>0, <1>8, WireKinds DEF WireKind, Reads
    <3>2. p + 1 \in Nat
      BY <1>2
    <3>3. Rising(wire'["client"], p + 1, a)
      BY <1>1, <1>3, <3>1, <3>2, RisingTail
    <3> QED BY <1>3, <1>4, <2>1, <2>2, <2>3, <2>4, <3>3
  <2>5. ASSUME Reads("server", "headers"), ids'.last_processed = Arg("server")[1] PROVE RoadOK'
    <3> DEFINE f == Head(w)
    <3>1. /\ w # <<>> /\ wire'["client"] = Tail(w) /\ f.type = "headers"
          /\ ids'.last_processed = f.arg[1]
      BY <1>0, <2>5 DEF Reads, Arg
    <3>2. f \in Frames
      BY <1>1, <3>1, HeadTailProperties
    <3>3. f.arg[1] \in Nat /\ p + 1 \in Nat
      BY <1>2, <3>1, <3>2, HeadersIds
    <3>4. f.arg[1] < a /\ Rising(Tail(w), f.arg[1] + 1, a)
      BY <1>1, <1>3, <3>1, <3>3, RisingTail
    <3> HIDE DEF f
    <3> QED BY <1>3, <1>4, <2>1, <2>2, <2>3, <3>1, <3>4
  <2> QED BY <1>0, <2>4, <2>5, ProcessStep
<1>9. Write("client") \/ Complete("client") => ids' = ids
  BY DEF Write, Complete
<1> QED BY <1>5, <1>6, <1>7, <1>8, <1>9

(* The identifier of a GOAWAY never grows.                                   *)
LEMMA LastFalls ==
  ASSUME Safe, [Next]_vars, NEW e \in End, con[e].going_away # None
  PROVE  /\ con[e].going_away.last \in Nat
         /\ con'[e].going_away # None /\ con'[e].going_away.last \in Nat
         /\ con'[e].going_away.last <= con[e].going_away.last
<1>1. Types /\ Control(e, con[e], pc[e]) /\ con[e] \in Con
  BY ConOf DEF Safe, Based, Controlled
<1>2. con[e].going_away.last \in Nat /\ ids.last_processed \in Nat
  BY <1>1, H2ConnectionAssumption DEF Con, GoAway, Types
<1>3. LastProcessed(e) <= con[e].going_away.last /\ LastProcessed(e) \in Nat
  BY <1>2 DEF Safe, IdsOK, LastProcessed, End
<1>4. Plan(e)
  BY PlanStep DEF Safe
<1>5. CASE SamePlan(e)
  BY <1>2, <1>5 DEF SamePlan
<1>6. CASE Now(e)
  BY <1>2, <1>3, <1>6, NoneIsNone DEF Now, GoAwayFrame
<1>7. CASE e = "server" /\ Graceful
  BY <1>7 DEF Graceful
<1>8. CASE e = "server" /\ Final
  <2>1. GoAwayFrame(ids.last_processed, "NO_ERROR") # None
    BY <1>2, NoneIsNone DEF Reason
  <2> QED BY <1>2, <1>3, <1>8, <2>1 DEF Final, GoAwayFrame, LastProcessed
<1> QED BY <1>4, <1>5, <1>6, <1>7, <1>8 DEF Plan

(* Only a GOAWAY makes the client give up requests.                          *)
LEMMA AbortedStep ==
  ASSUME Types, [Next]_vars
  PROVE  \/ history'.aborted = history.aborted
         \/ /\ Reads("client", "go_away")
            /\ history'.aborted \subseteq history.aborted \cup Above(Arg("client").last)
<1> DEFINE Stay == history'.aborted = history.aborted
<1>0. history \in History
  BY DEF Types
<1>1. ASSUME NEW f \in End, Polls(f) \/ Settles(f) \/ Complete(f) \/ Write(f) PROVE Stay
  BY <1>0, <1>1 DEF Polls, PollGoAway, SendPong, SendPing, SendAck, FailAck, SendSettings,
     Blocked, Finished, Unchanged, Settles, RecvEof, NoFrame, Flushing, Park, Close, IoError,
     BeginPoll, Complete, Write, History
<1>2. CASE Use \/ UNCHANGED vars
  <2>1. history' = history \/ (\E x : history' = [history EXCEPT !.changes = x]
                                 \/ history' = [history EXCEPT !.pings = x])
    BY <1>2 DEF Use, SendRequest, DropHandles, GracefulShutdown, Respond, AbruptShutdown,
       UserPing, PollPong, SetWindow, vars
  <2> QED BY <1>0, <2>1 DEF History
<1>3. ASSUME NEW f \in End, RecvSettings(f) \/ RecvAck(f) \/ RecvPing(f) \/ RecvPong(f)
                              \/ RecvHeaders \/ RecvBadFrame(f) \/ RecvEnd
      PROVE  Stay
  BY <1>0, <1>3 DEF RecvSettings, RecvAck, RecvPing, RecvPong, RecvHeaders, RecvBadFrame,
     RecvEnd, Refuses, History
<1>4. ASSUME NEW f \in End, RecvGoAway(f), ~Stay
      PROVE  /\ Reads("client", "go_away")
             /\ history'.aborted \subseteq history.aborted \cup Above(Arg("client").last)
  <2>1. history' # history
    BY <1>4
  <2>2. history' = [history EXCEPT !.aborted =
                      IF f = "client" THEN @ \cup (Above(Arg(f).last) \cap streams[f]) ELSE @]
    BY <1>4, <2>1 DEF RecvGoAway, Refuses
  <2>3. f = "client"
    BY <1>0, <1>4, <2>2 DEF History
  <2>4. history'.aborted = history.aborted \cup (Above(Arg("client").last) \cap streams["client"])
    BY <1>0, <2>2, <2>3 DEF History
  <2> QED BY <1>4, <2>3, <2>4 DEF RecvGoAway
<1> QED BY <1>1, <1>2, <1>3, <1>4, NextKinds DEF Receives

(* What is given up is above the last identifier of the server.              *)
LEMMA AbortStep ==
  ASSUME Safe, RoadOK, AbortOK, [Next]_vars
  PROVE  AbortOK'
<1> DEFINE c == con["server"].going_away
           d == con'["server"].going_away
           w == wire["server"]
           o == out["server"]
           p == ids.last_processed
<1>0. /\ Types /\ Types' /\ "client" \in End /\ "server" \in End /\ Other("client") = "server"
      /\ Other("server") = "client"
      /\ wire \in [End -> Seq(Frames)] /\ out \in [End -> Seq(Frames)]
      /\ queue \in [End -> Seq(Queued)]
      /\ Control("server", con["server"], pc["server"])
      /\ history \in History /\ p \in Nat
  <2>1. Types /\ Types' /\ Control("server", con["server"], pc["server"])
    BY TypesStep DEF Safe, Based, Controlled, Control, End
  <2>2. p \in 0..MaxId /\ MaxId \in Nat
    BY <2>1, H2ConnectionAssumption DEF Types
  <2>3. /\ wire \in [End -> Seq(Frames)] /\ out \in [End -> Seq(Frames)]
        /\ queue \in [End -> Seq(Queued)] /\ history \in History
    BY <2>1 DEF Types
  <2>4. /\ "client" \in End /\ "server" \in End /\ Other("client") = "server"
        /\ Other("server") = "client"
    BY DEF End, Other
  <2> QED BY <2>1, <2>2, <2>3, <2>4
<1>1. w \in Seq(Frames) /\ o \in Seq(Frames)
      /\ wire'["server"] \in Seq(Frames) /\ out'["server"] \in Seq(Frames)
  BY <1>0 DEF Types
<1>2. /\ history.processed \subseteq 1..p
      /\ \A id \in history.aborted : c # None /\ c.last < id
      /\ Announces(w, c) /\ Announces(o, c)
  BY DEF AbortOK
<1>3. c # None => c.last \in Nat /\ d # None /\ d.last \in Nat /\ d.last <= c.last
  BY <1>0, LastFalls
<1> HIDE DEF c, d
<1>4. history'.processed \subseteq 1..ids'.last_processed
  <2>1. CASE ids'.last_processed = p /\ history'.processed = history.processed
    BY <1>2, <2>1
  <2>2. ASSUME Reads("server", "headers"), ids'.last_processed = Arg("server")[1],
               history'.processed = history.processed \cup {Arg("server")[1]}
        PROVE  history'.processed \subseteq 1..ids'.last_processed
    <3> DEFINE s == wire["client"]
               f == Head(s)
    <3>1. s # <<>> /\ f.type = "headers" /\ Arg("server") = f.arg /\ s \in Seq(Frames)
      BY <1>0, <2>2 DEF Reads, Arg
    <3>2. f \in Frames
      BY <3>1, HeadTailProperties
    <3>3. PICK a \in Nat : Rising(s, p + 1, a)
      BY DEF RoadOK
    <3>4. f.arg[1] \in Id /\ f.arg[1] \in Nat /\ p + 1 \in Nat
      BY <1>0, <3>1, <3>2, HeadersIds
    <3>5. p + 1 <= f.arg[1]
      BY <3>1, <3>3, <3>4, RisingTail
    <3>6. f.arg[1] \in 1..f.arg[1]
      BY <3>4 DEF Id
    <3>7. 1..p \subseteq 1..f.arg[1]
      BY <1>0, <3>4, <3>5
    <3> QED BY <1>2, <2>2, <3>1, <3>6, <3>7
  <2> QED BY <1>0, <2>1, <2>2, ProcessStep
<1>5. ASSUME NEW id \in history'.aborted PROVE d # None /\ d.last < id
  <2>1. \A i \in history.aborted : i \in Nat
    BY <1>0 DEF History, Id
  <2>2. CASE id \in history.aborted
    BY <1>2, <1>3, <2>1, <2>2
  <2>3. CASE id \notin history.aborted
    <3>1. Reads("client", "go_away") /\ id \in Above(Arg("client").last)
      BY <1>0, <1>5, <2>3, AbortedStep
    <3>2. w # <<>> /\ Head(w).type = "go_away" /\ Arg("client") = Head(w).arg
      BY <1>0, <3>1 DEF Reads, Arg
    <3>3. c # None /\ c.last <= Head(w).arg.last
      BY <1>1, <1>2, <3>2, AnnouncesTail
    <3>4. Head(w) \in Frames
      BY <1>1, <3>2, HeadTailProperties
    <3>5. Head(w).arg.last \in Nat
      BY <3>2, <3>4, FrameTypes DEF GoAway
    <3>6. id \in Nat /\ Head(w).arg.last < id
      BY <3>1, <3>2 DEF Above, Id
    <3> QED BY <1>3, <3>3, <3>5, <3>6
  <2> QED BY <2>2, <2>3
<1>6. Announces(wire'["server"], c)
  <2>1. CASE wire'["server"] = w
    BY <1>2, <2>1
  <2>2. ASSUME Write("server") PROVE Announces(wire'["server"], c)
    <3>1. o # <<>> /\ (wire'["server"] = w \/ wire'["server"] = Append(w, Head(o)))
      BY <1>0, <2>2 DEF Write
    <3>2. Head(o).type = "go_away" => c # None /\ c.last <= Head(o).arg.last
      BY <1>1, <1>2, <3>1, AnnouncesTail
    <3> QED BY <1>1, <1>2, <3>1, <3>2, AnnouncesAppend
  <2>3. ASSUME NEW t, Reads("client", t) PROVE Announces(wire'["server"], c)
    <3>1. w # <<>> /\ wire'["server"] = Tail(w)
      BY <1>0, <2>3 DEF Reads
    <3> QED BY <1>1, <1>2, <3>1, AnnouncesTail
  <2> QED BY <1>0, <2>1, <2>2, <2>3, WireKinds DEF WireKind
<1>7. Announces(out'["server"], c)
  <2>1. CASE out'["server"] = o
    BY <1>2, <2>1
  <2>2. CASE out'["server"] = <<>>
    BY <2>2 DEF Announces
  <2>3. ASSUME NEW f, out'["server"] = Append(o, f), f.type # "go_away"
        PROVE  Announces(out'["server"], c)
    BY <1>1, <1>2, <2>3, AnnouncesAppend
  <2>4. ASSUME con["server"].pending # None,
               out'["server"] = Append(o, Frame("go_away", con["server"].pending))
        PROVE  Announces(out'["server"], c)
    <3>1. con["server"].pending = c /\ c # None
      BY <1>0, <2>4 DEF Control, c
    <3>2. c.last <= c.last
      BY <1>3, <3>1
    <3>3. Frame("go_away", c).arg = c
      BY DEF Frame
    <3> QED BY <1>1, <1>2, <2>4, <3>1, <3>2, <3>3, AnnouncesAppend
  <2>5. ASSUME Write("server") PROVE Announces(out'["server"], c)
    <3>1. o # <<>> /\ out'["server"] = Tail(o)
      BY <1>0, <2>5 DEF Write
    <3> QED BY <1>1, <1>2, <3>1, AnnouncesTail
  <2>6. ASSUME Complete("server") PROVE Announces(out'["server"], c)
    <3> DEFINE h == Head(queue["server"])
               f == Frame(h.type, <<h.arg[1], window["server"].sends>>)
    <3>1. queue["server"] # <<>> /\ out'["server"] = Append(o, f)
      BY <1>0, <2>6 DEF Complete, Buffer
    <3>2. h \in Queued
      BY <1>0, <3>1, HeadTailProperties
    <3>3. f.type # "go_away"
      BY <3>2 DEF Queued, Frame
    <3> QED BY <2>3, <3>1, <3>3
  <2>7. \A f : ControlFrame(f) => f.type # "go_away"
    BY DEF ControlFrame
  <2>8. OutKind("server")
    BY <1>0, OutKinds
  <2> QED BY <2>1, <2>2, <2>3, <2>4, <2>5, <2>6, <2>7, <2>8 DEF OutKind
<1>8. Announces(wire'["server"], d) /\ Announces(out'["server"], d)
  BY <1>1, <1>3, <1>6, <1>7, AnnouncesLess
<1> QED BY <1>4, <1>5, <1>8 DEF AbortOK, d

(* At first nothing but SETTINGS is on its way.                              *)
LEMMA RoadInit ==
  ASSUME Init
  PROVE  RoadOK /\ AbortOK
<1>1. /\ \A e \in End : wire[e] = <<>> /\ queue[e] = <<>>
      /\ \A e \in End : out[e] = <<Frame("settings", First[e])>>
      /\ ids.last_processed = 0 /\ ids.next = 1
      /\ history.processed = {} /\ history.aborted = {}
  <2>1. history.processed = {} /\ history.aborted = {}
    BY DEF Init
  <2> QED BY <2>1 DEF Init
<1>2. ASSUME NEW e \in End
      PROVE  /\ Rising(wire[e], 1, 1) /\ Rising(out[e], 1, 1) /\ Rising(queue[e], 1, 1)
             /\ \A c : Announces(wire[e], c) /\ Announces(out[e], c)
  <2> DEFINE x == Frame("settings", First[e])
  <2>0. x.type = "settings" /\ wire[e] = <<>> /\ queue[e] = <<>> /\ out[e] = <<x>>
    BY <1>1 DEF Frame
  <2> HIDE DEF x
  <2>1. Len(wire[e]) = 0 /\ Len(queue[e]) = 0 /\ Len(out[e]) = 1
    BY <2>0
  <2>2. out[e][1].type = "settings"
    BY <2>0
  <2>3. \A i \in 1..Len(out[e]) : i = 1
    BY <2>1
  <2> QED BY <2>1, <2>2, <2>3 DEF Rising, Announces
<1>3. RoadOK
  <2>1. 1 \in Nat /\ 0 < 1 /\ 1 <= 1 /\ 0 + 1 = 1
    OBVIOUS
  <2> QED BY <1>1, <1>2, <2>1 DEF RoadOK, End
<1> QED BY <1>1, <1>2, <1>3 DEF AbortOK, End

\* go_away.rs: a request the client gives up because of a GOAWAY was not processed,
\* so it may be sent again elsewhere.
THEOREM AbortedNeverProcessed == Spec => []AbortedNotProcessed
<1>1. Init => RoadOK /\ AbortOK
  BY RoadInit
<1>2. Safe /\ RoadOK /\ AbortOK /\ [Next]_vars => RoadOK' /\ AbortOK'
  BY RoadStep, AbortStep
<1>3. Safe /\ AbortOK => AbortedNotProcessed
  <2> SUFFICES ASSUME Safe, AbortOK, NEW id \in history.aborted, id \in history.processed
               PROVE  FALSE
    BY DEF AbortedNotProcessed
  <2>1. /\ con["server"].going_away # None /\ con["server"].going_away.last < id
        /\ id \in 1..ids.last_processed
    BY DEF AbortOK
  <2>2. ids.last_processed <= con["server"].going_away.last
    BY <2>1 DEF Safe, IdsOK
  <2>3. con["server"] \in Con /\ ids.last_processed \in 0..MaxId /\ MaxId \in Nat
    BY ConOf, H2ConnectionAssumption DEF Safe, Based, Types, End
  <2>4. con["server"].going_away.last \in Nat
    BY <2>1, <2>3 DEF Con, GoAway
  <2> QED BY <2>1, <2>2, <2>3, <2>4
<1> QED BY <1>1, <1>2, <1>3, SafeInvariant, PTL DEF Spec

(* The frames from e that are not read yet.                                  *)
Line(e) == wire[e] \o out[e]

Data(f) == f.type \in {"headers", "end"}

Has(s, t) == \E i \in 1..Len(s) : s[i].type = t

AtMostOne(s, t) == \A i, j \in 1..Len(s) : s[i].type = t /\ s[j].type = t => i = j

Carries(s, l) == \A i \in 1..Len(s) : s[i].type = "settings" => l = <<"WaitingAck", s[i].arg>>

Acked(s, i) == \E k \in 1..(i - 1) : s[k].type = "ack"

Fits(s, x, y) ==
  \A i \in 1..Len(s) : Data(s[i]) => s[i].arg[2] <= IF Acked(s, i) THEN y ELSE x

(* A sequence and one more.                                                  *)
LEMMA AtEnd ==
  ASSUME NEW S, NEW s \in Seq(S), NEW f
  PROVE  /\ Len(s) \in Nat /\ Len(Append(s, f)) = Len(s) + 1
         /\ Append(s, f)[Len(s) + 1] = f
         /\ \A i \in 1..Len(s) : Append(s, f)[i] = s[i] /\ i \in 1..(Len(s) + 1) /\ i < Len(s) + 1
         /\ \A i \in 1..(Len(s) + 1) : i = Len(s) + 1 \/ i \in 1..Len(s)
         /\ Len(s) + 1 \in 1..(Len(s) + 1)
OBVIOUS

(* A sequence and its rest.                                                  *)
LEMMA AtHead ==
  ASSUME NEW S, NEW s \in Seq(S), s # <<>>
  PROVE  /\ Len(s) \in Nat /\ Len(Tail(s)) = Len(s) - 1 /\ Len(Tail(s)) \in Nat
         /\ Tail(s) \in Seq(S) /\ Head(s) \in S
         /\ Head(s) = s[1] /\ 1 \in 1..Len(s)
         /\ \A i \in 1..Len(Tail(s)) : Tail(s)[i] = s[i + 1] /\ i + 1 \in 1..Len(s) /\ i + 1 # 1
         /\ \A i \in 1..Len(s) : i = 1 \/ (i - 1 \in 1..Len(Tail(s)) /\ s[i] = Tail(s)[i - 1])
<1>1. /\ Len(s) \in Nat /\ Len(Tail(s)) = Len(s) - 1 /\ Len(Tail(s)) \in Nat
      /\ Tail(s) \in Seq(S) /\ Head(s) \in S
      /\ Head(s) = s[1] /\ 1 \in 1..Len(s)
  OBVIOUS
<1>2. \A i \in 1..Len(Tail(s)) : Tail(s)[i] = s[i + 1]
  BY HeadTailProperties
<1>3. \A i \in 1..Len(Tail(s)) : i + 1 \in 1..Len(s) /\ i + 1 # 1
  BY <1>1
<1>4. \A i \in 1..Len(s) : i = 1 \/ (i - 1 \in 1..Len(Tail(s)) /\ (i - 1) + 1 = i)
  BY <1>1
<1> QED BY <1>1, <1>2, <1>3, <1>4

(* Has, of a sequence and one more.                                          *)
LEMMA HasAppend ==
  ASSUME NEW S, NEW s \in Seq(S), NEW f, NEW t
  PROVE  Has(Append(s, f), t) <=> Has(s, t) \/ f.type = t
<1> DEFINE r == Append(s, f)
<1>1. /\ Len(r) = Len(s) + 1 /\ r[Len(s) + 1] = f
      /\ \A i \in 1..Len(s) : r[i] = s[i] /\ i \in 1..(Len(s) + 1)
      /\ \A i \in 1..(Len(s) + 1) : i = Len(s) + 1 \/ i \in 1..Len(s)
      /\ Len(s) + 1 \in 1..(Len(s) + 1)
  BY AtEnd
<1> HIDE DEF r
<1>2. Has(r, t) <=> Has(s, t) \/ f.type = t
  BY <1>1 DEF Has
<1> QED BY <1>2 DEF r

(* Has and AtMostOne, of a sequence and its rest.                            *)
LEMMA HasTail ==
  ASSUME NEW S, NEW s \in Seq(S), s # <<>>, NEW t
  PROVE  /\ Has(s, t) <=> Has(Tail(s), t) \/ Head(s).type = t
         /\ AtMostOne(s, t) => /\ AtMostOne(Tail(s), t)
                               /\ Head(s).type = t => ~Has(Tail(s), t)
<1> DEFINE r == Tail(s)
           h == Head(s)
<1>1. /\ h = s[1] /\ 1 \in 1..Len(s)
      /\ \A i \in 1..Len(r) : r[i] = s[i + 1] /\ i + 1 \in 1..Len(s) /\ i + 1 # 1
      /\ \A i \in 1..Len(s) : i = 1 \/ (i - 1 \in 1..Len(r) /\ s[i] = r[i - 1])
      /\ Len(r) \in Nat
  BY AtHead
<1> HIDE DEF r, h
<1>2. Has(s, t) <=> Has(r, t) \/ h.type = t
  BY <1>1, ZenonT(60) DEF Has
<1>3. ASSUME AtMostOne(s, t)
      PROVE  AtMostOne(r, t) /\ (h.type = t => ~Has(r, t))
  <2>1. ASSUME NEW i \in 1..Len(r), NEW j \in 1..Len(r), r[i].type = t, r[j].type = t PROVE i = j
    <3>1. i + 1 = j + 1
      BY <1>1, <1>3, <2>1 DEF AtMostOne
    <3> QED BY <1>1, <3>1
  <2>2. h.type = t => ~Has(r, t)
    BY <1>1, <1>3 DEF AtMostOne, Has
  <2> QED BY <2>1, <2>2 DEF AtMostOne
<1> QED BY <1>2, <1>3 DEF r, h

(* AtMostOne, of a sequence and one more.                                    *)
LEMMA OnceAppend ==
  ASSUME NEW S, NEW s \in Seq(S), NEW f, NEW t, AtMostOne(s, t), f.type = t => ~Has(s, t)
  PROVE  AtMostOne(Append(s, f), t)
<1> DEFINE r == Append(s, f)
<1>1. /\ Len(r) = Len(s) + 1 /\ r[Len(s) + 1] = f
      /\ \A i \in 1..Len(s) : r[i] = s[i]
      /\ \A i \in 1..(Len(s) + 1) : i = Len(s) + 1 \/ i \in 1..Len(s)
  BY AtEnd
<1> HIDE DEF r
<1>2. AtMostOne(r, t)
  BY <1>1 DEF AtMostOne, Has
<1> QED BY <1>2 DEF r

(* Carries, of a sequence and one more.                                      *)
LEMMA CarriesAppend ==
  ASSUME NEW S, NEW s \in Seq(S), NEW f, NEW l, Carries(s, l),
         f.type = "settings" => l = <<"WaitingAck", f.arg>>
  PROVE  Carries(Append(s, f), l)
<1> DEFINE r == Append(s, f)
<1>1. /\ Len(r) = Len(s) + 1 /\ r[Len(s) + 1] = f
      /\ \A i \in 1..Len(s) : r[i] = s[i]
      /\ \A i \in 1..(Len(s) + 1) : i = Len(s) + 1 \/ i \in 1..Len(s)
  BY AtEnd
<1> HIDE DEF r
<1>2. Carries(r, l)
  BY <1>1 DEF Carries
<1> QED BY <1>2 DEF r

(* Carries, of a sequence and its rest.                                      *)
LEMMA CarriesTail ==
  ASSUME NEW S, NEW s \in Seq(S), s # <<>>, NEW l, Carries(s, l)
  PROVE  /\ Carries(Tail(s), l)
         /\ Head(s).type = "settings" => l = <<"WaitingAck", Head(s).arg>>
<1> DEFINE r == Tail(s)
<1>1. /\ Head(s) = s[1] /\ 1 \in 1..Len(s)
      /\ \A i \in 1..Len(r) : r[i] = s[i + 1] /\ i + 1 \in 1..Len(s)
  BY AtHead
<1> HIDE DEF r
<1>2. Carries(r, l)
  BY <1>1 DEF Carries
<1> QED BY <1>1, <1>2 DEF Carries, r

(* A sequence without SETTINGS carries any.                                  *)
LEMMA CarriesNone ==
  ASSUME NEW s, NEW l, ~Has(s, "settings") PROVE Carries(s, l)
BY DEF Has, Carries

(* Fits, of a sequence and one more.                                         *)
LEMMA FitsAppend ==
  ASSUME NEW S, NEW s \in Seq(S), NEW f, NEW x, NEW y, Fits(s, x, y),
         Data(f) => f.arg[2] <= IF Has(s, "ack") THEN y ELSE x
  PROVE  Fits(Append(s, f), x, y)
<1> DEFINE r == Append(s, f)
           l == Len(s)
<1>1. /\ Len(r) = l + 1 /\ r[l + 1] = f /\ l \in Nat
      /\ \A i \in 1..l : r[i] = s[i]
      /\ \A i \in 1..(l + 1) : i = l + 1 \/ i \in 1..l
  BY AtEnd
<1> HIDE DEF r, l
<1>2. \A i \in 1..(l + 1) : \A k \in 1..(i - 1) : k \in 1..l
  BY <1>1
<1>3. \A i \in 1..l : Acked(r, i) <=> Acked(s, i)
  <2> SUFFICES ASSUME NEW i \in 1..l PROVE Acked(r, i) <=> Acked(s, i)
    OBVIOUS
  <2>1. \A k \in 1..(i - 1) : r[k] = s[k]
    BY <1>1
  <2> QED BY <2>1 DEF Acked
<1>4. Acked(r, l + 1) <=> Has(s, "ack")
  <2>1. (l + 1) - 1 = l
    BY <1>1
  <2> QED BY <1>1, <2>1 DEF Acked, Has, l
<1>5. Fits(r, x, y)
  BY <1>1, <1>3, <1>4 DEF Fits, l
<1> QED BY <1>5 DEF r

(* Fits, of a sequence and its rest; the ACK brings the other window.        *)
LEMMA FitsTail ==
  ASSUME NEW S, NEW s \in Seq(S), s # <<>>, NEW x, NEW y, Fits(s, x, y)
  PROVE  /\ Data(Head(s)) => Head(s).arg[2] <= x
         /\ Head(s).type # "ack" => Fits(Tail(s), x, y)
         /\ Head(s).type = "ack" => \A z : ~Has(Tail(s), "ack") => Fits(Tail(s), y, z)
<1> DEFINE r == Tail(s)
           h == Head(s)
<1>1. /\ h = s[1] /\ 1 \in 1..Len(s) /\ Len(r) \in Nat
      /\ \A i \in 1..Len(r) : r[i] = s[i + 1] /\ i + 1 \in 1..Len(s)
  BY AtHead
<1> HIDE DEF r, h
<1>2. ~Acked(s, 1)
  BY DEF Acked
<1>3. \A i \in 1..Len(r) : Acked(s, i + 1) <=> h.type = "ack" \/ Acked(r, i)
  <2> SUFFICES ASSUME NEW i \in 1..Len(r) PROVE Acked(s, i + 1) <=> h.type = "ack" \/ Acked(r, i)
    OBVIOUS
  <2>1. /\ (i + 1) - 1 = i /\ 1 \in 1..i
        /\ \A k \in 1..(i - 1) : k \in 1..Len(r) /\ k + 1 \in 1..i
        /\ \A k \in 1..i : k = 1 \/ (k - 1 \in 1..(i - 1) /\ (k - 1) + 1 = k)
    BY <1>1
  <2>2. ASSUME NEW k \in 1..(i - 1), r[k].type = "ack"
        PROVE  s[k + 1].type = "ack" /\ k + 1 \in 1..i
    BY <1>1, <2>1, <2>2
  <2>3. ASSUME NEW k \in 1..i, k # 1, s[k].type = "ack"
        PROVE  k - 1 \in 1..(i - 1) /\ r[k - 1].type = "ack"
    BY <1>1, <2>1, <2>3
  <2> QED BY <1>1, <2>1, <2>2, <2>3 DEF Acked
<1>4. Data(h) => h.arg[2] <= x
  BY <1>1, <1>2 DEF Fits
<1>5. h.type # "ack" => Fits(r, x, y)
  BY <1>1, <1>3 DEF Fits
<1>6. ASSUME h.type = "ack", NEW z, ~Has(r, "ack") PROVE Fits(r, y, z)
  <2>1. \A i \in 1..Len(r) : ~Acked(r, i)
    <3> SUFFICES ASSUME NEW i \in 1..Len(r) PROVE ~Acked(r, i)
      OBVIOUS
    <3>1. \A k \in 1..(i - 1) : k \in 1..Len(r)
      BY <1>1
    <3> QED BY <1>6, <3>1 DEF Acked, Has
  <2> QED BY <1>1, <1>3, <1>6, <2>1 DEF Fits
<1> QED BY <1>4, <1>5, <1>6 DEF r, h

(* Without an ACK the window it would bring is of no interest.               *)
LEMMA FitsNoAck ==
  ASSUME NEW S, NEW s \in Seq(S), NEW x, NEW y, Fits(s, x, y), ~Has(s, "ack"), NEW z
  PROVE  Fits(s, x, z)
<1>1. Len(s) \in Nat
  OBVIOUS
<1>2. \A i \in 1..Len(s) : ~Acked(s, i)
  <2> SUFFICES ASSUME NEW i \in 1..Len(s) PROVE ~Acked(s, i)
    OBVIOUS
  <2>1. \A k \in 1..(i - 1) : k \in 1..Len(s)
    BY <1>1
  <2> QED BY <2>1 DEF Acked, Has
<1> QED BY <1>2 DEF Fits

-----------------------------------------------------------------------------
(* What is on its way are frames.                                            *)
LEMMA LineTypes ==
  ASSUME Types, NEW e \in End
  PROVE  /\ wire[e] \in Seq(Frames) /\ out[e] \in Seq(Frames) /\ Line(e) \in Seq(Frames)
         /\ Line(e) = <<>> <=> wire[e] = <<>> /\ out[e] = <<>>
<1>1. wire[e] \in Seq(Frames) /\ out[e] \in Seq(Frames)
  BY DEF Types
<1>2. Line(e) \in Seq(Frames)
  BY <1>1 DEF Line
<1>3. Line(e) = <<>> <=> wire[e] = <<>> /\ out[e] = <<>>
  BY <1>1, ConcatEqualIffEmpty DEF Line
<1> QED BY <1>1, <1>2, <1>3

(* The wire and the codec of an end are one line.                            *)
LEMMA Joined ==
  ASSUME NEW S, NEW w \in Seq(S), NEW o \in Seq(S)
  PROVE  /\ o # <<>> => Append(w, Head(o)) \o Tail(o) = w \o o
         /\ \A f \in S : w \o Append(o, f) = Append(w \o o, f)
         /\ w # <<>> => /\ Tail(w) \o o = Tail(w \o o) /\ Head(w \o o) = Head(w) /\ w \o o # <<>>
<1>1. ASSUME o # <<>> PROVE Append(w, Head(o)) \o Tail(o) = w \o o
  <2> DEFINE h == Head(o)
             r == Tail(o)
  <2>1. h \in S /\ r \in Seq(S) /\ <<h>> \in Seq(S) /\ <<h>> \o r = o
    BY <1>1
  <2>2. Append(w, h) = w \o <<h>>
    BY <2>1, AppendIsConcat
  <2> HIDE DEF h, r
  <2>3. (w \o <<h>>) \o r = w \o (<<h>> \o r)
    BY <2>1, ConcatAssociative
  <2> QED BY <2>1, <2>2, <2>3 DEF h, r
<1>2. ASSUME NEW f \in S PROVE w \o Append(o, f) = Append(w \o o, f)
  <2>1. Append(o, f) = o \o <<f>> /\ <<f>> \in Seq(S) /\ w \o o \in Seq(S)
    BY AppendIsConcat
  <2>2. Append(w \o o, f) = (w \o o) \o <<f>>
    BY <2>1, AppendIsConcat
  <2>3. (w \o o) \o <<f>> = w \o (o \o <<f>>)
    BY <2>1, ConcatAssociative
  <2> QED BY <2>1, <2>2, <2>3
<1>3. ASSUME w # <<>>
      PROVE  Tail(w) \o o = Tail(w \o o) /\ Head(w \o o) = Head(w) /\ w \o o # <<>>
  <2> DEFINE h == Head(w)
             r == Tail(w)
  <2>1. h \in S /\ r \in Seq(S) /\ <<h>> \in Seq(S) /\ <<h>> \o r = w
    BY <1>3
  <2> HIDE DEF h, r
  <2>2. (<<h>> \o r) \o o = <<h>> \o (r \o o) /\ r \o o \in Seq(S)
    BY <2>1, ConcatAssociative
  <2> DEFINE t == r \o o
  <2>3. t \in Seq(S)
    BY <2>2
  <2> HIDE DEF t
  <2>4. Head(<<h>> \o t) = h /\ Tail(<<h>> \o t) = t /\ <<h>> \o t # <<>>
    BY <2>1, <2>3
  <2> QED BY <2>1, <2>2, <2>4 DEF h, r, t
<1> QED BY <1>1, <1>2, <1>3

(* A future that has returned does not run again.                            *)
LEMMA DoneStays ==
  ASSUME Types, [Next]_vars, NEW e \in End, pc[e] = "done"
  PROVE  pc'[e] = "done"
<1>0. pc \in [End -> Place]
  BY DEF Types
<1>1. ASSUME NEW f \in End, Polls(f) \/ Settles(f)
      PROVE  pc[f] # "done" /\ \E p : pc' = [pc EXCEPT ![f] = p]
  <2>1. pc[f] # "done"
    BY <1>1 DEF Polls, PollGoAway, SendPong, SendPing, SendAck, FailAck, SendSettings,
       Settles, RecvEof, NoFrame, Flushing, Park, Close, IoError, BeginPoll, At
  <2>2. \E p : pc' = [pc EXCEPT ![f] = p]
    BY <1>1 DEF Polls, PollGoAway, SendPong, SendPing, SendAck, FailAck, SendSettings,
       Settles, RecvEof, NoFrame, Flushing, Park, Close, IoError, BeginPoll,
       Blocked, Parks, Goes, Finished, ConnectionError, Ends
  <2> QED BY <2>1, <2>2
<1>2. ASSUME NEW f \in End, Receives(f)
      PROVE  pc[f] # "done" /\ \E p : pc' = [pc EXCEPT ![f] = p]
  <2>1. pc[f] # "done"
    BY <1>2, ReceivesReads DEF Reads, At
  <2>2. \E p : pc' = [pc EXCEPT ![f] = p]
    BY <1>2 DEF Receives, RecvSettings, RecvAck, RecvPing, RecvPong, RecvGoAway,
       RecvBadFrame, RecvHeaders, RecvEnd, Refuses, ConnectionError, Goes
  <2> QED BY <2>1, <2>2
<1>3. ASSUME NEW f \in End, Complete(f) \/ Write(f) PROVE pc' = pc
  BY <1>3 DEF Complete, Write
<1>4. Use \/ UNCHANGED vars => pc' = pc
  BY DEF Use, SendRequest, DropHandles, GracefulShutdown, Respond, AbruptShutdown,
       UserPing, PollPong, SetWindow, vars
<1> QED BY <1>0, <1>1, <1>2, <1>3, <1>4, NextKinds

(* The frames an end puts into its codec, and when.                          *)
Adds(e, f) ==
  \/ f.type \in {"ping", "pong"}
  \/ f = Frame("ack", None) /\ SendAck(e) /\ con[e].remote # None
  \/ /\ f = Frame("settings", con[e].local[2]) /\ SendSettings(e)
     /\ con[e].local[1] = "ToSend"
  \/ f = Frame("go_away", con[e].pending) /\ PollGoAway(e) /\ con[e].pending # None
  \/ /\ f = Frame(Head(queue[e]).type, <<Head(queue[e]).arg[1], window[e].sends>>)
     /\ Complete(e)

(* What the steps of poll2 put into the codec.                               *)
LEMMA PollsAdd ==
  ASSUME Types, NEW e \in End, Polls(e), Faults = {}
  PROVE  /\ wire' = wire
         /\ out' = out \/ \E f \in Frames : out' = [out EXCEPT ![e] = Append(@, f)] /\ Adds(e, f)
<1> DEFINE c == con[e]
           G == \E f \in Frames : out' = [out EXCEPT ![e] = Append(@, f)] /\ Adds(e, f)
<1>0. c \in Con
  BY ConOf
<1>1. wire' = wire
  BY DEF Polls, PollGoAway, SendPong, SendPing, SendAck, FailAck, SendSettings,
     Blocked, Finished, Unchanged
<1>2. ~FailAck(e)
  BY DEF FailAck
<1>3. ASSUME NEW f \in Frames, out' = [out EXCEPT ![e] = Append(@, f)], Adds(e, f) PROVE G
  BY <1>3
<1>4. CASE out' = out
  BY <1>1, <1>4
<1> HIDE DEF G
<1>5. ASSUME PollGoAway(e), out' # out PROVE G
  <2>1. c.pending # None /\ out' = [out EXCEPT ![e] = Append(@, Frame("go_away", c.pending))]
    BY <1>5, Zenon DEF PollGoAway, Blocked
  <2>2. Frame("go_away", c.pending) \in Frames
    BY <1>0, <2>1 DEF Con, Frames, Frame
  <2> QED BY <1>3, <1>5, <2>1, <2>2 DEF Adds
<1>6. ASSUME SendPong(e), out' # out PROVE G
  <2>1. c.pending_pong # None /\ out' = [out EXCEPT ![e] = Append(@, Frame("pong", c.pending_pong))]
    BY <1>6, Zenon DEF SendPong, Blocked
  <2>2. Frame("pong", c.pending_pong) \in Frames /\ Frame("pong", c.pending_pong).type = "pong"
    BY <1>0, <2>1 DEF Con, Frames, Frame
  <2> QED BY <1>3, <2>1, <2>2 DEF Adds
<1>7. ASSUME SendPing(e), out' # out PROVE G
  <2> DEFINE x == IF c.pending_ping # None THEN Shutdown ELSE User
  <2>1. out' = [out EXCEPT ![e] = Append(@, Frame("ping", x))]
    BY <1>7, Zenon DEF SendPing, Blocked
  <2>2. Frame("ping", x) \in Frames /\ Frame("ping", x).type = "ping"
    BY DEF Frames, Frame
  <2> HIDE DEF x
  <2> QED BY <1>3, <2>1, <2>2 DEF Adds
<1>8. ASSUME SendAck(e), out' # out PROVE G
  <2>1. c.remote # None /\ out' = [out EXCEPT ![e] = Append(@, Frame("ack", None))]
    BY <1>8, Zenon DEF SendAck, Blocked, Buffer
  <2>2. Frame("ack", None) \in Frames
    BY DEF Frames, Frame
  <2> QED BY <1>3, <1>8, <2>1, <2>2 DEF Adds
<1>9. ASSUME SendSettings(e), out' # out PROVE G
  <2>1. c.local[1] = "ToSend" /\ out' = [out EXCEPT ![e] = Append(@, Frame("settings", c.local[2]))]
    BY <1>9, Zenon DEF SendSettings, Blocked, Buffer
  <2>2. c.local[2] \in Nat
    <3>1. c.local \in ({"ToSend", "WaitingAck"} \X Nat) \cup {<<"Synced", None>>}
      BY <1>0 DEF Con
    <3> QED BY <2>1, <3>1
  <2>3. Frame("settings", c.local[2]) \in Frames
    BY <2>2 DEF Frames, Frame
  <2> QED BY <1>3, <1>9, <2>1, <2>3 DEF Adds
<1> QED BY <1>1, <1>2, <1>4, <1>5, <1>6, <1>7, <1>8, <1>9 DEF Polls, G

(* What poll_complete puts into the codec.                                   *)
LEMMA CompleteAdds ==
  ASSUME Types, NEW e \in End, Complete(e)
  PROVE  /\ wire' = wire /\ queue[e] # <<>> /\ Head(queue[e]) \in Queued
         /\ queue'[e] = Tail(queue[e])
         /\ \E f \in Frames : /\ out' = [out EXCEPT ![e] = Append(@, f)] /\ Adds(e, f)
                              /\ f.type = Head(queue[e]).type
                              /\ f.arg = <<Head(queue[e]).arg[1], window[e].sends>>
<1> DEFINE q == queue[e]
           h == Head(q)
           f == Frame(h.type, <<h.arg[1], window[e].sends>>)
<1>1. /\ q # <<>> /\ out' = [out EXCEPT ![e] = Append(@, f)] /\ queue'[e] = Tail(q)
      /\ wire' = wire
  BY DEF Complete, Buffer, Types
<1>2. h \in Queued /\ window[e].sends \in Nat
  <2>1. q \in Seq(Queued)
    BY DEF Types
  <2> QED BY <1>1, <2>1, HeadTailProperties DEF Types
<1>3. f \in Frames
  <2>1. h.type \in {"headers", "end"} /\ h.arg[1] \in Id
    BY <1>2 DEF Queued
  <2> HIDE DEF h
  <2> QED BY <1>2, <2>1 DEF Frames, Queued, Frame
<1>4. f.type = h.type /\ f.arg = <<h.arg[1], window[e].sends>>
  BY DEF Frame
<1>5. Adds(e, f)
  BY DEF Adds
<1> QED BY <1>1, <1>2, <1>3, <1>4, <1>5

(* How the frames from e change while somebody reads them.                   *)
LineKind(e) ==
  \/ Line(e)' = Line(e)
  \/ \E f \in Frames : Line(e)' = Append(Line(e), f) /\ Adds(e, f)
  \/ /\ Receives(Other(e)) /\ Line(e) # <<>> /\ Line(e)' = Tail(Line(e))
     /\ Reads(Other(e), Head(Line(e)).type) /\ Head(Line(e)) = Head(wire[e])

(* A line grows at its end and is read at its head, one frame at a time.     *)
LEMMA LineStep ==
  ASSUME Types, [Next]_vars, Faults = {}, NEW e \in End, pc[Other(e)] # "done"
  PROVE  LineKind(e)
<1>0. /\ wire \in [End -> Seq(Frames)] /\ out \in [End -> Seq(Frames)]
      /\ wire[e] \in Seq(Frames) /\ out[e] \in Seq(Frames) /\ Other(e) \in End
  BY DEF Types, Other, End
<1>1. CASE wire'[e] = wire[e] /\ out'[e] = out[e]
  BY <1>1 DEF LineKind, Line
<1>2. ASSUME wire' = wire, NEW f \in Frames, out' = [out EXCEPT ![e] = Append(@, f)], Adds(e, f)
      PROVE  LineKind(e)
  <2>1. wire'[e] = wire[e] /\ out'[e] = Append(out[e], f)
    BY <1>0, <1>2
  <2>2. wire[e] \o Append(out[e], f) = Append(wire[e] \o out[e], f)
    BY <1>0, Joined
  <2> QED BY <1>2, <2>1, <2>2 DEF LineKind, Line
<1>3. ASSUME NEW f \in End, e # f, Polls(f) \/ Complete(f) PROVE LineKind(e)
  <2>1. wire' = wire /\ (out' = out \/ \E g : out' = [out EXCEPT ![f] = Append(@, g)])
    BY <1>3, PollsAdd, CompleteAdds
  <2> QED BY <1>0, <1>1, <1>3, <2>1
<1>4. ASSUME Polls(e) \/ Complete(e) PROVE LineKind(e)
  BY <1>1, <1>2, <1>4, PollsAdd, CompleteAdds
<1>5. ASSUME NEW f \in End, Settles(f) PROVE LineKind(e)
  <2>1. ~IoError(f)
    BY DEF IoError
  <2>2. wire' = wire /\ out' = out
    BY <1>5, <2>1 DEF Settles, RecvEof, NoFrame, Flushing, Park, Close, BeginPoll
  <2> QED BY <1>1, <2>2
<1>6. ASSUME NEW f \in End, Receives(f) PROVE LineKind(e)
  <2>1. out' = out
    BY <1>6 DEF Receives, RecvSettings, RecvAck, RecvPing, RecvPong, RecvGoAway,
       RecvBadFrame, RecvHeaders, RecvEnd, Refuses
  <2>2. PICK t : Reads(f, t)
    BY <1>6, ReceivesReads
  <2>3. CASE f = Other(e)
    <3>1. Other(Other(e)) = e
      BY DEF Other, End
    <3>2. wire[e] # <<>> /\ wire'[e] = Tail(wire[e]) /\ Head(wire[e]).type = t
      BY <1>0, <2>2, <2>3, <3>1 DEF Reads
    <3>3. /\ Tail(wire[e]) \o out[e] = Tail(wire[e] \o out[e])
          /\ Head(wire[e] \o out[e]) = Head(wire[e]) /\ wire[e] \o out[e] # <<>>
      BY <1>0, <3>2, Joined
    <3> QED BY <1>6, <2>1, <2>2, <2>3, <3>2, <3>3 DEF LineKind, Line
  <2>4. CASE f # Other(e)
    <3>1. Other(f) # e
      BY <2>4 DEF Other, End
    <3>2. wire'[e] = wire[e]
      BY <1>0, <2>2, <3>1 DEF Reads
    <3> QED BY <1>1, <2>1, <3>2
  <2> QED BY <2>3, <2>4
<1>7. ASSUME NEW f \in End, Write(f) PROVE LineKind(e)
  <2>1. CASE e # f
    BY <1>0, <1>1, <1>7, <2>1 DEF Write
  <2>2. CASE e = f
    <3>1. /\ out[e] # <<>> /\ out'[e] = Tail(out[e]) /\ wire'[e] = Append(wire[e], Head(out[e]))
      BY <1>0, <1>7, <2>2 DEF Write
    <3>2. Append(wire[e], Head(out[e])) \o Tail(out[e]) = wire[e] \o out[e]
      BY <1>0, <3>1, Joined
    <3> QED BY <3>1, <3>2 DEF LineKind, Line
  <2> QED BY <2>1, <2>2
<1>8. CASE Use \/ UNCHANGED vars
  <2>1. wire' = wire /\ out' = out
    BY <1>8 DEF Use, SendRequest, DropHandles, GracefulShutdown, Respond, AbruptShutdown,
       UserPing, PollPong, SetWindow, vars
  <2> QED BY <1>1, <2>1
<1> QED BY <1>3, <1>4, <1>5, <1>6, <1>7, <1>8, NextKinds

(* Who changes the windows.                                                  *)
LEMMA WindowStep ==
  ASSUME Types, [Next]_vars, NEW e \in End
  PROVE  /\ window'[e].accepts # window[e].accepts => RecvAck(e)
         /\ window'[e].sends # window[e].sends => SendAck(e)
<1>0. window \in [End -> [accepts : Nat, sends : Nat]]
  BY DEF Types
<1>1. ASSUME window' # window PROVE \E f \in End : RecvAck(f) \/ SendAck(f)
  <2>1. ASSUME NEW f \in End, Polls(f) PROVE SendAck(f)
    BY <1>1, <2>1 DEF Polls, PollGoAway, SendPong, SendPing, FailAck, SendSettings,
       Blocked, Finished, Unchanged
  <2>2. ASSUME NEW f \in End, Receives(f) PROVE RecvAck(f)
    BY <1>1, <2>2 DEF Receives, RecvSettings, RecvPing, RecvPong, RecvGoAway,
       RecvBadFrame, RecvHeaders, RecvEnd, Refuses
  <2>3. ASSUME NEW f \in End, Settles(f) \/ Complete(f) \/ Write(f) PROVE FALSE
    BY <1>1, <2>3 DEF Settles, RecvEof, NoFrame, Flushing, Park, Close, IoError, BeginPoll,
       Complete, Write
  <2>4. ~(Use \/ UNCHANGED vars)
    BY <1>1 DEF Use, SendRequest, DropHandles, GracefulShutdown, Respond, AbruptShutdown,
       UserPing, PollPong, SetWindow, vars
  <2> QED BY <2>1, <2>2, <2>3, <2>4, NextKinds
<1>2. ASSUME NEW f \in End, RecvAck(f), window' # window
      PROVE  \E x : window' = [window EXCEPT ![f] = [window[f] EXCEPT !.accepts = x]]
  BY <1>2 DEF RecvAck, Refuses
<1>3. ASSUME NEW f \in End, SendAck(f), window' # window
      PROVE  \E x : window' = [window EXCEPT ![f] = [window[f] EXCEPT !.sends = x]]
  BY <1>3 DEF SendAck, Blocked
<1> QED BY <1>0, <1>1, <1>2, <1>3

(* The SETTINGS of e are in one place at most: on their way to the other     *)
(* end, received there, or answered by an ACK on its way back.  What is in   *)
(* front of the ACK fits the window e accepts, what is behind it the one it  *)
(* asked for.                                                                *)
Answered(e) ==
  LET o == Other(e)
  IN  /\ AtMostOne(Line(o), "ack")
      /\ Has(Line(o), "ack") => con[e].local[1] = "WaitingAck" /\ con[o].remote = None
      /\ con[o].remote # None => con[e].local = <<"WaitingAck", con[o].remote>>

Asked(e) ==
  LET o == Other(e)
  IN  /\ AtMostOne(Line(e), "settings") /\ Carries(Line(e), con[e].local)
      /\ Has(Line(e), "settings") => con[o].remote = None /\ ~Has(Line(o), "ack")

Fitting(e) ==
  LET o == Other(e)
  IN  /\ Fits(Line(o), window[e].accepts, con[e].local[2])
      /\ window[o].sends <= IF Has(Line(o), "ack") THEN con[e].local[2] ELSE window[e].accepts

Token(e) ==
  pc[e] # "done" =>
    Answered(e) /\ Fitting(e) /\ (pc[Other(e)] # "done" => Asked(e))

(* A frame is read by the handler of its type.                               *)
LEMMA WhatIsRead ==
  ASSUME NEW f \in End, Receives(f), NEW t, Reads(f, t), Faults = {}
  PROVE  /\ t = "ack" => RecvAck(f)
         /\ t = "settings" => RecvSettings(f)
         /\ t = "go_away" => RecvGoAway(f)
         /\ t = "end" => f = "client" /\ RecvEnd
         /\ t = "headers" => f = "server" /\ RecvHeaders
<1>1. t = Head(wire[Other(f)]).type
  BY DEF Reads
<1>2. ~RecvBadFrame(f)
  BY DEF RecvBadFrame
<1> QED BY <1>1, <1>2 DEF Receives, RecvSettings, RecvAck, RecvPing, RecvPong, RecvGoAway,
          RecvHeaders, RecvEnd, Reads

(* A step that moves none of SETTINGS, ACK and windows.                      *)
LEMMA TokenSame ==
  ASSUME Types, NEW e \in End, NEW o \in End, o = Other(e), Token(e),
         con'[o].remote = con[o].remote, con'[e].local = con[e].local,
         window'[e].accepts = window[e].accepts, window'[o].sends = window[o].sends,
         pc'[e] # "done" => pc[e] # "done", pc'[o] # "done" => pc[o] # "done",
         pc[e] # "done" =>
           \/ Line(o)' = Line(o)
           \/ \E f : Line(o)' = Append(Line(o), f) /\ f.type # "ack" /\ ~Data(f)
           \/ Line(o) # <<>> /\ Line(o)' = Tail(Line(o)) /\ Head(Line(o)).type # "ack",
         pc[o] # "done" =>
           \/ Line(e)' = Line(e)
           \/ \E f : Line(e)' = Append(Line(e), f) /\ f.type # "settings"
           \/ Line(e) # <<>> /\ Line(e)' = Tail(Line(e))
  PROVE  Token(e)'
<1> DEFINE L == Line(o)
           M == Line(e)
           l == con[e].local
           a == window[e].accepts
<1> SUFFICES ASSUME pc'[e] # "done" PROVE Token(e)'
  BY DEF Token
<1>0. L \in Seq(Frames) /\ M \in Seq(Frames)
  BY LineTypes
<1>1. Answered(e) /\ Fitting(e) /\ (pc'[o] # "done" => Asked(e))
  BY DEF Token
<1>2. /\ Has(L', "ack") <=> Has(L, "ack") \/ (L # <<>> /\ L' = Tail(L) /\ Has(L', "ack"))
      /\ Has(L', "ack") => Has(L, "ack")
      /\ AtMostOne(L, "ack") => AtMostOne(L', "ack")
      /\ Fits(L, a, l[2]) => Fits(L', a, l[2])
  <2>1. CASE L' = L
    BY <2>1
  <2>2. ASSUME NEW f, L' = Append(L, f), f.type # "ack", ~Data(f)
        PROVE  /\ Has(L', "ack") <=> Has(L, "ack")
               /\ AtMostOne(L, "ack") => AtMostOne(L', "ack")
               /\ Fits(L, a, l[2]) => Fits(L', a, l[2])
    BY <1>0, <2>2, HasAppend, OnceAppend, FitsAppend
  <2>3. ASSUME L # <<>>, L' = Tail(L), Head(L).type # "ack"
        PROVE  /\ Has(L', "ack") <=> Has(L, "ack")
               /\ AtMostOne(L, "ack") => AtMostOne(L', "ack")
               /\ Fits(L, a, l[2]) => Fits(L', a, l[2])
    BY <1>0, <2>3, HasTail, FitsTail
  <2> HIDE DEF L
  <2> QED BY <2>1, <2>2, <2>3 DEF L
<1>3. Has(L', "ack") <=> Has(L, "ack")
  <2>2. ASSUME NEW f, L' = Append(L, f), f.type # "ack" PROVE Has(L', "ack") <=> Has(L, "ack")
    BY <1>0, <2>2, HasAppend
  <2>3. ASSUME L # <<>>, L' = Tail(L), Head(L).type # "ack" PROVE Has(L', "ack") <=> Has(L, "ack")
    BY <1>0, <2>3, HasTail
  <2> QED BY <2>2, <2>3
<1>4. ASSUME pc'[o] # "done"
      PROVE  /\ Has(M', "settings") => Has(M, "settings")
             /\ AtMostOne(M, "settings") => AtMostOne(M', "settings")
             /\ Carries(M, l) => Carries(M', l)
  <2>1. ASSUME NEW f, M' = Append(M, f), f.type # "settings"
        PROVE  /\ Has(M', "settings") => Has(M, "settings")
               /\ AtMostOne(M, "settings") => AtMostOne(M', "settings")
               /\ Carries(M, l) => Carries(M', l)
    BY <1>0, <2>1, HasAppend, OnceAppend, CarriesAppend
  <2>2. ASSUME M # <<>>, M' = Tail(M)
        PROVE  /\ Has(M', "settings") => Has(M, "settings")
               /\ AtMostOne(M, "settings") => AtMostOne(M', "settings")
               /\ Carries(M, l) => Carries(M', l)
    BY <1>0, <2>2, HasTail, CarriesTail
  <2> QED BY <1>4, <2>1, <2>2
<1> HIDE DEF L, M
<1>5. Answered(e)'
  BY <1>1, <1>2, <1>3 DEF Answered, L
<1>6. Fitting(e)'
  BY <1>1, <1>2, <1>3 DEF Fitting, L
<1>7. ASSUME pc'[o] # "done" PROVE Asked(e)'
  BY <1>1, <1>3, <1>4, <1>7 DEF Asked, L, M
<1> QED BY <1>5, <1>6, <1>7 DEF Token

(* What e puts into its codec is at the end of its frames.                   *)
LEMMA LineAppend ==
  ASSUME Types, NEW e \in End, NEW f \in Frames, wire' = wire,
         out' = [out EXCEPT ![e] = Append(@, f)]
  PROVE  /\ Line(e)' = Append(Line(e), f)
         /\ \A o \in End \ {e} : Line(o)' = Line(o)
<1>0. wire[e] \in Seq(Frames) /\ out[e] \in Seq(Frames)
  BY DEF Types
<1>1. out'[e] = Append(out[e], f) /\ \A o \in End \ {e} : out'[o] = out[o]
  BY DEF Types
<1>2. \A S : \A x, y \in Seq(S) : f \in S => x \o Append(y, f) = Append(x \o y, f)
  BY Joined
<1>3. wire[e] \o Append(out[e], f) = Append(wire[e] \o out[e], f)
  BY <1>0, <1>2
<1> QED BY <1>1, <1>3 DEF Line

(* o acknowledges the SETTINGS of e.                                         *)
LEMMA TokenAck ==
  ASSUME Types, NEW e \in End, NEW o \in End, o = Other(e), Token(e),
         SendAck(o), con[o].remote # None, ~Blocked(o)
  PROVE  Token(e)'
<1> DEFINE L == Line(o)
           M == Line(e)
           l == con[e].local
           a == window[e].accepts
           f == Frame("ack", None)
<1>0. /\ L \in Seq(Frames) /\ M \in Seq(Frames) /\ e # o /\ con \in [End -> Con]
      /\ window \in [End -> [accepts : Nat, sends : Nat]]
      /\ wire[o] \in Seq(Frames) /\ out[o] \in Seq(Frames) /\ out \in [End -> Seq(Frames)]
      /\ pc \in [End -> Place] /\ con[o].remote \in Nat
  <2>1. con[o] \in Con
    BY ConOf
  <2> QED BY <2>1, LineTypes DEF Types, Other, End, Con
<1>1. /\ out' = [out EXCEPT ![o] = Append(@, f)] /\ wire' = wire
      /\ window' = [window EXCEPT ![o].sends = con[o].remote]
      /\ con' = [con EXCEPT ![o].remote = None]
      /\ pc' = [pc EXCEPT ![o] = "settings"] /\ pc[o] = "ack"
  BY DEF SendAck, Unchanged, Buffer, Goes, At
<1>2. /\ con'[e] = con[e] /\ con'[o].remote = None /\ window'[e] = window[e]
      /\ window'[o].sends = con[o].remote /\ pc'[e] = pc[e] /\ pc[o] # "done"
      /\ out'[e] = out[e] /\ out'[o] = Append(out[o], f)
  BY <1>0, <1>1 DEF Con
<1>3. L' = Append(L, f) /\ M' = M /\ f.type = "ack" /\ ~Data(f)
  <2>1. f \in Frames /\ f.type = "ack" /\ ~Data(f)
    BY DEF Frames, Frame, Data
  <2> QED BY <1>0, <1>1, <2>1, LineAppend
<1> SUFFICES ASSUME pc'[e] # "done" PROVE Token(e)'
  BY DEF Token
<1>4. Answered(e) /\ Fitting(e) /\ Asked(e)
  BY <1>2 DEF Token
<1>5. /\ AtMostOne(L, "ack") /\ ~Has(L, "ack") /\ l = <<"WaitingAck", con[o].remote>>
      /\ AtMostOne(M, "settings") /\ Carries(M, l) /\ ~Has(M, "settings")
      /\ Fits(L, a, l[2])
  BY <1>4 DEF Answered, Asked, Fitting
<1> HIDE DEF L, M, f
<1>6. Has(L', "ack") /\ AtMostOne(L', "ack") /\ Fits(L', a, l[2])
  BY <1>0, <1>3, <1>5, HasAppend, OnceAppend, FitsAppend
<1>7. Answered(e)'
  BY <1>2, <1>5, <1>6 DEF Answered, L
<1>8. Asked(e)'
  BY <1>2, <1>3, <1>5, <1>6 DEF Asked, M
<1>9. Fitting(e)'
  <2>1. l[2] = con[o].remote
    BY <1>5
  <2>2. con[o].remote <= con[o].remote
    BY <1>0
  <2> QED BY <1>2, <1>6, <2>1, <2>2 DEF Fitting, L
<1> QED BY <1>7, <1>8, <1>9 DEF Token

(* What a read takes from the frames of the other end.                       *)
LEMMA ReadLine ==
  ASSUME Types, NEW e \in End, NEW o \in End, o = Other(e), NEW t, Reads(o, t), out' = out
  PROVE  /\ Line(e) # <<>> /\ Line(e)' = Tail(Line(e)) /\ Head(Line(e)).type = t
         /\ Head(Line(e)).arg = Arg(o) /\ Line(o)' = Line(o)
<1>0. /\ wire \in [End -> Seq(Frames)] /\ wire[e] \in Seq(Frames) /\ out[e] \in Seq(Frames)
      /\ Other(o) = e /\ e # o
  BY DEF Types, Other, End
<1>1. /\ wire[e] # <<>> /\ wire'[e] = Tail(wire[e]) /\ Head(wire[e]).type = t
      /\ wire'[o] = wire[o]
  BY <1>0 DEF Reads
<1>2. /\ Tail(wire[e]) \o out[e] = Tail(wire[e] \o out[e])
      /\ Head(wire[e] \o out[e]) = Head(wire[e]) /\ wire[e] \o out[e] # <<>>
  BY <1>0, <1>1, Joined
<1> QED BY <1>0, <1>1, <1>2 DEF Line, Arg

(* o receives the SETTINGS of e.                                             *)
LEMMA TokenReceived ==
  ASSUME Types, NEW e \in End, NEW o \in End, o = Other(e), Token(e), RecvSettings(o)
  PROVE  Token(e)'
<1> DEFINE L == Line(o)
           M == Line(e)
           l == con[e].local
           a == window[e].accepts
           x == Arg(o)
<1>0. /\ L \in Seq(Frames) /\ M \in Seq(Frames) /\ e # o /\ con \in [End -> Con]
      /\ pc \in [End -> Place]
  BY LineTypes DEF Types, Other, End
<1>1. /\ Reads(o, "settings") /\ out' = out /\ window' = window
      /\ con' = [con EXCEPT ![o].remote = x]
      /\ pc' = [pc EXCEPT ![o] = "go_away"] /\ pc[o] # "done"
  BY DEF RecvSettings, Goes, Reads, At
<1>2. /\ con'[e] = con[e] /\ con'[o].remote = x /\ pc'[e] = pc[e]
  BY <1>0, <1>1 DEF Con
<1>3. /\ M # <<>> /\ M' = Tail(M) /\ Head(M).type = "settings" /\ Head(M).arg = x /\ L' = L
  BY <1>1, ReadLine
<1> SUFFICES ASSUME pc'[e] # "done" PROVE Token(e)'
  BY DEF Token
<1>4. Answered(e) /\ Fitting(e) /\ Asked(e)
  BY <1>1, <1>2 DEF Token
<1>5. /\ AtMostOne(L, "ack") /\ Fits(L, a, l[2])
      /\ AtMostOne(M, "settings") /\ Carries(M, l)
      /\ Has(M, "settings") => ~Has(L, "ack")
  BY <1>4 DEF Answered, Asked, Fitting
<1>6. /\ Has(M, "settings") /\ AtMostOne(M', "settings") /\ ~Has(M', "settings")
      /\ Carries(M', l) /\ l = <<"WaitingAck", x>>
  BY <1>0, <1>3, <1>5, HasTail, CarriesTail
<1> HIDE DEF L, M, l, x
<1>7. Answered(e)'
  BY <1>2, <1>3, <1>5, <1>6 DEF Answered, L, l
<1>8. Asked(e)'
  BY <1>2, <1>6 DEF Asked, M, l
<1>9. Fitting(e)'
  BY <1>1, <1>2, <1>3, <1>4 DEF Fitting, L
<1> QED BY <1>7, <1>8, <1>9 DEF Token

(* e asks for another window.                                                *)
LEMMA TokenAsk ==
  ASSUME Types, NEW e \in End, NEW o \in End, o = Other(e), Token(e),
         SendSettings(e), con[e].local[1] = "ToSend", ~Blocked(e)
  PROVE  Token(e)'
<1> DEFINE L == Line(o)
           M == Line(e)
           l == con[e].local
           f == Frame("settings", l[2])
           k == con'[e].local
<1>0. /\ L \in Seq(Frames) /\ M \in Seq(Frames) /\ e # o /\ con \in [End -> Con]
      /\ wire[e] \in Seq(Frames) /\ out[e] \in Seq(Frames) /\ out \in [End -> Seq(Frames)]
      /\ pc \in [End -> Place]
  BY LineTypes DEF Types, Other, End
<1>1. /\ out' = [out EXCEPT ![e] = Append(@, f)] /\ wire' = wire /\ window' = window
      /\ con' = [con EXCEPT ![e].local[1] = "WaitingAck"]
      /\ pc' = [pc EXCEPT ![e] = "recv"] /\ pc[e] # "done"
  BY DEF SendSettings, Unchanged, Buffer, Goes, At
<1>2. l = <<"ToSend", l[2]>> /\ l[2] \in Nat
  <2>1. l \in ({"ToSend", "WaitingAck"} \X Nat) \cup {<<"Synced", None>>}
    BY <1>0 DEF Con
  <2> QED BY <2>1
<1>3. /\ con'[o] = con[o] /\ k = <<"WaitingAck", l[2]>> /\ pc'[o] = pc[o]
      /\ out'[o] = out[o] /\ out'[e] = Append(out[e], f)
  <2>1. con'[e].local = [l EXCEPT ![1] = "WaitingAck"]
    BY <1>0, <1>1 DEF Con
  <2>2. k = <<"WaitingAck", l[2]>>
    BY <1>2, <2>1
  <2> QED BY <1>0, <1>1, <2>2
<1>4. M' = Append(M, f) /\ L' = L /\ f.type = "settings" /\ f.arg = l[2]
  <2>1. f \in Frames /\ f.type = "settings" /\ f.arg = l[2]
    BY <1>2 DEF Frames, Frame
  <2> QED BY <1>0, <1>1, <2>1, LineAppend
<1>5. Answered(e) /\ Fitting(e) /\ (pc[o] # "done" => Asked(e))
  BY <1>1 DEF Token
<1>6. ~Has(L, "ack") /\ con[o].remote = None /\ AtMostOne(L, "ack")
  BY <1>2, <1>5 DEF Answered
<1> HIDE DEF L, M, l, k, f
<1>7. Answered(e)'
  BY <1>3, <1>4, <1>6 DEF Answered, L, k
<1>8. ASSUME pc[o] # "done" PROVE Asked(e)'
  <2>1. /\ AtMostOne(M, "settings") /\ Carries(M, l)
    BY <1>5, <1>8 DEF Asked, M, l
  <2>2. ~Has(M, "settings")
    BY <1>2, <2>1 DEF Has, Carries
  <2>3. AtMostOne(M', "settings") /\ Carries(M', k)
    <3>1. Carries(M, k)
      BY <2>2, CarriesNone
    <3> QED BY <1>0, <1>3, <1>4, <2>1, <2>2, <3>1, OnceAppend, CarriesAppend
  <2> QED BY <1>3, <1>4, <1>6, <2>3 DEF Asked, L, M, k
<1>9. Fitting(e)'
  <2>1. k[2] = l[2]
    BY <1>3
  <2> QED BY <1>1, <1>4, <1>5, <2>1 DEF Fitting, L, k, l
<1> QED BY <1>3, <1>7, <1>8, <1>9 DEF Token

(* The ACK of o comes in at e: it is never refused.                          *)
LEMMA TokenApplied ==
  ASSUME Types, NEW e \in End, NEW o \in End, o = Other(e), Token(e), RecvAck(e)
  PROVE  Token(e)' /\ con[e].local[1] = "WaitingAck"
<1> DEFINE L == Line(o)
           M == Line(e)
           l == con[e].local
           a == window[e].accepts
<1>0. /\ L \in Seq(Frames) /\ M \in Seq(Frames) /\ e # o /\ con \in [End -> Con] /\ Other(o) = e
      /\ window \in [End -> [accepts : Nat, sends : Nat]] /\ pc \in [End -> Place]
  BY LineTypes DEF Types, Other, End
<1>1. Reads(e, "ack") /\ pc[e] # "done"
  BY DEF RecvAck, Reads, At
<1>2. Answered(e) /\ Fitting(e) /\ (pc[o] # "done" => Asked(e))
  BY <1>1 DEF Token
<1>3. out' = out
  BY DEF RecvAck, Refuses
<1>4. /\ L # <<>> /\ L' = Tail(L) /\ Head(L).type = "ack" /\ M' = M
  BY <1>0, <1>1, <1>3, ReadLine
<1>5. /\ Has(L, "ack") /\ ~Has(L', "ack") /\ AtMostOne(L', "ack")
  BY <1>0, <1>2, <1>4, HasTail DEF Answered
<1>6. l[1] = "WaitingAck" /\ con[o].remote = None
  BY <1>2, <1>5 DEF Answered
<1>7. /\ window' = [window EXCEPT ![e].accepts = l[2]]
      /\ con' = [con EXCEPT ![e].local = <<"Synced", None>>]
      /\ pc' = [pc EXCEPT ![e] = "go_away"]
  BY <1>6 DEF RecvAck, Goes
<1>8. /\ con'[o] = con[o] /\ con'[e].local = <<"Synced", None>> /\ pc'[o] = pc[o]
      /\ window'[e].accepts = l[2] /\ window'[o] = window[o]
  BY <1>0, <1>7 DEF Con
<1>9. Fits(L', l[2], None) /\ window[o].sends <= l[2]
  <2>1. Fits(L, a, l[2]) /\ window[o].sends <= l[2]
    BY <1>2, <1>5 DEF Fitting
  <2> QED BY <1>0, <1>4, <1>5, <2>1, FitsTail
<1> HIDE DEF L, M, l
<1>10. Answered(e)'
  BY <1>5, <1>6, <1>8 DEF Answered, L
<1>11. ASSUME pc[o] # "done" PROVE Asked(e)'
  <2>1. AtMostOne(M, "settings") /\ ~Has(M, "settings")
    BY <1>2, <1>5, <1>11 DEF Asked, L, M
  <2>2. Carries(M, <<"Synced", None>>)
    BY <2>1, CarriesNone
  <2> QED BY <1>4, <1>5, <1>6, <1>8, <2>1, <2>2 DEF Asked, L, M
<1>12. Fitting(e)'
  BY <1>5, <1>8, <1>9 DEF Fitting, L
<1> QED BY <1>6, <1>8, <1>10, <1>11, <1>12 DEF Token, l

(* The user of e sets another window, which is not sent yet.                 *)
LEMMA TokenWindow ==
  ASSUME Types, NEW e \in End, NEW o \in End, o = Other(e), Token(e), NEW w, SetWindow(e, w)
  PROVE  Token(e)'
<1> DEFINE L == Line(o)
           M == Line(e)
           l == con[e].local
           a == window[e].accepts
           k == <<"ToSend", w>>
<1>0. /\ L \in Seq(Frames) /\ M \in Seq(Frames) /\ e # o /\ con \in [End -> Con]
  BY LineTypes DEF Types, Other, End
<1>1. /\ l[1] = "Synced" /\ out' = out /\ wire' = wire /\ window' = window /\ pc' = pc
      /\ con' = [con EXCEPT ![e].local = k] /\ pc[e] # "done"
  BY DEF SetWindow, MayAsk
<1>2. con'[o] = con[o] /\ con'[e].local = k /\ L' = L /\ M' = M
  BY <1>0, <1>1 DEF Con, Line
<1>3. Answered(e) /\ Fitting(e) /\ (pc[o] # "done" => Asked(e))
  BY <1>1 DEF Token
<1>4. AtMostOne(L, "ack") /\ ~Has(L, "ack") /\ con[o].remote = None
  BY <1>1, <1>3 DEF Answered
<1>5. Fits(L, a, w) /\ window[o].sends <= a
  <2>1. Fits(L, a, l[2]) /\ window[o].sends <= a
    BY <1>3, <1>4 DEF Fitting
  <2> QED BY <1>0, <1>4, <2>1, FitsNoAck
<1> HIDE DEF L, M, l
<1>6. Answered(e)'
  BY <1>2, <1>4 DEF Answered, L
<1>7. ASSUME pc[o] # "done" PROVE Asked(e)'
  <2>1. AtMostOne(M, "settings") /\ Carries(M, l)
    BY <1>3, <1>7 DEF Asked, M, l
  <2>2. ~Has(M, "settings")
    BY <1>1, <2>1 DEF Has, Carries
  <2>3. Carries(M, k)
    BY <2>2, CarriesNone
  <2> QED BY <1>2, <1>4, <2>1, <2>2, <2>3 DEF Asked, L, M
<1>8. Fitting(e)'
  <2>1. k[2] = w
    OBVIOUS
  <2> QED BY <1>1, <1>2, <1>4, <1>5, <2>1 DEF Fitting, L
<1> QED BY <1>1, <1>6, <1>7, <1>8 DEF Token

(* o puts a frame of a stream into its codec.                                *)
LEMMA TokenData ==
  ASSUME Types, NEW e \in End, NEW o \in End, o = Other(e), Token(e), Complete(o)
  PROVE  Token(e)'
<1> DEFINE L == Line(o)
           M == Line(e)
           l == con[e].local
           a == window[e].accepts
<1>0. /\ L \in Seq(Frames) /\ e # o /\ out \in [End -> Seq(Frames)]
      /\ wire[o] \in Seq(Frames) /\ out[o] \in Seq(Frames)
  BY LineTypes DEF Types, Other, End
<1>1. PICK f \in Frames : /\ out' = [out EXCEPT ![o] = Append(@, f)]
                          /\ f.type = Head(queue[o]).type
                          /\ f.arg = <<Head(queue[o]).arg[1], window[o].sends>>
  BY CompleteAdds
<1>2. wire' = wire /\ con' = con /\ window' = window /\ pc' = pc
  BY DEF Complete
<1>3. f.type \in {"headers", "end"} /\ f.arg[2] = window[o].sends
  <2>1. Head(queue[o]) \in Queued
    BY CompleteAdds
  <2> QED BY <1>1, <2>1 DEF Queued
<1>4. L' = Append(L, f) /\ M' = M
  BY <1>0, <1>1, <1>2, LineAppend
<1> SUFFICES ASSUME pc[e] # "done" PROVE Token(e)'
  BY <1>2 DEF Token
<1>5. Answered(e) /\ Fitting(e) /\ (pc[o] # "done" => Asked(e))
  BY DEF Token
<1> HIDE DEF L, M
<1>6. /\ Has(L', "ack") <=> Has(L, "ack")
      /\ AtMostOne(L, "ack") => AtMostOne(L', "ack")
  BY <1>0, <1>3, <1>4, HasAppend, OnceAppend
<1>7. Fits(L', a, l[2])
  <2>1. Fits(L, a, l[2]) /\ window[o].sends <= IF Has(L, "ack") THEN l[2] ELSE a
    BY <1>5 DEF Fitting, L
  <2> QED BY <1>0, <1>3, <1>4, <2>1, FitsAppend
<1>8. Answered(e)'
  BY <1>2, <1>5, <1>6 DEF Answered, L
<1>9. (pc[o] # "done" => Asked(e))'
  BY <1>2, <1>4, <1>5, <1>6 DEF Asked, L, M
<1>10. Fitting(e)'
  BY <1>2, <1>5, <1>6, <1>7 DEF Fitting, L
<1> QED BY <1>8, <1>9, <1>10 DEF Token

(* The steps that move the SETTINGS of e, or the windows, and all others.    *)
TokenMoves(e, o) ==
  \/ RecvSettings(o) \/ RecvAck(e) \/ Complete(o)
  \/ SendAck(o) /\ con[o].remote # None /\ ~Blocked(o)
  \/ SendSettings(e) /\ con[e].local[1] = "ToSend" /\ ~Blocked(e)
  \/ \E w \in history.scope.windows : SetWindow(e, w)

(* A step that changes neither ends nor lines nor windows.                   *)
LEMMA TokenIdle ==
  ASSUME Types, [Next]_vars, NEW e \in End, NEW o \in End, o = Other(e), Token(e),
         con' = con, out' = out, wire' = wire, window' = window
  PROVE  Token(e)'
<1>1. Line(e)' = Line(e) /\ Line(o)' = Line(o)
  BY DEF Line
<1>2. \A f \in End : pc'[f] # "done" => pc[f] # "done"
  BY DoneStays
<1> QED BY <1>1, <1>2, TokenSame

(* The steps that are not about SETTINGS.                                    *)
LEMMA TokenOthers ==
  ASSUME Based, [Next]_vars, Faults = {}, NEW e \in End, NEW o \in End, o = Other(e), Token(e),
         ~TokenMoves(e, o)
  PROVE  Token(e)'
<1>0. Types /\ Other(o) = e /\ queue \in [End -> Seq(Queued)]
  BY DEF Based, Types, Other, End
<1>1. CASE con' = con /\ out' = out /\ wire' = wire /\ window' = window
  BY <1>0, <1>1, TokenIdle
<1>2. ASSUME ~(con' = con /\ out' = out /\ wire' = wire /\ window' = window)
      PROVE  Token(e)'
  <2>1. ~SendAck(o)
    <3>1. ~Blocked(o)
      BY <1>2 DEF Blocked
    <3>2. SendAck(o) /\ con[o].remote = None => con' = con /\ out' = out /\ wire' = wire /\ window' = window
      BY <3>1 DEF SendAck, Unchanged
    <3> QED BY <1>2, <3>1, <3>2 DEF TokenMoves
  <2>2. ~SendSettings(e)
    <3>1. ~Blocked(e)
      BY <1>2 DEF Blocked
    <3>2. SendSettings(e) /\ con[e].local[1] # "ToSend" =>
             con' = con /\ out' = out /\ wire' = wire /\ window' = window
      BY <3>1 DEF SendSettings, Unchanged
    <3> QED BY <1>2, <3>1, <3>2 DEF TokenMoves
  <2>3. con'[o].remote = con[o].remote /\ con'[e].local = con[e].local
    <3>1. Fields(o, con[o], con'[o]) /\ Fields(e, con[e], con'[e])
      BY FieldsStep
    <3> QED BY <2>1, <2>2, <3>1 DEF Fields, TokenMoves
  <2>4. window'[e].accepts = window[e].accepts /\ window'[o].sends = window[o].sends
    BY <1>0, <2>1, WindowStep DEF TokenMoves
  <2>5. \A f \in End : pc'[f] # "done" => pc[f] # "done"
    BY <1>0, DoneStays
  <2>6. ASSUME pc[e] # "done"
        PROVE  \/ Line(o)' = Line(o)
               \/ \E f : Line(o)' = Append(Line(o), f) /\ f.type # "ack" /\ ~Data(f)
               \/ Line(o) # <<>> /\ Line(o)' = Tail(Line(o)) /\ Head(Line(o)).type # "ack"
    <3>1. LineKind(o)
      BY <1>0, <2>6, LineStep
    <3>2. ASSUME NEW f, Adds(o, f) PROVE f.type # "ack" /\ ~Data(f)
      BY <2>1, <3>2 DEF Adds, TokenMoves, Frame, Data
    <3>3. ASSUME Receives(e), Reads(e, "ack") PROVE FALSE
      BY <3>3, WhatIsRead DEF TokenMoves
    <3> QED BY <1>0, <3>1, <3>2, <3>3 DEF LineKind
  <2>7. ASSUME pc[o] # "done"
        PROVE  \/ Line(e)' = Line(e)
               \/ \E f : Line(e)' = Append(Line(e), f) /\ f.type # "settings"
               \/ Line(e) # <<>> /\ Line(e)' = Tail(Line(e))
    <3>1. LineKind(e)
      BY <1>0, <2>7, LineStep
    <3>2. ASSUME NEW f, Adds(e, f) PROVE f.type # "settings"
      <4>1. Complete(e) => Head(queue[e]).type # "settings"
        <5>1. Complete(e) => Head(queue[e]) \in Queued
          BY <1>0, CompleteAdds
        <5> QED BY <5>1 DEF Queued
      <4> QED BY <2>2, <3>2, <4>1 DEF Adds, Frame
    <3> QED BY <3>1, <3>2 DEF LineKind
  <2> QED BY <1>0, <2>3, <2>4, <2>5, <2>6, <2>7, TokenSame
<1> QED BY <1>1, <1>2

(* Every step keeps the SETTINGS of e, their ACK and the windows in order.   *)
LEMMA TokenStep ==
  ASSUME Based, [Next]_vars, Faults = {}, NEW e \in End, Token(e)
  PROVE  Token(e)' /\ (RecvAck(e) => con[e].local[1] = "WaitingAck")
<1> DEFINE o == Other(e)
<1>0. Types /\ o \in End
  BY DEF Based, Other, End
<1> HIDE DEF o
<1>1. CASE ~TokenMoves(e, o)
  BY <1>0, <1>1, TokenOthers DEF TokenMoves, o
<1>2. RecvAck(e) => Token(e)' /\ con[e].local[1] = "WaitingAck"
  BY <1>0, TokenApplied DEF o
<1>3. RecvSettings(o) \/ Complete(o) => Token(e)'
  BY <1>0, TokenReceived, TokenData DEF o
<1>4. SendAck(o) /\ con[o].remote # None /\ ~Blocked(o) => Token(e)'
  BY <1>0, TokenAck DEF o
<1>5. SendSettings(e) /\ con[e].local[1] = "ToSend" /\ ~Blocked(e) => Token(e)'
  BY <1>0, TokenAsk DEF o
<1>6. \A w : SetWindow(e, w) => Token(e)'
  BY <1>0, TokenWindow DEF o
<1> QED BY <1>1, <1>2, <1>3, <1>4, <1>5, <1>6 DEF TokenMoves

(* The first SETTINGS ask for no less than what is there without them.       *)
LEMMA TokenInit ==
  ASSUME Init, NEW e \in End, Default <= First[e]
  PROVE  Token(e)
<1> DEFINE o == Other(e)
<1>0. o \in End /\ Other(o) = e /\ Default \in Nat /\ First[e] \in Nat
  BY H2ConnectionAssumption DEF Other, End
<1>1. \A f \in End : Line(f) = <<Frame("settings", First[f])>>
  <2>1. \A f \in End : wire[f] = <<>> /\ out[f] = <<Frame("settings", First[f])>>
    BY DEF Init
  <2>2. \A x : <<>> \o <<x>> = <<x>>
    OBVIOUS
  <2> QED BY <2>1, <2>2 DEF Line
<1>2. \A f \in End : con[f].local = <<"WaitingAck", First[f]>> /\ con[f].remote = None
  <2>1. PICK scope \in Scopes : con = [f \in End |-> NewCon(f, scope)]
    BY Zenon DEF Init
  <2> QED BY <2>1 DEF NewCon
<1>3. window[e].accepts = First[e] /\ window[o].sends = Default
  BY <1>0 DEF Init
<1>4. \A f \in End : Len(Line(f)) = 1 /\ Line(f)[1].type = "settings" /\ Line(f)[1].arg = First[f]
  BY <1>1 DEF Frame
<1> HIDE DEF o
<1>5. ~Has(Line(o), "ack") /\ AtMostOne(Line(o), "ack") /\ AtMostOne(Line(e), "settings")
      /\ Carries(Line(e), con[e].local)
  BY <1>0, <1>2, <1>4 DEF Has, AtMostOne, Carries
<1>6. Fits(Line(o), window[e].accepts, con[e].local[2])
  BY <1>0, <1>4 DEF Fits, Data
<1> QED BY <1>0, <1>2, <1>3, <1>5, <1>6 DEF Token, Answered, Asked, Fitting, o

WellMeant(f) == f = None \/ f.reason = "NO_ERROR"

(* No GOAWAY in s accuses; and their identifiers do not rise from m on.      *)
Kind(s) == \A i \in 1..Len(s) : s[i].type = "go_away" => s[i].arg.reason = "NO_ERROR"

Falls(s, m) ==
  \A i \in 1..Len(s) : s[i].type = "go_away" =>
    /\ s[i].arg.last <= m
    /\ \A j \in 1..(i - 1) : s[j].type = "go_away" => s[i].arg.last <= s[j].arg.last

(* Kind, of a sequence and one more, and of its rest.                        *)
LEMMA KindStep ==
  ASSUME NEW S, NEW s \in Seq(S), Kind(s)
  PROVE  /\ \A f : (f.type = "go_away" => f.arg.reason = "NO_ERROR") => Kind(Append(s, f))
         /\ s # <<>> => /\ Kind(Tail(s))
                        /\ Head(s).type = "go_away" => Head(s).arg.reason = "NO_ERROR"
<1>1. ASSUME NEW f, f.type = "go_away" => f.arg.reason = "NO_ERROR" PROVE Kind(Append(s, f))
  <2> DEFINE r == Append(s, f)
  <2>1. /\ Len(r) = Len(s) + 1 /\ r[Len(s) + 1] = f
        /\ \A i \in 1..Len(s) : r[i] = s[i]
        /\ \A i \in 1..(Len(s) + 1) : i = Len(s) + 1 \/ i \in 1..Len(s)
    BY AtEnd
  <2> HIDE DEF r
  <2>2. Kind(r)
    BY <1>1, <2>1 DEF Kind
  <2> QED BY <2>2 DEF r
<1>2. ASSUME s # <<>>
      PROVE  Kind(Tail(s)) /\ (Head(s).type = "go_away" => Head(s).arg.reason = "NO_ERROR")
  <2> DEFINE r == Tail(s)
  <2>1. /\ Head(s) = s[1] /\ 1 \in 1..Len(s)
        /\ \A i \in 1..Len(r) : r[i] = s[i + 1] /\ i + 1 \in 1..Len(s)
    BY <1>2, AtHead
  <2> HIDE DEF r
  <2>2. Kind(r)
    BY <2>1 DEF Kind
  <2> QED BY <2>1, <2>2 DEF Kind, r
<1> QED BY <1>1, <1>2

(* Falls, of a sequence and one more.                                        *)
LEMMA FallsAppend ==
  ASSUME NEW S, NEW s \in Seq(S), NEW f, NEW c, NEW m, Falls(s, m), Announces(s, c),
         f.type = "go_away" => f.arg = c /\ c.last <= m
  PROVE  Falls(Append(s, f), m)
<1> DEFINE r == Append(s, f)
           l == Len(s)
<1>1. /\ Len(r) = l + 1 /\ r[l + 1] = f /\ l \in Nat
      /\ \A i \in 1..l : r[i] = s[i]
      /\ \A i \in 1..(l + 1) : i = l + 1 \/ i \in 1..l
  BY AtEnd
<1> HIDE DEF r, l
<1>2. \A i \in 1..(l + 1) : \A k \in 1..(i - 1) : k \in 1..l
  BY <1>1
<1>3. \A i \in 1..l : s[i].type = "go_away" =>
        /\ s[i].arg.last <= m /\ c.last <= s[i].arg.last
        /\ \A j \in 1..(i - 1) : s[j].type = "go_away" => s[i].arg.last <= s[j].arg.last
  BY DEF Falls, Announces, l
<1>4. ASSUME NEW i \in 1..(l + 1), r[i].type = "go_away"
      PROVE  /\ r[i].arg.last <= m
             /\ \A j \in 1..(i - 1) : r[j].type = "go_away" => r[i].arg.last <= r[j].arg.last
  <2>1. CASE i = l + 1
    BY <1>1, <1>2, <1>3, <1>4, <2>1
  <2>2. CASE i \in 1..l
    BY <1>1, <1>2, <1>3, <1>4, <2>2
  <2> QED BY <1>1, <2>1, <2>2
<1>5. Falls(r, m)
  BY <1>1, <1>4 DEF Falls
<1> QED BY <1>5 DEF r

(* Falls, of a sequence and its rest.                                        *)
LEMMA FallsTail ==
  ASSUME NEW S, NEW s \in Seq(S), s # <<>>, NEW m, Falls(s, m)
  PROVE  /\ Head(s).type = "go_away" => /\ Head(s).arg.last <= m
                                        /\ Falls(Tail(s), Head(s).arg.last)
         /\ Falls(Tail(s), m)
<1> DEFINE r == Tail(s)
           h == Head(s)
<1>1. /\ h = s[1] /\ 1 \in 1..Len(s) /\ Len(r) \in Nat
      /\ \A i \in 1..Len(r) : r[i] = s[i + 1] /\ i + 1 \in 1..Len(s)
  BY AtHead
<1> HIDE DEF r, h
<1>2. ASSUME NEW i \in 1..Len(r), r[i].type = "go_away"
      PROVE  /\ r[i].arg.last <= m
             /\ h.type = "go_away" => r[i].arg.last <= h.arg.last
             /\ \A j \in 1..(i - 1) : r[j].type = "go_away" => r[i].arg.last <= r[j].arg.last
  <2>1. /\ (i + 1) - 1 = i /\ 1 \in 1..i
        /\ \A k \in 1..(i - 1) : k \in 1..Len(r) /\ k + 1 \in 1..i
    BY <1>1
  <2>2. /\ s[i + 1].arg.last <= m
        /\ \A j \in 1..i : s[j].type = "go_away" => s[i + 1].arg.last <= s[j].arg.last
    BY <1>1, <1>2, <2>1 DEF Falls
  <2> QED BY <1>1, <2>1, <2>2
<1>3. Falls(r, m) /\ (h.type = "go_away" => Falls(r, h.arg.last))
  BY <1>2 DEF Falls
<1>4. h.type = "go_away" => h.arg.last <= m
  BY <1>1 DEF Falls
<1> QED BY <1>3, <1>4 DEF r, h

(* The largest identifier the client may use.                                *)
LEMMA SendMaxStep ==
  ASSUME Types, [Next]_vars
  PROVE  \/ ids'.send_max = ids.send_max
         \/ RecvGoAway("client") /\ ids'.send_max = Arg("client").last
<1> DEFINE Stay == ids'.send_max = ids.send_max
<1>0. ids \in [last_processed : 0..MaxId, recv_max : Nat, next : 1..(MaxId + 1), send_max : Nat]
  BY DEF Types
<1>1. ASSUME NEW f \in End, Polls(f) \/ Settles(f) \/ Complete(f) \/ Write(f) PROVE ids' = ids
  BY <1>1 DEF Polls, PollGoAway, SendPong, SendPing, SendAck, FailAck, SendSettings,
     Blocked, Finished, Unchanged, Settles, RecvEof, NoFrame, Flushing, Park, Close, IoError,
     BeginPoll, Complete, Write
<1>2. CASE Use \/ UNCHANGED vars
  <2>1. ids' = ids \/ (\E x : ids' = [ids EXCEPT !.next = x] \/ ids' = [ids EXCEPT !.recv_max = x])
    BY <1>2 DEF Use, SendRequest, DropHandles, GracefulShutdown, Respond, AbruptShutdown,
       UserPing, PollPong, SetWindow, vars
  <2> QED BY <1>0, <2>1
<1>3. ASSUME NEW f \in End, Receives(f), ~RecvGoAway(f) PROVE Stay
  <2>1. ids' = ids \/ (\E x : ids' = [ids EXCEPT !.last_processed = x]
                               \/ ids' = [ids EXCEPT !.recv_max = x])
    BY <1>3 DEF Receives, RecvSettings, RecvAck, RecvPing, RecvPong, RecvBadFrame,
       RecvHeaders, RecvEnd, Refuses
  <2> QED BY <1>0, <2>1
<1>4. ASSUME NEW f \in End, RecvGoAway(f)
      PROVE  Stay \/ (f = "client" /\ ids'.send_max = Arg("client").last)
  <2>1. ids' = ids \/ (f = "client" /\ ids' = [ids EXCEPT !.send_max = Arg("client").last])
    BY <1>4 DEF RecvGoAway, Refuses
  <2> QED BY <1>0, <2>1
<1> QED BY <1>1, <1>2, <1>3, <1>4, NextKinds

(* What a future returns is what take_error says.                            *)
LEMMA ResultStep ==
  ASSUME Types, [Next]_vars, NEW e \in End
  PROVE  \/ result'[e] = result[e]
         \/ IoError(e)
         \/ Close(e) /\ result'[e] = TakeError(con[e])
<1>0. result \in [End -> Outcome \cup {None}]
  BY DEF Types
<1>1. ASSUME NEW f \in End, Polls(f) \/ Receives(f) \/ Complete(f) \/ Write(f)
      PROVE  result' = result
  BY <1>1 DEF Polls, PollGoAway, SendPong, SendPing, SendAck, FailAck, SendSettings,
     Blocked, Finished, Unchanged, Complete, Write,
     Receives, RecvSettings, RecvAck, RecvPing, RecvPong, RecvGoAway, RecvBadFrame,
     RecvHeaders, RecvEnd, Refuses
<1>2. Use \/ UNCHANGED vars => result' = result
  BY DEF Use, SendRequest, DropHandles, GracefulShutdown, Respond, AbruptShutdown,
       UserPing, PollPong, SetWindow, vars
<1>3. ASSUME NEW f \in End, Settles(f), ~IoError(f), ~Close(f) PROVE result' = result
  BY <1>3 DEF Settles, RecvEof, NoFrame, Flushing, Park, BeginPoll
<1>4. ASSUME NEW f \in End, IoError(f)
      PROVE  IoError(e) \/ result'[e] = result[e]
  BY <1>0, <1>4 DEF IoError, Ends
<1>5. ASSUME NEW f \in End, Close(f)
      PROVE  result'[e] = result[e] \/ (Close(e) /\ result'[e] = TakeError(con[e]))
  BY <1>0, <1>5 DEF Close, Ends
<1> QED BY <1>1, <1>2, <1>3, <1>4, <1>5, NextKinds

(* Nobody has accused anybody, at e and in what e has sent.                  *)
Calm(e) ==
  /\ WellMeant(con[e].going_away) /\ WellMeant(con[e].error) /\ con[e].why[1] = "NO_ERROR"
  /\ result[e] \in {None, "ok"}
  /\ pc[Other(e)] # "done" => Kind(Line(e))

(* The client is told of ever smaller identifiers, the last of which is the  *)
(* one the server stands by.                                                 *)
Falling ==
  LET g == con["server"].going_away
  IN  pc["client"] # "done" =>
        /\ Announces(Line("server"), g) /\ Falls(Line("server"), ids.send_max)
        /\ g # None => g.last <= ids.send_max
        /\ g = None => ids.send_max = MaxStreamId

Peace == Falling /\ \A e \in End : Token(e) /\ Calm(e)

(* What e may read next.                                                     *)
LEMMA HeadRead ==
  ASSUME Types, NEW e \in End, NEW t, Reads(e, t)
  PROVE  LET s == Line(Other(e))
         IN  /\ pc[e] # "done" /\ s \in Seq(Frames) /\ s # <<>> /\ Head(s) \in Frames
             /\ Head(s).type = t /\ Head(s).arg = Arg(e)
<1> DEFINE o == Other(e)
<1>0. o \in End
  BY DEF Other, End
<1>1. pc[e] # "done" /\ wire[o] # <<>> /\ Head(wire[o]).type = t /\ Head(wire[o]).arg = Arg(e)
  BY DEF Reads, At, Arg
<1> HIDE DEF o
<1>2. wire[o] \in Seq(Frames) /\ out[o] \in Seq(Frames) /\ Line(o) \in Seq(Frames)
  BY <1>0, LineTypes
<1>3. Line(o) # <<>> /\ Head(Line(o)) = Head(wire[o])
  BY <1>1, <1>2, Joined DEF Line
<1>4. Head(Line(o)) \in Frames
  BY <1>2, <1>3, HeadTailProperties
<1> QED BY <1>1, <1>2, <1>3, <1>4 DEF o

(* Without faults nobody has a reason to refuse a frame.                     *)
LEMMA NoTrouble ==
  ASSUME Based, Faults = {}, Peace, NEW e \in End
  PROVE  ~Trouble(e)
<1>0. Types /\ "client" \in End /\ "server" \in End /\ Other("client") = "server"
      /\ Other("server") = "client"
  BY DEF Based, End, Other
<1>1. ~FailAck(e) /\ ~RecvBadFrame(e) /\ \A reason : ~AbruptShutdown(reason)
  BY DEF FailAck, RecvBadFrame, AbruptShutdown
<1>2. RecvAck(e) => con[e].local[1] = "WaitingAck"
  <2>1. Other(e) \in End
    BY DEF Other, End
  <2> QED BY <1>0, <2>1, TokenApplied DEF Peace
<1>3. ASSUME RecvGoAway("client") PROVE ~(Arg("client").last > ids.send_max)
  <2> DEFINE s == Line("server")
  <2>1. /\ pc["client"] # "done" /\ s \in Seq(Frames) /\ s # <<>> /\ Head(s) \in Frames
        /\ Head(s).type = "go_away" /\ Head(s).arg = Arg("client")
    <3>1. Reads("client", "go_away")
      BY <1>3 DEF RecvGoAway
    <3> QED BY <1>0, <3>1, HeadRead
  <2>2. Falls(s, ids.send_max)
    BY <2>1 DEF Peace, Falling
  <2> HIDE DEF s
  <2>3. Arg("client").last <= ids.send_max
    BY <2>1, <2>2, FallsTail
  <2>4. Arg("client").last \in Nat /\ ids.send_max \in Nat
    <3>1. Arg("client") \in GoAway
      BY <2>1, FrameTypes
    <3> QED BY <1>0, <3>1 DEF GoAway, Types
  <2> QED BY <2>3, <2>4
<1>4. ASSUME NEW t, Reads(e, t), t \in {"headers", "end"}
      PROVE  ~(Arg(e)[2] > window[e].accepts)
  <2> DEFINE o == Other(e)
             s == Line(o)
  <2>1. /\ pc[e] # "done" /\ s \in Seq(Frames) /\ s # <<>> /\ Head(s) \in Frames
        /\ Head(s).type = t /\ Head(s).arg = Arg(e)
    BY <1>0, <1>4, HeadRead
  <2>2. Fits(s, window[e].accepts, con[e].local[2])
    BY <2>1 DEF Peace, Token, Fitting
  <2> HIDE DEF s
  <2>3. Data(Head(s))
    BY <1>4, <2>1 DEF Data
  <2>4. Arg(e)[2] <= window[e].accepts
    BY <2>1, <2>2, <2>3, FitsTail
  <2>5. Arg(e)[2] \in Nat /\ window[e].accepts \in Nat
    <3>1. Arg(e) \in Id \X Nat
      BY <1>4, <2>1, FrameTypes
    <3> QED BY <1>0, <3>1 DEF Types
  <2> QED BY <2>4, <2>5
<1>5. ~Rejects(e)
  BY <1>1, <1>2, <1>3, <1>4 DEF Rejects, RecvHeaders, RecvEnd
<1> QED BY <1>1, <1>5 DEF Trouble

(* Every step keeps e calm.                                                  *)
LEMMA CalmStep ==
  ASSUME Based, [Next]_vars, Faults = {}, Peace, NEW e \in End
  PROVE  Calm(e)'
<1> DEFINE c == con[e]
           d == con'[e]
           o == Other(e)
<1>0. Types /\ c \in Con /\ o \in End /\ Other(o) = e /\ Control(e, c, pc[e])
      /\ \A f \in End : Calm(f)
  BY ConOf DEF Based, Controlled, Other, End, Peace
<1>1. Fields(e, c, d) /\ ~Trouble(e)
  BY FieldsStep, NoTrouble
<1>2. WellMeant(c.going_away) /\ WellMeant(c.error) /\ c.why[1] = "NO_ERROR"
      /\ result[e] \in {None, "ok"}
  BY <1>0 DEF Calm
<1>3. WellMeant(d.going_away) /\ d.why[1] = "NO_ERROR"
  BY <1>1, <1>2 DEF Fields, WellMeant
<1>4. WellMeant(d.error)
  <2>1. CASE d.error = c.error
    BY <1>2, <2>1
  <2>2. CASE d.error # c.error
    <3>1. RecvGoAway(e)
      BY <1>1, <2>2 DEF Fields
    <3>2. Reads(e, "go_away")
      BY <3>1 DEF RecvGoAway
    <3> DEFINE s == Line(o)
    <3>3. /\ pc[e] # "done" /\ s \in Seq(Frames) /\ s # <<>> /\ Head(s) \in Frames
          /\ Head(s).type = "go_away" /\ Head(s).arg = Arg(e)
      BY <1>0, <3>2, HeadRead
    <3>4. Kind(s)
      BY <1>0, <3>3 DEF Calm
    <3> HIDE DEF s
    <3>5. Arg(e).reason = "NO_ERROR"
      BY <3>3, <3>4, KindStep
    <3>6. ~(e = "client" /\ Arg(e).last > ids.send_max)
      BY <1>1, <3>1 DEF Trouble, Rejects
    <3>7. con' = [con EXCEPT ![e] = [c EXCEPT !.error = Arg(e)]]
      BY <3>1, <3>6 DEF RecvGoAway
    <3>8. d.error = Arg(e)
      BY <1>0, <3>7 DEF Types, Con
    <3> QED BY <3>5, <3>8 DEF WellMeant
  <2> QED BY <2>1, <2>2
<1>5. result'[e] \in {None, "ok"}
  <2>1. ~IoError(e)
    BY DEF IoError
  <2>2. TakeError(c) = "ok"
    BY <1>2 DEF TakeError, WellMeant
  <2> QED BY <1>0, <1>2, <2>1, <2>2, ResultStep
<1>6. ASSUME pc'[o] # "done" PROVE Kind(Line(e))'
  <2> DEFINE s == Line(e)
  <2>1. pc[o] # "done"
    BY <1>0, <1>6, DoneStays
  <2>2. Kind(s) /\ s \in Seq(Frames)
    BY <1>0, <2>1, LineTypes DEF Calm
  <2>3. LineKind(e)
    BY <1>0, <2>1, LineStep
  <2>4. ASSUME NEW f \in Frames, Adds(e, f), f.type = "go_away"
        PROVE  f.arg.reason = "NO_ERROR"
    <3>1. Complete(e) => Head(queue[e]).type # "go_away"
      <4>1. Complete(e) => Head(queue[e]) \in Queued
        BY <1>0, CompleteAdds
      <4> QED BY <4>1 DEF Queued
    <3>2. f = Frame("go_away", c.pending) /\ c.pending # None
      BY <2>4, <3>1 DEF Adds, Frame
    <3>3. c.pending = c.going_away
      BY <1>0, <3>2 DEF Control
    <3> QED BY <1>2, <3>2, <3>3 DEF WellMeant, Frame
  <2> HIDE DEF s
  <2>5. Kind(s')
    BY <2>2, <2>3, <2>4, KindStep DEF LineKind, s
  <2> QED BY <2>5 DEF s
<1> QED BY <1>3, <1>4, <1>5, <1>6 DEF Calm

(* Every step keeps the GOAWAYs the client will read falling.                *)
LEMMA FallingStep ==
  ASSUME Safe, [Next]_vars, Faults = {}, Peace
  PROVE  Falling'
<1> DEFINE c == con["server"]
           g == c.going_away
           h == con'["server"].going_away
           s == Line("server")
           m == ids.send_max
<1>0. /\ Based /\ Types /\ Types' /\ "client" \in End /\ "server" \in End
      /\ Other("server") = "client" /\ Other("client") = "server"
      /\ s \in Seq(Frames) /\ s' \in Seq(Frames) /\ c \in Con /\ Control("server", c, pc["server"])
  <2>1. Based /\ Types /\ Types' /\ "client" \in End /\ "server" \in End
    BY TypesStep DEF Safe, Based, Controlled, Control, End
  <2>2. s \in Seq(Frames)
    BY <2>1, LineTypes
  <2>3. s' \in Seq(Frames)
    <3>1. wire'["server"] \in Seq(Frames) /\ out'["server"] \in Seq(Frames)
      BY <2>1 DEF Types
    <3> QED BY <3>1 DEF Line
  <2> QED BY <2>1, <2>2, <2>3, ConOf DEF Based, Controlled, Other
<1> SUFFICES ASSUME pc'["client"] # "done" PROVE Falling'
  BY DEF Falling
<1>1. pc["client"] # "done"
  BY <1>0, DoneStays
<1>2. Announces(s, g) /\ Falls(s, m) /\ (g # None => g.last <= m) /\ (g = None => m = MaxStreamId)
  BY <1>1 DEF Peace, Falling
<1>3. g # None => g.last \in Nat /\ h # None /\ h.last \in Nat /\ h.last <= g.last
  BY <1>0, LastFalls
<1>4. MaxId \in Nat /\ m \in Nat /\ ids'.send_max \in Nat /\ ids.last_processed \in 0..MaxId
  BY <1>0, H2ConnectionAssumption DEF Types
<1>5. g = None /\ h # None => h.last \in Nat /\ h.last <= MaxStreamId
  <2>1. Plan("server")
    BY <1>0, PlanStep
  <2>2. CASE SamePlan("server")
    BY <2>2 DEF SamePlan
  <2>3. CASE Now("server")
    BY <1>4, <2>3 DEF Now, GoAwayFrame, LastProcessed, MaxStreamId
  <2>4. CASE Graceful
    BY <1>4, <2>4 DEF Graceful, GoAwayFrame, MaxStreamId
  <2>5. CASE Final
    BY <1>4, <2>5 DEF Final, GoAwayFrame, MaxStreamId
  <2> QED BY <2>1, <2>2, <2>3, <2>4, <2>5 DEF Plan
<1>6. LineKind("server")
  BY <1>0, <1>1, LineStep
<1>7. ASSUME ids'.send_max = m PROVE Announces(s', g) /\ Falls(s', m)
  <2>1. ASSUME NEW f \in Frames, Adds("server", f), f.type = "go_away"
        PROVE  f.arg = g /\ g # None
    <3>1. Complete("server") => Head(queue["server"]).type # "go_away"
      <4>1. Complete("server") => Head(queue["server"]) \in Queued
        BY <1>0, CompleteAdds
      <4> QED BY <4>1 DEF Queued
    <3>2. f = Frame("go_away", c.pending) /\ c.pending # None
      BY <2>1, <3>1 DEF Adds, Frame
    <3> QED BY <1>0, <3>2 DEF Control, Frame
  <2> HIDE DEF s, g, m
  <2>2. ASSUME NEW f \in Frames, Adds("server", f), s' = Append(s, f)
        PROVE  Announces(s', g) /\ Falls(s', m)
    <3>1. f.type = "go_away" => f.arg = g /\ g # None /\ g.last <= m /\ g.last <= g.last
      BY <1>2, <1>3, <2>1, <2>2
    <3>2. Announces(Append(s, f), g)
      BY <1>0, <1>2, <3>1, AnnouncesAppend
    <3>3. Falls(Append(s, f), m)
      BY <1>0, <1>2, <3>1, FallsAppend
    <3> QED BY <2>2, <3>2, <3>3
  <2>3. s # <<>> => Announces(Tail(s), g) /\ Falls(Tail(s), m)
    BY <1>0, <1>2, AnnouncesTail, FallsTail
  <2> QED BY <1>2, <1>6, <2>2, <2>3 DEF LineKind, s
<1>8. ASSUME RecvGoAway("client"), ids'.send_max = Arg("client").last
      PROVE  /\ Announces(s', g) /\ Falls(s', ids'.send_max)
             /\ g # None /\ g.last <= ids'.send_max
  <2>1. Reads("client", "go_away") /\ out' = out
    BY <1>8 DEF RecvGoAway, Refuses
  <2>2. /\ s # <<>> /\ s' = Tail(s) /\ Head(s).type = "go_away" /\ Head(s).arg = Arg("client")
    BY <1>0, <2>1, ReadLine
  <2> HIDE DEF s, g
  <2>3. Announces(Tail(s), g) /\ g # None /\ g.last <= Head(s).arg.last
    BY <1>0, <1>2, <2>2, AnnouncesTail
  <2>4. Falls(Tail(s), Head(s).arg.last)
    BY <1>0, <1>2, <2>2, FallsTail
  <2> QED BY <1>8, <2>2, <2>3, <2>4
<1>9. ids'.send_max = m \/ (RecvGoAway("client") /\ ids'.send_max = Arg("client").last)
  BY <1>0, SendMaxStep
<1> HIDE DEF s, g, h, m, c
<1>10. Announces(s', g) /\ Falls(s', ids'.send_max)
  BY <1>7, <1>8, <1>9
<1>11. Announces(s', h)
  BY <1>0, <1>3, <1>10, AnnouncesLess
<1>12. h # None => h.last <= ids'.send_max
  <2>1. CASE g = None
    BY <1>2, <1>4, <1>5, <1>8, <1>9, <2>1
  <2>2. CASE g # None
    BY <1>2, <1>3, <1>4, <1>8, <1>9, <2>2
  <2> QED BY <2>1, <2>2
<1>13. h = None => ids'.send_max = MaxStreamId
  BY <1>2, <1>3, <1>8, <1>9
<1> QED BY <1>10, <1>11, <1>12, <1>13 DEF Falling, s, g, h

Peaceful == Faults = {} => Peace

\* Peace at first: the first window is no smaller than the one assumed before.
LEMMA PeacefulInit ==
  ASSUME \A e \in End : Default <= First[e]
  PROVE  Init => Peaceful
<1> SUFFICES ASSUME Init PROVE Peace
  BY DEF Peaceful
<1>1. \A e \in End : Token(e)
  BY TokenInit
<1>2. \A f \in End : Len(Line(f)) = 1 /\ Line(f)[1].type = "settings"
  <2>1. \A f \in End : wire[f] = <<>> /\ out[f] = <<Frame("settings", First[f])>>
    BY DEF Init
  <2>2. \A x : <<>> \o <<x>> = <<x>>
    OBVIOUS
  <2>3. \A f \in End : Line(f) = <<Frame("settings", First[f])>>
    BY <2>1, <2>2 DEF Line
  <2> QED BY <2>3 DEF Frame
<1>3. \A f \in End : /\ con[f].going_away = None /\ con[f].error = None
                     /\ con[f].why[1] = "NO_ERROR" /\ result[f] = None
  <2>1. PICK scope \in Scopes : con = [f \in End |-> NewCon(f, scope)]
    BY Zenon DEF Init
  <2>2. \A f \in End : result[f] = None
    BY DEF Init
  <2> QED BY <2>1, <2>2 DEF NewCon
<1>4. \A f \in End : Kind(Line(f)) /\ \A c, m : Announces(Line(f), c) /\ Falls(Line(f), m)
  BY <1>2 DEF Kind, Announces, Falls
<1>5. ids.send_max = MaxStreamId
  BY DEF Init
<1> QED BY <1>1, <1>3, <1>4, <1>5 DEF Peace, Falling, Calm, WellMeant, End

(* Peace is kept.                                                            *)
LEMMA PeacefulStep == Safe /\ Peaceful /\ [Next]_vars => Peaceful'
<1> SUFFICES ASSUME Safe, Peaceful, [Next]_vars, Faults' = {} PROVE Peace'
  BY DEF Peaceful
<1>1. Faults = {} /\ Peace /\ Based
  BY ScopeStays DEF Safe, Based, Peaceful, Faults
<1> QED BY <1>1, TokenStep, CalmStep, FallingStep DEF Peace

\* settings.rs: when no frame is damaged and no write fails, nobody accuses the other,
\* because each end applies a changed window at the same place in the stream of frames.
THEOREM FalseAlarmNever ==
  ASSUME \A e \in End : Default <= First[e]
  PROVE  Spec => []NoFalseAlarm
<1>1. Init => Peaceful
  BY PeacefulInit
<1>2. Peaceful => NoFalseAlarm
  BY DEF Peaceful, NoFalseAlarm, Peace, Calm
<1> QED BY <1>1, <1>2, PeacefulStep, SafeInvariant, PTL DEF Spec

(* A frame of type t for the stream id is in s.                              *)
Says(s, t, id) == \E i \in 1..Len(s) : s[i].type = t /\ s[i].arg[1] = id

(* Says, of a sequence and one more.                                         *)
LEMMA SaysAppend ==
  ASSUME NEW S, NEW s \in Seq(S), NEW f, NEW t, NEW id
  PROVE  Says(Append(s, f), t, id) <=> Says(s, t, id) \/ (f.type = t /\ f.arg[1] = id)
<1> DEFINE r == Append(s, f)
<1>1. /\ Len(r) = Len(s) + 1 /\ r[Len(s) + 1] = f
      /\ \A i \in 1..Len(s) : r[i] = s[i] /\ i \in 1..(Len(s) + 1)
      /\ \A i \in 1..(Len(s) + 1) : i = Len(s) + 1 \/ i \in 1..Len(s)
      /\ Len(s) + 1 \in 1..(Len(s) + 1)
  BY AtEnd
<1> HIDE DEF r
<1>2. Says(r, t, id) <=> Says(s, t, id) \/ (f.type = t /\ f.arg[1] = id)
  BY <1>1 DEF Says
<1> QED BY <1>2 DEF r

(* Says, of a sequence and its rest.                                         *)
LEMMA SaysTail ==
  ASSUME NEW S, NEW s \in Seq(S), s # <<>>, NEW t, NEW id
  PROVE  Says(s, t, id) <=> Says(Tail(s), t, id) \/ (Head(s).type = t /\ Head(s).arg[1] = id)
<1> DEFINE r == Tail(s)
           h == Head(s)
<1>1. /\ h = s[1] /\ 1 \in 1..Len(s)
      /\ \A i \in 1..Len(r) : r[i] = s[i + 1] /\ i + 1 \in 1..Len(s) /\ i + 1 # 1
      /\ \A i \in 1..Len(s) : i = 1 \/ (i - 1 \in 1..Len(r) /\ s[i] = r[i - 1])
  BY AtHead
<1> HIDE DEF r, h
<1>2. Says(s, t, id) <=> Says(r, t, id) \/ (h.type = t /\ h.arg[1] = id)
  BY <1>1 DEF Says
<1> QED BY <1>2 DEF r, h

(* Says, of two sequences in a row.                                          *)
LEMMA SaysConcat ==
  ASSUME NEW S, NEW w \in Seq(S), NEW o \in Seq(S), NEW t, NEW id, Says(w \o o, t, id)
  PROVE  Says(w, t, id) \/ Says(o, t, id)
<1> DEFINE s == w \o o
<1>1. /\ Len(s) = Len(w) + Len(o) /\ Len(w) \in Nat /\ Len(o) \in Nat
      /\ \A i \in 1..Len(s) : s[i] = IF i <= Len(w) THEN w[i] ELSE o[i - Len(w)]
  BY ConcatProperties
<1>2. PICK i \in 1..Len(s) : s[i].type = t /\ s[i].arg[1] = id
  BY DEF Says
<1> HIDE DEF s
<1>3. CASE i <= Len(w)
  <2>1. i \in 1..Len(w) /\ s[i] = w[i]
    BY <1>1, <1>3
  <2> QED BY <1>2, <2>1 DEF Says
<1>4. CASE ~(i <= Len(w))
  <2>1. i - Len(w) \in 1..Len(o) /\ s[i] = o[i - Len(w)]
    BY <1>1, <1>4
  <2> QED BY <1>2, <2>1 DEF Says
<1> QED BY <1>3, <1>4

(* Says, when frames of other streams are taken out.                         *)
LEMMA SaysWithout ==
  ASSUME NEW S, NEW q \in Seq(S), NEW gone, NEW t, NEW id, Says(q, t, id), id \notin gone
  PROVE  Says(Without(q, gone), t, id)
<1> DEFINE r == Without(q, gone)
<1>1. Kept(r, q, gone, Len(q))
  BY WithoutKeeps
<1> HIDE DEF r
<1>2. Says(r, t, id)
  BY <1>1 DEF Kept, Says
<1> QED BY <1>2 DEF r

(* Nothing is taken out of an empty queue.                                   *)
LEMMA WithoutNothing == \A gone : Without(<<>>, gone) = <<>>
<1> SUFFICES ASSUME NEW gone PROVE Without(<<>>, gone) = <<>>
  OBVIOUS
<1> DEFINE r == Without(<<>>, gone)
<1>1. <<>> \in Seq({}) /\ Len(<<>>) = 0
  OBVIOUS
<1>2. r \in Seq({})
  BY <1>1, WithoutKeeps
<1> HIDE DEF r
<1>3. r = <<>>
  <2>1. Len(r) = 0
    <3> SUFFICES ASSUME Len(r) # 0 PROVE FALSE
      OBVIOUS
    <3>1. 1 \in 1..Len(r)
      BY <1>2
    <3> QED BY <1>2, <3>1, ElementOfSeq
  <2> QED BY <1>2, <2>1
<1> QED BY <1>3 DEF r

(* The HEADERS the server reads are those of the lowest stream on its way.   *)
LEMMA RoadHead ==
  ASSUME Types, RoadOK, Reads("server", "headers"), NEW id,
         Says(Line("client"), "headers", id) \/ Says(queue["client"], "headers", id)
  PROVE  Arg("server")[1] <= id
<1> DEFINE w == wire["client"]
           o == out["client"]
           q == queue["client"]
           n == Arg("server")[1]
<1>0. "client" \in End /\ Other("server") = "client"
  BY DEF End, Other
<1>1. w \in Seq(Frames) /\ o \in Seq(Frames) /\ q \in Seq(Frames) /\ q \in Seq(Queued)
  <2>1. Queued \subseteq Frames /\ q \in Seq(Queued)
    BY <1>0 DEF Frames, Types
  <2> QED BY <1>0, <2>1 DEF Types
<1>2. PICK a \in Nat, b \in Nat :
        /\ a <= b /\ Rising(w, ids.last_processed + 1, a) /\ Rising(o, a, b)
        /\ Rising(q, b, ids.next)
  BY DEF RoadOK
<1>3. w # <<>> /\ Head(w).type = "headers" /\ Head(w).arg[1] = n /\ Head(w) \in Frames
  <2>1. w # <<>> /\ Head(w).type = "headers" /\ Head(w).arg[1] = n
    BY <1>0 DEF Reads, Arg
  <2> QED BY <1>1, <2>1, HeadTailProperties
<1>4. n \in Nat
  BY <1>3, HeadersIds
<1>5. ids.last_processed + 1 \in Nat
  <2>1. MaxId \in Nat /\ ids.last_processed \in 0..MaxId
    BY H2ConnectionAssumption DEF Types
  <2> QED BY <2>1
<1>6. n < a /\ Rising(Tail(w), n + 1, a)
  BY <1>1, <1>2, <1>3, <1>5, RisingTail
<1> SUFFICES n <= id
  OBVIOUS
<1> HIDE DEF w, o, q, n
<1>7. \A s \in Seq(Frames) : Says(s, "headers", id) =>
        \E i \in 1..Len(s) : s[i].type = "headers" /\ s[i].arg[1] = id /\ id \in Nat
  <2> SUFFICES ASSUME NEW s \in Seq(Frames), NEW i \in 1..Len(s), s[i].type = "headers",
                      s[i].arg[1] = id
               PROVE  id \in Nat
    BY DEF Says
  <2>1. s[i] \in Frames
    BY ElementOfSeq
  <2> QED BY <2>1, HeadersIds
<1>8. CASE Says(w, "headers", id)
  <2>1. CASE id = n
    BY <1>4, <2>1
  <2>2. CASE Says(Tail(w), "headers", id)
    <3>1. Tail(w) \in Seq(Frames)
      BY <1>1, <1>3
    <3>2. n + 1 <= id /\ id \in Nat
      BY <1>6, <1>7, <2>2, <3>1 DEF Rising
    <3> QED BY <1>4, <3>2
  <2> QED BY <1>1, <1>3, <1>8, <2>1, <2>2, SaysTail
<1>9. CASE Says(o, "headers", id)
  <2>1. a <= id /\ id \in Nat
    BY <1>1, <1>2, <1>7, <1>9 DEF Rising
  <2> QED BY <1>2, <1>4, <1>6, <2>1
<1>10. CASE Says(q, "headers", id)
  <2>1. b <= id /\ id \in Nat
    BY <1>1, <1>2, <1>7, <1>10 DEF Rising
  <2> QED BY <1>2, <1>4, <1>6, <2>1
<1> QED BY <1>1, <1>8, <1>9, <1>10, SaysConcat DEF Line, w, o, q, n

(* A step of the other end leaves the streams of e alone.                    *)
LEMMA OthersStreams ==
  ASSUME Types, NEW e \in End, NEW f \in End, e # f,
         Polls(f) \/ Receives(f) \/ Settles(f) \/ Complete(f) \/ Write(f)
  PROVE  streams'[e] = streams[e]
<1> DEFINE Stays == streams'[e] = streams[e]
<1>0. streams \in [End -> SUBSET Id]
  BY DEF Types
<1>1. ASSUME NEW gone, AbortStreams(f, gone) PROVE Stays
  BY <1>0, <1>1 DEF AbortStreams
<1>2. ASSUME NEW c, NEW reason, ConnectionError(f, c, reason, "Library") PROVE Stays
  BY <1>1, <1>2 DEF ConnectionError
<1>3. ASSUME RecvHeaders, f = "server" PROVE Stays
  BY <1>0, <1>2, <1>3 DEF RecvHeaders, Refuses
<1>4. ASSUME RecvEnd, f = "client" PROVE Stays
  BY <1>0, <1>2, <1>4 DEF RecvEnd, Refuses
<1> HIDE DEF Stays
<1>5. streams' = streams => Stays
  BY DEF Stays
<1>6. ASSUME Polls(f) PROVE Stays
  BY <1>2, <1>5, <1>6 DEF Polls, PollGoAway, SendPong, SendPing, SendAck, FailAck, SendSettings,
     Blocked, Finished, Unchanged
<1>7. ASSUME Receives(f) PROVE Stays
  BY <1>1, <1>2, <1>3, <1>4, <1>5, <1>7 DEF Receives, RecvSettings, RecvAck, RecvPing, RecvPong,
     RecvGoAway, RecvBadFrame, Refuses
<1>8. ASSUME Settles(f) PROVE Stays
  BY <1>1, <1>5, <1>8 DEF Settles, RecvEof, NoFrame, Flushing, Park, Close, IoError, BeginPoll
<1>9. ASSUME Complete(f) \/ Write(f) PROVE Stays
  BY <1>5, <1>9 DEF Complete, Write
<1> QED BY <1>6, <1>7, <1>8, <1>9 DEF Stays

(* How the streams of e and what they have queued change when nobody is in   *)
(* trouble.                                                                  *)
Traffic(e) ==
  \/ streams'[e] = streams[e] /\ queue'[e] = queue[e]
  \/ Complete(e)
  \/ RecvGoAway(e) /\ ids' = (IF e = "client" THEN [ids EXCEPT !.send_max = Arg(e).last] ELSE ids)
       /\ AbortStreams(e, Above(Arg(e).last)) /\ con' = [con EXCEPT ![e].error = Arg(e)]
       /\ history' = [history EXCEPT !.aborted =
            IF e = "client" THEN @ \cup (Above(Arg(e).last) \cap streams[e]) ELSE @]
  \/ (RecvEof(e) \/ Close(e)) /\ AbortStreams(e, Id)
  \/ e = "client" /\ SendRequest
  \/ /\ e = "client" /\ Reads(e, "end") /\ queue' = queue
     /\ streams' = [streams EXCEPT ![e] = @ \ {Arg(e)[1]}]
     /\ history' = [history EXCEPT !.answered = @ \cup ({Arg(e)[1]} \cap streams[e])]
  \/ /\ e = "server" /\ Reads(e, "headers") /\ ids' = [ids EXCEPT !.last_processed = Arg(e)[1]]
     /\ streams' = [streams EXCEPT ![e] = @ \cup {Arg(e)[1]}] /\ queue' = queue
  \/ e = "server" /\ \E id \in Id : Respond(id)

(* poll_go_away closes an end only when it was told to close now.            *)
LEMMA GoesAway ==
  ASSUME Based, NEW e \in End, PollGoAway(e)
  PROVE  /\ streams' = streams /\ queue' = queue
         /\ pc'[e] = "closing" => con[e].close_now
         /\ con'[e].close_now = con[e].close_now
<1> DEFINE c == con[e]
           d == [c EXCEPT !.pending = None]
<1>0. c \in Con /\ con \in [End -> Con] /\ pc \in [End -> Place] /\ Control(e, c, pc[e])
  BY ConOf DEF Based, Types, Controlled
<1>1. /\ d \in Con /\ d.close_now = c.close_now /\ d.going_away = c.going_away
      /\ c.close_now => c.going_away # None
  BY <1>0 DEF Con, Control
<1>2. CASE Blocked(e)
  BY <1>0, <1>2 DEF Blocked, Parks
<1>3. CASE ~Blocked(e)
  <2>1. IF ~ShouldCloseNow(d)
        THEN con' = [con EXCEPT ![e] = d] /\ Goes(e, "pong") /\ UNCHANGED <<queue, streams>>
        ELSE IF d.is_user THEN Finished(e, d)
        ELSE ConnectionError(e, d, d.going_away.reason, "Library")
    BY <1>3, Zenon DEF PollGoAway
  <2> HIDE DEF d
  <2>2. CASE ~ShouldCloseNow(d)
    BY <1>0, <1>1, <2>1, <2>2 DEF Goes
  <2>3. CASE ShouldCloseNow(d)
    <3>1. d.close_now /\ d.going_away # None
      BY <1>1, <2>3 DEF ShouldCloseNow
    <3>2. Finished(e, d) \/ ConnectionError(e, d, d.going_away.reason, "Library")
      BY <2>1, <2>3
    <3>3. /\ UNCHANGED <<queue, streams>>
          /\ \E x : con' = [con EXCEPT ![e] = [d EXCEPT !.state = "Closing", !.why = x]]
      BY <3>1, <3>2, Zenon DEF Finished, ConnectionError
    <3>4. PICK x : con' = [con EXCEPT ![e] = [d EXCEPT !.state = "Closing", !.why = x]]
      BY <3>3
    <3>5. con'[e].close_now = d.close_now
      BY <1>0, <1>1, <3>4 DEF Con
    <3> QED BY <1>1, <3>1, <3>3, <3>5
  <2> QED BY <2>2, <2>3
<1> QED BY <1>2, <1>3

(* Every step is one of those.                                               *)
LEMMA TrafficStep ==
  ASSUME Based, [Next]_vars, Faults = {}, Peace, NEW e \in End
  PROVE  Traffic(e)
<1> DEFINE Stays == streams'[e] = streams[e] /\ queue'[e] = queue[e]
<1>0. Types /\ ~Trouble(e)
  BY NoTrouble DEF Based
<1>1. ASSUME NEW f \in End, e # f,
             Polls(f) \/ Receives(f) \/ Settles(f) \/ Complete(f) \/ Write(f)
      PROVE  Traffic(e)
  BY <1>0, <1>1, OthersQueue, OthersStreams DEF Traffic
<1>2. Stays => Traffic(e)
  BY DEF Traffic
<1>3. ASSUME Polls(e) PROVE Stays
  <2>1. ~FailAck(e)
    BY <1>0 DEF Trouble
  <2>2. CASE PollGoAway(e)
    BY <2>2, GoesAway
  <2>3. CASE SendPong(e) \/ SendPing(e) \/ SendAck(e) \/ SendSettings(e)
    BY <2>3 DEF SendPong, SendPing, SendAck, SendSettings, Blocked, Unchanged
  <2> QED BY <1>3, <2>1, <2>2, <2>3 DEF Polls
<1>4. ASSUME RecvSettings(e) \/ RecvAck(e) \/ RecvPing(e) \/ RecvPong(e) \/ RecvBadFrame(e)
      PROVE  Stays
  <2>1. ~RecvBadFrame(e) /\ (RecvAck(e) => con[e].local[1] = "WaitingAck")
    BY <1>0 DEF Trouble, Rejects
  <2> QED BY <1>4, <2>1 DEF RecvSettings, RecvAck, RecvPing, RecvPong
<1>5. ASSUME RecvGoAway(e) PROVE Traffic(e)
  <2>1. ~(e = "client" /\ Arg(e).last > ids.send_max)
    BY <1>0, <1>5 DEF Trouble, Rejects
  <2>2. /\ ids' = (IF e = "client" THEN [ids EXCEPT !.send_max = Arg(e).last] ELSE ids)
        /\ AbortStreams(e, Above(Arg(e).last)) /\ con' = [con EXCEPT ![e].error = Arg(e)]
        /\ history' = [history EXCEPT !.aborted =
             IF e = "client" THEN @ \cup (Above(Arg(e).last) \cap streams[e]) ELSE @]
    BY <1>5, <2>1, Zenon DEF RecvGoAway
  <2> QED BY <1>5, <2>2 DEF Traffic
<1>6. ASSUME e = "server", RecvHeaders PROVE Traffic(e)
  <2>1. Reads(e, "headers") /\ ~(Arg(e)[2] > window[e].accepts)
    BY <1>0, <1>6 DEF Trouble, Rejects, RecvHeaders
  <2>2. CASE Ignores(Arg(e)[1])
    BY <1>2, <1>6, <2>2, Zenon DEF RecvHeaders
  <2>3. CASE ~Ignores(Arg(e)[1])
    <3>1. /\ ids' = [ids EXCEPT !.last_processed = Arg(e)[1]]
          /\ streams' = [streams EXCEPT ![e] = @ \cup {Arg(e)[1]}] /\ queue' = queue
      BY <1>6, <2>1, <2>3 DEF RecvHeaders
    <3> QED BY <1>6, <2>1, <3>1 DEF Traffic
  <2> QED BY <2>2, <2>3
<1>7. ASSUME e = "client", RecvEnd PROVE Traffic(e)
  <2>1. Reads(e, "end") /\ ~(Arg(e)[2] > window[e].accepts)
    BY <1>0, <1>7 DEF Trouble, Rejects, RecvEnd
  <2>2. /\ streams' = [streams EXCEPT ![e] = @ \ {Arg(e)[1]}] /\ queue' = queue
        /\ history' = [history EXCEPT !.answered = @ \cup ({Arg(e)[1]} \cap streams[e])]
    BY <1>7, <2>1 DEF RecvEnd
  <2> QED BY <1>7, <2>1, <2>2 DEF Traffic
<1>8. ASSUME Settles(e) PROVE Traffic(e)
  <2>1. ~IoError(e)
    BY DEF IoError
  <2>2. NoFrame(e) \/ Flushing(e) \/ Park(e) \/ BeginPoll(e) => Stays
    BY DEF NoFrame, Flushing, Park, BeginPoll
  <2>3. RecvEof(e) \/ Close(e) => Traffic(e)
    BY DEF RecvEof, Close, Traffic
  <2> QED BY <1>2, <1>8, <2>1, <2>2, <2>3 DEF Settles
<1>9. ASSUME Complete(e) \/ Write(e) \/ UNCHANGED vars PROVE Traffic(e)
  <2>1. Write(e) \/ UNCHANGED vars => Stays
    BY DEF Write, vars
  <2> QED BY <1>2, <1>9, <2>1 DEF Traffic
<1>10. CASE Use
  <2>1. \A reason : ~AbruptShutdown(reason)
    BY DEF AbruptShutdown
  <2>2. CASE \/ DropHandles \/ GracefulShutdown
             \/ \E f \in End : UserPing(f) \/ PollPong(f)
                                 \/ \E w \in history.scope.windows : SetWindow(f, w)
    <3>1. Stays
      BY <2>2 DEF DropHandles, GracefulShutdown, UserPing, PollPong, SetWindow
    <3> QED BY <1>2, <3>1
  <2>3. CASE SendRequest
    <3>1. e = "server" => Stays
      BY <1>0, <2>3 DEF SendRequest, Types
    <3> QED BY <1>2, <2>3, <3>1 DEF Traffic, End
  <2>4. ASSUME NEW id \in Id, Respond(id) PROVE Traffic(e)
    <3>1. e = "client" => Stays
      BY <1>0, <2>4 DEF Respond, Types
    <3> QED BY <1>2, <2>4, <3>1 DEF Traffic, End
  <2> QED BY <1>10, <2>1, <2>2, <2>3, <2>4 DEF Use
<1>11. ASSUME Receives(e) PROVE Traffic(e)
  BY <1>2, <1>4, <1>5, <1>6, <1>7, <1>11 DEF Receives
<1> QED BY <1>1, <1>2, <1>3, <1>8, <1>9, <1>10, <1>11, NextKinds

(* A step that changes any other part of an end leaves its close_now alone.   *)
LEMMA CloseNowStays ==
  ASSUME Types, NEW e \in End, NEW f \in End,
         \/ con' = con
         \/ \E x : con' = [con EXCEPT ![f] = [con[f] EXCEPT !.remote = x]]
         \/ \E x : con' = [con EXCEPT ![f] = [con[f] EXCEPT !.local = x]]
         \/ \E x : con' = [con EXCEPT ![f] = [con[f] EXCEPT !.pending_pong = x]]
         \/ \E x : con' = [con EXCEPT ![f] = [con[f] EXCEPT !.pending_ping = x]]
         \/ \E x : con' = [con EXCEPT ![f] = [con[f] EXCEPT !.user = x]]
         \/ \E x : con' = [con EXCEPT ![f] = [con[f] EXCEPT !.error = x]]
         \/ \E x, y : con' = [con EXCEPT ![f] = [con[f] EXCEPT !.user = x, !.ping_task = y]]
  PROVE  con'[e].close_now = con[e].close_now
<1> DEFINE c == con[f]
<1>0. con \in [End -> Con] /\ c \in Con
  BY DEF Types
<1>1. \A x :
      /\ [c EXCEPT !.remote = x].close_now = c.close_now
      /\ [c EXCEPT !.local = x].close_now = c.close_now
      /\ [c EXCEPT !.pending_pong = x].close_now = c.close_now
      /\ [c EXCEPT !.pending_ping = x].close_now = c.close_now
      /\ [c EXCEPT !.user = x].close_now = c.close_now
      /\ [c EXCEPT !.error = x].close_now = c.close_now
      /\ \A y : [c EXCEPT !.user = x, !.ping_task = y].close_now = c.close_now
  BY <1>0 DEF Con
<1>2. PICK d : d.close_now = c.close_now /\ (con' = con \/ con' = [con EXCEPT ![f] = d])
  BY <1>1
<1>3. CASE con' = con
  BY <1>3
<1>4. CASE con' = [con EXCEPT ![f] = d]
  <2>1. con'[e] = IF e = f THEN d ELSE con[e]
    BY <1>0, <1>4
  <2> QED BY <1>2, <2>1
<1> QED BY <1>2, <1>3, <1>4

(* When an end closes: its streams have ended before, unless the other end   *)
(* is gone.                                                                  *)
LEMMA ClosingStep ==
  ASSUME Based, [Next]_vars, Faults = {}, Peace, NEW e \in End
  PROVE  /\ pc'[e] = "done" => pc[e] = "done" \/ (Close(e) /\ pc[e] = "closing" /\ out[e] = <<>>)
         /\ pc'[e] = "closing" => pc[e] = "closing" \/ con[e].close_now \/ RecvEof(e)
         /\ con'[e].close_now /\ ~con[e].close_now =>
              /\ streams[e] = {} /\ streams' = streams /\ queue' = queue
              /\ e = "server" => queue[e] = <<>>
<1> DEFINE P == pc'[e] = "done" => pc[e] = "done" \/ (Close(e) /\ pc[e] = "closing" /\ out[e] = <<>>)
           Q == pc'[e] = "closing" => pc[e] = "closing" \/ con[e].close_now \/ RecvEof(e)
           R == con'[e].close_now /\ ~con[e].close_now =>
                  /\ streams[e] = {} /\ streams' = streams /\ queue' = queue
                  /\ e = "server" => queue[e] = <<>>
<1> SUFFICES P /\ Q /\ R
  OBVIOUS
<1>0. /\ Types /\ pc \in [End -> Place] /\ con \in [End -> Con] /\ con[e] \in Con
      /\ \A f \in End : ~Trouble(f)
  BY ConOf, NoTrouble DEF Based, Types
<1>1. ASSUME NEW f \in End, e # f,
             Polls(f) \/ Receives(f) \/ Settles(f) \/ Complete(f) \/ Write(f)
      PROVE  pc'[e] = pc[e] /\ con'[e] = con[e]
  <2>1. pc' = pc \/ \E p : pc' = [pc EXCEPT ![f] = p]
    BY <1>1 DEF Polls, PollGoAway, SendPong, SendPing, SendAck, FailAck, SendSettings,
       Settles, RecvEof, NoFrame, Flushing, Park, Close, IoError, BeginPoll, Complete, Write,
       Blocked, Parks, Goes, Finished, ConnectionError, Ends,
       Receives, RecvSettings, RecvAck, RecvPing, RecvPong, RecvGoAway,
       RecvBadFrame, RecvHeaders, RecvEnd, Refuses
  <2>2. con' = con \/ \E c : con' = [con EXCEPT ![f] = c]
    <3>1. CASE Polls(f)
      BY <3>1 DEF Polls, PollGoAway, SendPong, SendPing, SendAck, FailAck, SendSettings,
         Blocked, Finished, ConnectionError, Unchanged
    <3>2. CASE Receives(f)
      BY <3>2 DEF Receives, RecvSettings, RecvAck, RecvPing, RecvPong, RecvGoAway,
         RecvBadFrame, RecvHeaders, RecvEnd, Refuses, ConnectionError
    <3>3. CASE Settles(f) \/ Complete(f) \/ Write(f)
      BY <3>3 DEF Settles, RecvEof, NoFrame, Flushing, Park, Close, IoError, BeginPoll,
         Complete, Write
    <3> QED BY <1>1, <3>1, <3>2, <3>3
  <2> QED BY <1>0, <1>1, <2>1, <2>2
<1>2. pc'[e] = pc[e] /\ con'[e].close_now = con[e].close_now => P /\ Q /\ R
  <2>1. pc'[e] = pc[e] => P /\ Q
    OBVIOUS
  <2>2. con'[e].close_now = con[e].close_now => R
    OBVIOUS
  <2> QED BY <2>1, <2>2
<1>3. pc'[e] \notin {"done", "closing"} /\ con'[e].close_now = con[e].close_now => P /\ Q /\ R
  OBVIOUS
<1>4. ASSUME Polls(e) PROVE P /\ Q /\ R
  <2>1. ~FailAck(e)
    BY <1>0 DEF Trouble
  <2>2. CASE PollGoAway(e)
    <3>1. pc'[e] # "done"
      BY <1>0, <2>2 DEF PollGoAway, Blocked, Parks, Goes, Finished, ConnectionError
    <3> QED BY <2>2, <3>1, GoesAway
  <2>3. CASE SendPong(e) \/ SendPing(e) \/ SendAck(e) \/ SendSettings(e)
    <3>1. pc'[e] \in {"parked", "ping", "ack", "settings", "recv"}
      BY <1>0, <2>3 DEF SendPong, SendPing, SendAck, SendSettings, Blocked, Parks, Goes
    <3>2. con'[e].close_now = con[e].close_now
      <4>1. CASE SendPong(e)
        <5>1. con' = con \/ con' = [con EXCEPT ![e] = [con[e] EXCEPT !.pending_pong = None]]
          BY <4>1 DEF SendPong, Blocked
        <5> QED BY <1>0, <5>1, CloseNowStays, Zenon
      <4>2. CASE SendPing(e)
        <5>1. \/ con' = con
              \/ \E x : con' = [con EXCEPT ![e] = [con[e] EXCEPT !.pending_ping = x]]
              \/ \E x, y : con' = [con EXCEPT ![e] = [con[e] EXCEPT !.user = x, !.ping_task = y]]
          BY <4>2, Zenon DEF SendPing, Blocked
        <5> QED BY <1>0, <5>1, CloseNowStays
      <4>3. CASE SendAck(e)
        <5>1. con' = con \/ con' = [con EXCEPT ![e] = [con[e] EXCEPT !.remote = None]]
          BY <4>3 DEF SendAck, Blocked
        <5> QED BY <1>0, <5>1, CloseNowStays
      <4>4. CASE SendSettings(e)
        <5>1. con' = con \/ \E x : con' = [con EXCEPT ![e] = [con[e] EXCEPT !.local = x]]
          BY <4>4 DEF SendSettings, Blocked
        <5> QED BY <1>0, <5>1, CloseNowStays
      <4> QED BY <2>3, <4>1, <4>2, <4>3, <4>4
    <3> QED BY <1>3, <3>1, <3>2
  <2> QED BY <1>4, <2>1, <2>2, <2>3 DEF Polls
<1>5. ASSUME Receives(e) PROVE P /\ Q /\ R
  <2>1. ~Rejects(e)
    BY <1>0 DEF Trouble
  <2>2. pc' = [pc EXCEPT ![e] = "go_away"]
    BY <1>5, <2>1 DEF Receives, RecvSettings, RecvAck, RecvPing, RecvPong, RecvGoAway,
         RecvHeaders, RecvEnd, Rejects, Goes
  <2>3. con'[e].close_now = con[e].close_now
    <3>1. CASE RecvSettings(e) \/ RecvAck(e) \/ RecvPing(e) \/ RecvGoAway(e)
      <4>1. \/ \E x : con' = [con EXCEPT ![e] = [con[e] EXCEPT !.remote = x]]
            \/ \E x : con' = [con EXCEPT ![e] = [con[e] EXCEPT !.local = x]]
            \/ \E x : con' = [con EXCEPT ![e] = [con[e] EXCEPT !.pending_pong = x]]
            \/ \E x : con' = [con EXCEPT ![e] = [con[e] EXCEPT !.error = x]]
        BY <2>1, <3>1 DEF RecvSettings, RecvAck, RecvPing, RecvGoAway, Rejects
      <4> QED BY <1>0, <4>1, CloseNowStays
    <3>2. CASE RecvPong(e)
      <4>1. \/ \E x : con' = [con EXCEPT ![e] = [con[e] EXCEPT !.user = x]]
            \/ \E g : con' = [con EXCEPT ![e] = [[con[e] EXCEPT !.pending_ping = None]
                                                 EXCEPT !.going_away = g, !.pending = g]]
        BY <3>2 DEF RecvPong, SetGoAway
      <4>2. \A g : [[con[e] EXCEPT !.pending_ping = None]
                      EXCEPT !.going_away = g, !.pending = g].close_now = con[e].close_now
        BY <1>0 DEF Con
      <4>3. ASSUME NEW d, d.close_now = con[e].close_now, con' = [con EXCEPT ![e] = d]
            PROVE  con'[e].close_now = con[e].close_now
        BY <1>0, <4>3
      <4> QED BY <1>0, <4>1, <4>2, <4>3, CloseNowStays
    <3>3. CASE (e = "server" /\ RecvHeaders) \/ (e = "client" /\ RecvEnd)
      BY <2>1, <3>3 DEF RecvHeaders, RecvEnd, Rejects
    <3> QED BY <1>5, <2>1, <3>1, <3>2, <3>3 DEF Receives, Rejects
  <2> QED BY <1>0, <1>3, <2>2, <2>3
<1>6. ASSUME Settles(e) PROVE P /\ Q /\ R
  <2>1. ~IoError(e)
    BY DEF IoError
  <2>2. CASE Close(e)
    <3>1. con'[e].close_now = con[e].close_now /\ pc[e] = "closing" /\ pc'[e] = "done" /\ out[e] = <<>>
      BY <1>0, <2>2 DEF Close, Dropped, Ends, Goes, At, Con
    <3> QED BY <2>2, <3>1
  <2>3. CASE RecvEof(e)
    <3>1. con'[e].close_now = con[e].close_now /\ pc'[e] = "closing"
      BY <1>0, <2>3 DEF RecvEof, Goes, Con
    <3> QED BY <2>3, <3>1
  <2>4. CASE NoFrame(e) \/ Flushing(e)
    <3>1. con' = con /\ pc'[e] \in {"complete", "parked"}
      BY <1>0, <2>4 DEF NoFrame, Flushing, Goes, Parks
    <3> QED BY <1>3, <3>1
  <2>5. CASE Park(e) \/ BeginPoll(e)
    <3>1. pc'[e] \in {"go_away", "parked"} /\ streams' = streams /\ queue' = queue
      BY <1>0, <2>5 DEF Park, BeginPoll, Goes, Parks
    <3>2. con' # con => streams[e] = {} /\ (e = "server" => queue[e] = <<>>)
      BY <2>5 DEF Park, BeginPoll, Idle
    <3> QED BY <3>1, <3>2
  <2> QED BY <1>6, <2>1, <2>2, <2>3, <2>4, <2>5 DEF Settles
<1>7. CASE Complete(e) \/ Write(e) \/ UNCHANGED vars
  <2>1. con' = con /\ pc' = pc
    BY <1>7 DEF Complete, Write, vars
  <2> QED BY <1>2, <2>1
<1>8. CASE Use
  <2>1. pc' = pc
    BY <1>8 DEF Use, SendRequest, DropHandles, GracefulShutdown, Respond, AbruptShutdown,
       UserPing, PollPong, SetWindow
  <2>2. \A reason : ~AbruptShutdown(reason)
    BY DEF AbruptShutdown
  <2>3. CASE SendRequest \/ \E id \in Id : Respond(id)
    BY <1>2, <2>1, <2>3 DEF SendRequest, Respond
  <2>4. CASE DropHandles
    <3>1. con'[e].close_now = con[e].close_now
      BY <1>0, <2>4 DEF DropHandles, Con
    <3> QED BY <1>2, <2>1, <3>1
  <2>5. CASE GracefulShutdown
    <3>1. con'[e].close_now = con[e].close_now
      BY <1>0, <2>5 DEF GracefulShutdown, SetGoAway, Con
    <3> QED BY <1>2, <2>1, <3>1
  <2>6. ASSUME NEW f \in End,
               UserPing(f) \/ PollPong(f) \/ \E w \in history.scope.windows : SetWindow(f, w)
        PROVE  con'[e].close_now = con[e].close_now
    <3>1. CASE UserPing(f)
      <4>1. con' = [con EXCEPT ![f].user = "pending_ping", ![f].ping_task = FALSE]
        BY <3>1 DEF UserPing
      <4> QED BY <1>0, <4>1 DEF Con
    <3>2. CASE PollPong(f)
      <4>1. con' = [con EXCEPT ![f] = [con[f] EXCEPT !.user = "empty"]]
        BY <3>2 DEF PollPong
      <4> QED BY <1>0, <4>1, CloseNowStays
    <3>3. CASE \E w \in history.scope.windows : SetWindow(f, w)
      <4>1. \E x : con' = [con EXCEPT ![f] = [con[f] EXCEPT !.local = x]]
        BY <3>3 DEF SetWindow
      <4> QED BY <1>0, <4>1, CloseNowStays
    <3> QED BY <2>6, <3>1, <3>2, <3>3
  <2> QED BY <1>2, <1>8, <2>1, <2>2, <2>3, <2>4, <2>5, <2>6 DEF Use
<1> HIDE DEF P, Q, R
<1> QED BY <1>1, <1>2, <1>4, <1>5, <1>6, <1>7, <1>8, NextKinds

(* What was answered or given up stays so.                                   *)
LEMMA Grows ==
  ASSUME Types, [Next]_vars
  PROVE  history.answered \subseteq history'.answered /\ history.aborted \subseteq history'.aborted
<1>0. history \in History
  BY DEF Types
<1>1. ASSUME NEW f \in End, Polls(f) \/ Settles(f) \/ Complete(f) \/ Write(f)
      PROVE  history' = history \/ \E x : history' = [history EXCEPT !.acks = x]
  BY <1>1 DEF Polls, PollGoAway, SendPong, SendPing, SendAck, FailAck, SendSettings,
     Blocked, Finished, Unchanged, Settles, RecvEof, NoFrame, Flushing, Park, Close, IoError,
     BeginPoll, Complete, Write
<1>2. CASE Use \/ UNCHANGED vars
  <2>1. history' = history \/ (\E x : history' = [history EXCEPT !.changes = x]
                                 \/ history' = [history EXCEPT !.pings = x])
    BY <1>2 DEF Use, SendRequest, DropHandles, GracefulShutdown, Respond, AbruptShutdown,
       UserPing, PollPong, SetWindow, vars
  <2> QED BY <1>0, <2>1 DEF History
<1>3. ASSUME NEW f \in End, Receives(f)
      PROVE  \/ history' = history
             \/ \E x : history' = [history EXCEPT !.received = x]
             \/ \E x : history' = [history EXCEPT !.processed = x]
             \/ \E x : history' = [history EXCEPT !.answered = @ \cup x]
             \/ \E x : history' = [history EXCEPT !.aborted = @ \cup x]
  <2>1. CASE RecvSettings(f) \/ RecvAck(f) \/ RecvPing(f) \/ RecvPong(f) \/ RecvBadFrame(f)
    BY <2>1 DEF RecvSettings, RecvAck, RecvPing, RecvPong, RecvBadFrame, Refuses
  <2>2. CASE RecvHeaders \/ RecvEnd
    BY <2>2 DEF RecvHeaders, RecvEnd, Refuses
  <2>3. CASE RecvGoAway(f)
    <3>1. history' = history \/ history' = [history EXCEPT !.aborted =
                   IF f = "client" THEN @ \cup (Above(Arg(f).last) \cap streams[f]) ELSE @]
      BY <2>3, Zenon DEF RecvGoAway, Refuses
    <3>2. CASE f = "client"
      BY <3>1, <3>2
    <3>3. CASE f # "client"
      <4>1. [history EXCEPT !.aborted = history.aborted] = history
        BY <1>0 DEF History
      <4> QED BY <3>1, <3>3, <4>1
    <3> QED BY <3>2, <3>3
  <2> QED BY <1>3, <2>1, <2>2, <2>3 DEF Receives
<1> QED BY <1>0, <1>1, <1>2, <1>3, NextKinds DEF History

(* What the end of a future leaves to its user.                              *)
LEMMA DoneIdle ==
  ASSUME Types, [Next]_vars, Faults = {}, NEW e \in End, pc[e] = "done"
  PROVE  /\ con'[e].pending = con[e].pending
         /\ out[e] = <<>> => out'[e] = <<>>
<1> DEFINE Steady == con'[e].pending = con[e].pending /\ (out[e] = <<>> => out'[e] = <<>>)
<1>0. con \in [End -> Con] /\ out \in [End -> Seq(Frames)]
  BY DEF Types
<1>1. ASSUME NEW f \in End, Polls(f) \/ Receives(f) \/ Settles(f) \/ Complete(f) \/ Write(f),
             f # e
      PROVE  Steady
  <2>1. con' = con \/ \E c : con' = [con EXCEPT ![f] = c]
    <3>1. CASE Polls(f)
      BY <3>1 DEF Polls, PollGoAway, SendPong, SendPing, SendAck, FailAck, SendSettings,
         Blocked, Finished, ConnectionError, Unchanged
    <3>2. CASE Receives(f)
      BY <3>2 DEF Receives, RecvSettings, RecvAck, RecvPing, RecvPong, RecvGoAway,
         RecvBadFrame, RecvHeaders, RecvEnd, Refuses, ConnectionError
    <3>3. CASE Settles(f) \/ Complete(f) \/ Write(f)
      BY <3>3 DEF Settles, RecvEof, NoFrame, Flushing, Park, Close, IoError, BeginPoll,
         Complete, Write
    <3> QED BY <1>1, <3>1, <3>2, <3>3
  <2>2. out' = out \/ \E o : out' = [out EXCEPT ![f] = o]
    <3>1. CASE Polls(f)
      BY <3>1, Zenon DEF Polls, PollGoAway, SendPong, SendPing, SendAck, FailAck, SendSettings,
         Blocked, Buffer, Unchanged
    <3>2. CASE Receives(f)
      BY <3>2 DEF Receives, RecvSettings, RecvAck, RecvPing, RecvPong, RecvGoAway,
         RecvBadFrame, RecvHeaders, RecvEnd, Refuses
    <3>3. CASE Settles(f) \/ Complete(f) \/ Write(f)
      BY <3>3 DEF Settles, RecvEof, NoFrame, Flushing, Park, Close, IoError, BeginPoll,
         Complete, Write, Buffer
    <3> QED BY <1>1, <3>1, <3>2, <3>3
  <2>3. con'[e] = con[e] /\ out'[e] = out[e]
    BY <1>0, <1>1, <2>1, <2>2
  <2> QED BY <2>3
<1>2. ~Polls(e) /\ ~Receives(e) /\ ~Complete(e) /\ ~Settles(e)
  <2>1. ~Polls(e)
    BY DEF Polls, PollGoAway, SendPong, SendPing, SendAck, FailAck, SendSettings, At
  <2>2. ~Receives(e)
    BY DEF Receives, RecvSettings, RecvAck, RecvPing, RecvPong, RecvGoAway,
       RecvBadFrame, RecvHeaders, RecvEnd, Reads, At
  <2>3. ~Complete(e) /\ ~Settles(e)
    BY DEF Complete, Settles, RecvEof, NoFrame, Flushing, Park, Close, IoError, BeginPoll, At
  <2> QED BY <2>1, <2>2, <2>3
<1>3. ASSUME Write(e) \/ UNCHANGED vars PROVE Steady
  BY <1>3 DEF Write, vars
<1>4. ASSUME Use PROVE Steady
  <2>1. out' = out
    BY <1>4 DEF Use, SendRequest, DropHandles, GracefulShutdown, Respond, AbruptShutdown,
       UserPing, PollPong, SetWindow
  <2>2. con'[e].pending = con[e].pending
    <3>1. CASE SendRequest \/ DropHandles \/ GracefulShutdown \/ \E id \in Id : Respond(id)
      <4>1. con'[e] = con[e]
        BY <1>0, <3>1 DEF SendRequest, DropHandles, GracefulShutdown, Respond
      <4> QED BY <4>1
    <3>2. \A reason : ~AbruptShutdown(reason)
      BY DEF AbruptShutdown
    <3>3. ASSUME NEW f \in End, UserPing(f) \/ \E w \in history.scope.windows : SetWindow(f, w)
          PROVE  con'[e].pending = con[e].pending
      <4>1. f # e /\ \E c : con' = [con EXCEPT ![f] = c]
        BY <3>3 DEF UserPing, SetWindow
      <4>2. con'[e] = con[e]
        BY <1>0, <4>1
      <4> QED BY <4>2
    <3>4. ASSUME NEW f \in End, PollPong(f) PROVE con'[e].pending = con[e].pending
      BY <1>0, <3>4 DEF PollPong, Con
    <3> QED BY <1>4, <3>1, <3>2, <3>3, <3>4 DEF Use
  <2> QED BY <2>1, <2>2
<1> HIDE DEF Steady
<1>5. ASSUME NEW f \in End, Polls(f) \/ Receives(f) \/ Settles(f) \/ Complete(f) \/ Write(f)
      PROVE  Steady
  <2>1. CASE f # e
    BY <1>1, <1>5, <2>1
  <2>2. CASE f = e
    BY <1>2, <1>3, <1>5, <2>2
  <2> QED BY <2>1, <2>2
<1>6. Steady
  BY <1>3, <1>4, <1>5, NextKinds
<1> QED BY <1>6 DEF Steady

(* What a GOAWAY does that the client does not refuse.                       *)
LEMMA GoAwayRead ==
  ASSUME Based, Faults = {}, Peace, RecvGoAway("client")
  PROVE  /\ Arg("client") \in GoAway /\ Arg("client").last <= ids.send_max
         /\ ids' = [ids EXCEPT !.send_max = Arg("client").last]
         /\ AbortStreams("client", Above(Arg("client").last))
         /\ con' = [con EXCEPT !["client"].error = Arg("client")]
<1> DEFINE e == "client"
<1>0. Types /\ e \in End /\ ~Trouble(e) /\ Reads(e, "go_away")
  BY NoTrouble DEF Based, End, RecvGoAway
<1>1. ~(Arg(e).last > ids.send_max)
  BY <1>0 DEF Trouble, Rejects
<1>2. /\ ids' = [ids EXCEPT !.send_max = Arg(e).last]
      /\ AbortStreams(e, Above(Arg(e).last)) /\ con' = [con EXCEPT ![e].error = Arg(e)]
  BY <1>1, Zenon DEF RecvGoAway
<1>3. Arg(e) \in GoAway /\ Arg(e).last \in Nat /\ ids.send_max \in Nat
  <2>1. Arg(e) \in GoAway
    BY <1>0, HeadRead, FrameTypes
  <2> QED BY <1>0, <2>1 DEF GoAway, Types
<1> QED BY <1>1, <1>2, <1>3

(* What HEADERS do that the server reads.                                    *)
LEMMA HeadersRead ==
  ASSUME Based, Faults = {}, Peace, RecvHeaders
  PROVE  \/ Ignores(Arg("server")[1]) /\ ids' = ids
         \/ ids' = [ids EXCEPT !.last_processed = Arg("server")[1]]
<1>1. "server" \in End /\ ~Trouble("server")
  BY NoTrouble DEF End
<1>2. ~(Arg("server")[2] > window["server"].accepts)
  BY <1>1 DEF Trouble, Rejects
<1> QED BY <1>2, Zenon DEF RecvHeaders

(* What an answer does that the client reads.                                *)
LEMMA EndRead ==
  ASSUME Based, Faults = {}, Peace, RecvEnd
  PROVE  streams'["client"] = streams["client"] \ {Arg("client")[1]}
<1>1. "client" \in End /\ ~Trouble("client") /\ streams \in [End -> SUBSET Id]
  BY NoTrouble DEF End, Based, Types
<1>2. ~(Arg("client")[2] > window["client"].accepts)
  BY <1>1 DEF Trouble, Rejects
<1>3. streams' = [streams EXCEPT !["client"] = @ \ {Arg("client")[1]}]
  BY <1>2, Zenon DEF RecvEnd
<1> QED BY <1>1, <1>3

(* A client that closes has no request left.                                 *)
ClientGone ==
  con["client"].close_now \/ pc["client"] \in {"closing", "done"} => streams["client"] = {}

(* A server that closes has answered all it has taken, and its last GOAWAY   *)
(* says so; it closes otherwise only behind a client that is gone.           *)
ServerGone ==
  LET c == con["server"]
  IN  /\ c.close_now =>
           /\ streams["server"] = {} /\ queue["server"] = <<>>
           /\ c.going_away.last = ids.last_processed
      /\ pc["server"] \in {"closing", "done"} => c.close_now \/ pc["client"] = "done"
      /\ pc["server"] = "done" => c.pending = None

Flushed == \A e \in End : pc[e] = "done" => out[e] = <<>>

(* The client keeps no request that a GOAWAY has refused.                    *)
Obeyed == con["client"].error # None => \A id \in streams["client"] : id <= ids.send_max

(* A client that says it goes away does.                                     *)
Leaving ==
  pc["server"] # "done" =>
    (Has(Line("client"), "go_away") => con["client"].going_away # None)

(* A server that does not go away refuses nothing.                           *)
Willing == con["server"].going_away = None => ids.recv_max = MaxStreamId

(* ClientGone is kept.                                                       *)
LEMMA ClientGoneStep ==
  ASSUME Based, [Next]_vars, Faults = {}, Peace, ClientGone
  PROVE  ClientGone'
<1> DEFINE e == "client"
           Going == con[e].close_now \/ pc[e] \in {"closing", "done"}
<1>0. Types /\ e \in End /\ streams \in [End -> SUBSET Id] /\ Control(e, con[e], pc[e])
  BY DEF Based, Types, Controlled, End
<1>1. /\ pc'[e] = "done" => pc[e] = "done" \/ (Close(e) /\ pc[e] = "closing" /\ out[e] = <<>>)
      /\ pc'[e] = "closing" => pc[e] = "closing" \/ con[e].close_now \/ RecvEof(e)
      /\ con'[e].close_now /\ ~con[e].close_now => streams[e] = {} /\ streams' = streams
  BY <1>0, ClosingStep
<1>2. ASSUME Going PROVE streams'[e] = {}
  <2>1. streams[e] = {}
    BY <1>2 DEF ClientGone
  <2>2. ~SendRequest
    BY <1>0, <1>2 DEF SendRequest, Control
  <2>3. Traffic(e)
    BY <1>0, TrafficStep
  <2>4. ASSUME NEW gone, AbortStreams(e, gone) PROVE streams'[e] = {}
    BY <1>0, <2>1, <2>4 DEF AbortStreams
  <2>5. Complete(e) => streams' = streams
    BY DEF Complete
  <2>6. ASSUME NEW n, streams' = [streams EXCEPT ![e] = @ \ {n}] PROVE streams'[e] = {}
    BY <1>0, <2>1, <2>6
  <2> QED BY <2>1, <2>2, <2>3, <2>4, <2>5, <2>6 DEF Traffic
<1>3. ASSUME RecvEof(e) PROVE streams'[e] = {}
  <2>1. AbortStreams(e, Id)
    BY <1>3 DEF RecvEof
  <2> QED BY <1>0, <2>1 DEF AbortStreams
<1>4. ASSUME con'[e].close_now, ~con[e].close_now PROVE streams'[e] = {}
  BY <1>1, <1>4
<1> HIDE DEF e
<1>5. (con[e].close_now \/ pc[e] \in {"closing", "done"})' => streams'[e] = {}
  BY <1>1, <1>2, <1>3, <1>4
<1> QED BY <1>5 DEF ClientGone, e

(* A future returns when its codec is flushed.                               *)
LEMMA FlushedStep ==
  ASSUME Based, [Next]_vars, Faults = {}, Peace, Flushed
  PROVE  Flushed'
<1> SUFFICES ASSUME NEW e \in End, pc'[e] = "done" PROVE out'[e] = <<>>
  BY DEF Flushed
<1>0. Types
  BY DEF Based
<1>1. pc[e] = "done" \/ (Close(e) /\ pc[e] = "closing" /\ out[e] = <<>>)
  BY ClosingStep
<1>2. CASE pc[e] = "done"
  <2>1. out[e] = <<>>
    BY <1>2 DEF Flushed
  <2> QED BY <1>0, <1>2, <2>1, DoneIdle
<1>3. CASE Close(e) /\ out[e] = <<>>
  BY <1>3 DEF Close
<1> QED BY <1>1, <1>2, <1>3

(* Willing is kept.                                                          *)
LEMMA WillingStep ==
  ASSUME Based, [Next]_vars, Willing
  PROVE  Willing'
<1>1. Plan("server") /\ Types
  BY PlanStep DEF End, Based
<1>2. \A reason \in Reason : GoAwayFrame(LastProcessed("server"), reason) # None
  BY <1>1, LastTypes, NoneIsNone DEF End
<1>3. GoAwayFrame(MaxStreamId, "NO_ERROR") # None
  BY H2ConnectionAssumption, NoneIsNone DEF MaxStreamId, Reason
<1>4. GoAwayFrame(ids.last_processed, "NO_ERROR") # None
  <2>1. ids.last_processed \in Nat
    BY <1>1, H2ConnectionAssumption DEF Types
  <2> QED BY <2>1, NoneIsNone DEF Reason
<1>5. ASSUME con'["server"].going_away = None PROVE ids'.recv_max = MaxStreamId
  <2>1. SamePlan("server") /\ (SameIds \/ Accepts)
    BY <1>1, <1>2, <1>3, <1>4, <1>5 DEF Plan, Now, Graceful, Final
  <2>2. ids.recv_max = MaxStreamId
    BY <1>5, <2>1 DEF SamePlan, Willing
  <2> QED BY <2>1, <2>2 DEF SameIds, Accepts
<1> QED BY <1>5 DEF Willing

(* ServerGone is kept.                                                       *)
LEMMA ServerGoneStep ==
  ASSUME Based, [Next]_vars, Faults = {}, Peace, ServerGone
  PROVE  ServerGone'
<1> DEFINE e == "server"
           Empty == streams'[e] = {} /\ queue'[e] = <<>>
<1>0. /\ Types /\ e \in End /\ streams \in [End -> SUBSET Id] /\ Control(e, con[e], pc[e])
      /\ queue \in [End -> Seq(Queued)] /\ Other(e) = "client" /\ "client" \in End
  BY DEF Based, Types, Controlled, End, Other
<1>1. /\ pc'[e] = "done" => pc[e] = "done" \/ (Close(e) /\ pc[e] = "closing" /\ out[e] = <<>>)
      /\ pc'[e] = "closing" => pc[e] = "closing" \/ con[e].close_now \/ RecvEof(e)
      /\ con'[e].close_now /\ ~con[e].close_now =>
           streams[e] = {} /\ streams' = streams /\ queue' = queue /\ queue[e] = <<>>
  BY <1>0, ClosingStep
<1>2. Plan(e)
  BY <1>0, PlanStep
<1>3. con[e].close_now => pc[e] # "recv" /\ con[e].going_away # None
  BY <1>0 DEF Control, Running
<1>4. ASSUME con'[e].close_now
      PROVE  con'[e].going_away.last = ids'.last_processed
  <2>1. CASE Now(e) /\ SameIds
    BY <2>1 DEF Now, SameIds, GoAwayFrame, LastProcessed
  <2>2. CASE SamePlan(e) /\ (SameIds \/ Accepts)
    <3>1. con[e].close_now /\ con'[e].going_away = con[e].going_away
      BY <1>4, <2>2 DEF SamePlan
    <3>2. SameIds
      BY <1>3, <2>2, <3>1 DEF Accepts
    <3> QED BY <3>1, <3>2 DEF SameIds, ServerGone
  <2>3. CASE Graceful \/ Final
    <3>1. con[e].close_now
      BY <1>4, <2>3 DEF Graceful, Final
    <3> QED BY <1>3, <2>3, <3>1 DEF Graceful, Final
  <2> QED BY <1>2, <2>1, <2>2, <2>3 DEF Plan
<1>5. con[e].close_now => con'[e].close_now
  BY <1>2 DEF Plan, SamePlan, Now, Graceful, Final
<1>6. ASSUME con[e].close_now PROVE Empty
  <2>1. streams[e] = {} /\ queue[e] = <<>> /\ pc[e] # "recv"
    BY <1>3, <1>6 DEF ServerGone
  <2>2. Traffic(e)
    BY <1>0, TrafficStep
  <2>3. ~Complete(e) /\ ~RecvGoAway(e) /\ ~RecvEof(e) /\ ~Reads(e, "headers")
    BY <2>1 DEF Complete, RecvGoAway, RecvEof, Reads, At
  <2>4. \A id : ~Respond(id)
    BY <2>1 DEF Respond
  <2>5. ASSUME AbortStreams(e, Id) PROVE Empty
    BY <1>0, <2>1, <2>5, WithoutNothing DEF AbortStreams
  <2>6. ASSUME streams'[e] = streams[e], queue'[e] = queue[e] PROVE Empty
    BY <2>1, <2>6
  <2> HIDE DEF Empty
  <2> QED BY <2>2, <2>3, <2>4, <2>5, <2>6 DEF Traffic
<1>7. ASSUME con'[e].close_now, ~con[e].close_now PROVE Empty
  BY <1>1, <1>7
<1>8. pc["client"] = "done" => pc'["client"] = "done"
  BY <1>0, DoneStays
<1>9. RecvEof(e) => pc["client"] = "done"
  BY <1>0 DEF RecvEof
<1>10. pc'[e] \in {"closing", "done"} => con'[e].close_now \/ pc'["client"] = "done"
  BY <1>1, <1>5, <1>8, <1>9 DEF ServerGone
<1>11. ASSUME pc'[e] = "done" PROVE con'[e].pending = None
  <2>1. CASE pc[e] = "done"
    <3>1. con[e].pending = None
      BY <2>1 DEF ServerGone
    <3> QED BY <1>0, <2>1, <3>1, DoneIdle
  <2>2. CASE Close(e) /\ pc[e] = "closing"
    <3>1. con[e].pending = None
      BY <1>0, <2>2 DEF Control
    <3>2. con' = [con EXCEPT ![e] = Dropped(con[e])] /\ con \in [End -> Con]
      BY <1>0, <2>2 DEF Close, Types
    <3>3. Dropped(con[e]).pending = con[e].pending
      BY <1>0, <3>2 DEF Dropped, Con
    <3> QED BY <1>0, <3>1, <3>2, <3>3
  <2> QED BY <1>1, <1>11, <2>1, <2>2
<1>12. con'[e].close_now => Empty
  BY <1>6, <1>7
<1> QED BY <1>4, <1>10, <1>11, <1>12 DEF ServerGone

(* Obeyed is kept.                                                           *)
LEMMA ObeyedStep ==
  ASSUME Based, [Next]_vars, Faults = {}, Peace, Obeyed
  PROVE  Obeyed'
<1> DEFINE e == "client"
<1>0. /\ Types /\ e \in End /\ streams \in [End -> SUBSET Id] /\ con \in [End -> Con]
      /\ ids \in [last_processed : 0..MaxId, recv_max : Nat, next : 1..(MaxId + 1),
                  send_max : Nat]
  BY DEF Based, Types, End
<1> SUFFICES ASSUME con'[e].error # None, NEW id \in streams'[e] PROVE id <= ids'.send_max
  BY DEF Obeyed
<1>1. CASE RecvGoAway(e)
  <2>1. /\ ids' = [ids EXCEPT !.send_max = Arg(e).last] /\ AbortStreams(e, Above(Arg(e).last))
        /\ Arg(e) \in GoAway
    BY <1>1, GoAwayRead
  <2>2. ids'.send_max = Arg(e).last /\ Arg(e).last \in Nat
    BY <1>0, <2>1 DEF GoAway
  <2>3. id \in Id /\ id \notin Above(Arg(e).last)
    BY <1>0, <2>1 DEF AbortStreams
  <2>4. ~(id > Arg(e).last) /\ id \in Nat
    BY <2>3 DEF Above, Id
  <2> QED BY <2>2, <2>4
<1>2. CASE ~RecvGoAway(e)
  <2>1. ids'.send_max = ids.send_max /\ con'[e].error = con[e].error
    BY <1>0, <1>2, FieldsStep, SendMaxStep DEF Fields
  <2>2. ~SendRequest
    <3> SUFFICES ASSUME SendRequest PROVE FALSE
      OBVIOUS
    <3>1. con' = con /\ con[e].error = None
      BY DEF SendRequest
    <3> QED BY <2>1, <3>1
  <2>3. streams'[e] \subseteq streams[e]
    <3>1. Traffic(e)
      BY <1>0, TrafficStep
    <3>2. \A gone : AbortStreams(e, gone) => streams'[e] \subseteq streams[e]
      BY <1>0 DEF AbortStreams
    <3>3. Complete(e) => streams' = streams
      BY DEF Complete
    <3>4. \A n : streams' = [streams EXCEPT ![e] = @ \ {n}] => streams'[e] \subseteq streams[e]
      BY <1>0
    <3> QED BY <1>2, <2>2, <3>1, <3>2, <3>3, <3>4 DEF Traffic
  <2> QED BY <2>1, <2>3 DEF Obeyed
<1> QED BY <1>1, <1>2

(* Leaving is kept.                                                          *)
LEMMA LeavingStep ==
  ASSUME Safe, [Next]_vars, Faults = {}, Peace, Leaving
  PROVE  Leaving'
<1> DEFINE e == "client"
           s == Line(e)
<1>0. /\ Based /\ Types /\ e \in End /\ "server" \in End /\ Other(e) = "server"
      /\ Control(e, con[e], pc[e])
  BY DEF Safe, Based, Controlled, End, Other
<1> SUFFICES ASSUME pc'["server"] # "done", Has(Line(e), "go_away")'
             PROVE  con'[e].going_away # None
  BY DEF Leaving
<1>1. pc["server"] # "done"
  BY <1>0, DoneStays
<1>2. con[e].going_away # None => con'[e].going_away # None
  BY <1>0, LastFalls
<1>3. LineKind(e)
  BY <1>0, <1>1, LineStep
<1>4. Has(s, "go_away") => con[e].going_away # None
  BY <1>1 DEF Leaving
<1>5. s \in Seq(Frames)
  BY <1>0, LineTypes
<1>6. CASE Line(e)' = s
  BY <1>2, <1>4, <1>6
<1>7. ASSUME NEW f \in Frames, Line(e)' = Append(s, f), Adds(e, f) PROVE con[e].going_away # None
  <2>1. Has(s, "go_away") \/ f.type = "go_away"
    <3> HIDE DEF s
    <3>1. Has(Append(s, f), "go_away")
      BY <1>7
    <3> QED BY <1>5, <3>1, HasAppend
  <2>2. f.type = "go_away" => con[e].pending # None
    <3> SUFFICES ASSUME f.type = "go_away", con[e].pending = None PROVE FALSE
      OBVIOUS
    <3>1. CASE Complete(e)
      <4>1. Head(queue[e]) \in Queued
        BY <1>0, <3>1, CompleteAdds
      <4>2. Head(queue[e]).type # "go_away"
        BY <4>1 DEF Queued
      <4> QED BY <1>7, <3>1, <4>2 DEF Adds, Frame
    <3>2. CASE ~Complete(e)
      BY <1>7, <3>2 DEF Adds, Frame
    <3> QED BY <3>1, <3>2
  <2> QED BY <1>0, <1>4, <2>1, <2>2 DEF Control
<1>8. ASSUME s # <<>>, Line(e)' = Tail(s) PROVE con[e].going_away # None
  <2> HIDE DEF s
  <2>1. Has(Tail(s), "go_away")
    BY <1>8
  <2>2. Has(s, "go_away")
    BY <1>5, <1>8, <2>1, HasTail
  <2> QED BY <1>4, <2>2
<1> QED BY <1>2, <1>3, <1>6, <1>7, <1>8 DEF LineKind

(* A GOAWAY with the identifier n is in s.                                   *)
Refusal(s, n) == \E i \in 1..Len(s) : s[i].type = "go_away" /\ s[i].arg.last = n

(* Refusal, of a sequence and one more.                                      *)
LEMMA RefusalAppend ==
  ASSUME NEW S, NEW s \in Seq(S), NEW f, NEW n
  PROVE  Refusal(Append(s, f), n) <=> Refusal(s, n) \/ (f.type = "go_away" /\ f.arg.last = n)
<1> DEFINE r == Append(s, f)
<1>1. /\ Len(r) = Len(s) + 1 /\ r[Len(s) + 1] = f
      /\ \A i \in 1..Len(s) : r[i] = s[i] /\ i \in 1..(Len(s) + 1)
      /\ \A i \in 1..(Len(s) + 1) : i = Len(s) + 1 \/ i \in 1..Len(s)
      /\ Len(s) + 1 \in 1..(Len(s) + 1)
  BY AtEnd
<1> HIDE DEF r
<1>2. Refusal(r, n) <=> Refusal(s, n) \/ (f.type = "go_away" /\ f.arg.last = n)
  BY <1>1 DEF Refusal
<1> QED BY <1>2 DEF r

(* Refusal, of a sequence and its rest.                                      *)
LEMMA RefusalTail ==
  ASSUME NEW S, NEW s \in Seq(S), s # <<>>, NEW n
  PROVE  Refusal(s, n) <=> Refusal(Tail(s), n) \/ (Head(s).type = "go_away" /\ Head(s).arg.last = n)
<1> DEFINE r == Tail(s)
           h == Head(s)
<1>1. /\ h = s[1] /\ 1 \in 1..Len(s)
      /\ \A i \in 1..Len(r) : r[i] = s[i + 1] /\ i + 1 \in 1..Len(s) /\ i + 1 # 1
      /\ \A i \in 1..Len(s) : i = 1 \/ (i - 1 \in 1..Len(r) /\ s[i] = r[i - 1])
  BY AtHead
<1> HIDE DEF r, h
<1>2. Refusal(s, n) <=> Refusal(r, n) \/ (h.type = "go_away" /\ h.arg.last = n)
  BY <1>1 DEF Refusal
<1> QED BY <1>2 DEF r, h

(* Once the server goes away, its GOAWAY is about to be sent, on its way, or *)
(* known to the client.                                                      *)
Told ==
  LET c == con["server"]
      n == c.going_away.last
  IN  c.going_away # None /\ pc["client"] # "done" =>
        \/ c.pending # None
        \/ Refusal(Line("server"), n)
        \/ con["client"].error # None /\ ids.send_max <= n

(* A pending GOAWAY that is no longer pending is on its way.                 *)
LEMMA PendingSent ==
  ASSUME Based, [Next]_vars, NEW e \in End,
         con[e].pending # None, con'[e].pending = None, con'[e].going_away = con[e].going_away
  PROVE  Line(e)' = Append(Line(e), Frame("go_away", con[e].going_away))
<1> DEFINE g == con[e].going_away
<1>0. Types /\ Control(e, con[e], pc[e]) /\ con[e] \in Con
  BY DEF Based, Controlled, Types
<1>1. con[e].pending = g /\ g # None /\ g \in GoAway
  BY <1>0 DEF Control, Con
<1>2. PollGoAway(e)
  BY <1>1, FieldsStep DEF Fields
<1>3. ~Blocked(e)
  BY DEF Blocked
<1>4. out' = [out EXCEPT ![e] = Append(@, Frame("go_away", g))] /\ wire' = wire
  BY <1>1, <1>2, <1>3, Zenon DEF PollGoAway
<1>5. Frame("go_away", g) \in Frames
  BY <1>1 DEF Frame, Frames
<1> HIDE DEF g
<1>6. Line(e)' = Append(Line(e), Frame("go_away", g))
  BY <1>0, <1>4, <1>5, LineAppend
<1> QED BY <1>6 DEF g

(* Told is kept.                                                             *)
LEMMA ToldStep ==
  ASSUME Safe, [Next]_vars, Faults = {}, Peace, Told
  PROVE  Told'
<1> DEFINE e == "client"
           o == "server"
           g == con[o].going_away
           n == con[o].going_away.last
           s == Line(o)
<1>0. /\ Based /\ Types /\ e \in End /\ o \in End /\ Other(o) = e
      /\ Control(o, con[o], pc[o]) /\ con[o] \in Con
  BY DEF Safe, Based, Controlled, Types, End, Other
<1> SUFFICES ASSUME con'[o].going_away # None, pc'[e] # "done", con'[o].pending = None
             PROVE  \/ Refusal(Line(o)', con'[o].going_away.last)
                    \/ con'[e].error # None /\ ids'.send_max <= con'[o].going_away.last
  BY DEF Told
<1>1. pc[e] # "done"
  BY <1>0, DoneStays
<1>2. Fields(o, con[o], con'[o]) /\ Fields(e, con[e], con'[e])
  BY <1>0, FieldsStep
<1>3. con'[o].going_away = g
  BY <1>2 DEF Fields
<1>4. g \in GoAway /\ n \in Nat /\ g # None
  BY <1>0, <1>3 DEF Con, GoAway
<1>5. s \in Seq(Frames) /\ LineKind(o)
  BY <1>0, <1>1, LineTypes, LineStep
<1>6. ids.send_max \in Nat
  BY <1>0 DEF Types
<1> HIDE DEF s
<1>7. CASE con[o].pending # None
  <2>1. Line(o)' = Append(s, Frame("go_away", g))
    BY <1>0, <1>3, <1>7, PendingSent DEF s
  <2>2. Refusal(Append(s, Frame("go_away", g)), n)
    BY <1>5, RefusalAppend DEF Frame
  <2> QED BY <1>3, <2>1, <2>2
<1>8. ASSUME RecvGoAway(e), Arg(e).last <= n
      PROVE  con'[e].error # None /\ ids'.send_max <= n
  <2>1. /\ ids' = [ids EXCEPT !.send_max = Arg(e).last] /\ Arg(e) \in GoAway
        /\ con' = [con EXCEPT ![e].error = Arg(e)]
    BY <1>0, <1>8, GoAwayRead
  <2>2. ids'.send_max = Arg(e).last
    BY <1>0, <2>1 DEF Types
  <2>3. con'[e].error = Arg(e)
    BY <1>0, <2>1 DEF Types, Con
  <2> QED BY <1>8, <2>1, <2>2, <2>3, H2ConnectionAssumption
<1>9. CASE Refusal(s, n)
  <2>1. CASE Line(o)' = s
    BY <1>3, <1>9, <2>1
  <2>2. ASSUME NEW f, Line(o)' = Append(s, f) PROVE Refusal(Line(o)', n)
    <3>1. Refusal(Append(s, f), n)
      BY <1>5, <1>9, RefusalAppend
    <3> QED BY <2>2, <3>1
  <2>3. ASSUME s # <<>>, Line(o)' = Tail(s), Receives(e), Reads(e, Head(s).type),
               Head(s) = Head(wire[o])
        PROVE  \/ Refusal(Line(o)', n)
               \/ con'[e].error # None /\ ids'.send_max <= n
    <3>1. CASE Refusal(Tail(s), n)
      BY <2>3, <3>1
    <3>2. CASE Head(s).type = "go_away" /\ Head(s).arg.last = n
      <4>1. RecvGoAway(e)
        BY <1>0, <2>3, <3>2, WhatIsRead
      <4>2. Arg(e) = Head(s).arg
        BY <2>3 DEF Arg, Other
      <4>3. Arg(e).last <= n
        BY <1>4, <3>2, <4>2
      <4> QED BY <1>8, <4>1, <4>3
    <3> QED BY <1>5, <1>9, <2>3, <3>1, <3>2, RefusalTail
  <2> QED BY <1>0, <1>3, <1>5, <2>1, <2>2, <2>3 DEF LineKind, s
<1>10. CASE con[e].error # None /\ ids.send_max <= n
  <2>1. CASE RecvGoAway(e)
    <3>1. Arg(e).last <= ids.send_max /\ Arg(e) \in GoAway
      BY <1>0, <2>1, GoAwayRead
    <3>2. Arg(e).last \in Nat
      BY <3>1 DEF GoAway
    <3>3. Arg(e).last <= n
      BY <1>4, <1>6, <1>10, <3>1, <3>2
    <3> QED BY <1>3, <1>8, <2>1, <3>3
  <2>2. CASE ~RecvGoAway(e)
    <3>1. ids'.send_max = ids.send_max /\ con'[e].error = con[e].error
      BY <1>0, <1>2, <2>2, SendMaxStep DEF Fields
    <3> QED BY <1>3, <1>10, <3>1
  <2> QED BY <2>1, <2>2
<1> QED BY <1>1, <1>4, <1>7, <1>9, <1>10 DEF Told, s

(* A request of the client that the server has not taken is on its way to    *)
(* it, or refused.                                                           *)
Coming ==
  \A id \in streams["client"] : id > ids.last_processed =>
    \/ Says(Line("client"), "headers", id) \/ Says(queue["client"], "headers", id)
    \/ ids.recv_max < id \/ con["server"].close_now

(* A request of the client that the server has taken is being worked on, or  *)
(* its answer is on its way.                                                 *)
Answering ==
  \A id \in streams["client"] : id <= ids.last_processed =>
    \/ id \in streams["server"]
    \/ Says(Line("server"), "end", id) \/ Says(queue["server"], "end", id)

Gone == ClientGone /\ ServerGone /\ Flushed /\ Obeyed /\ Leaving /\ Willing

(* What is known of an end that closes is kept.                              *)
LEMMA GoneStep ==
  ASSUME Safe, [Next]_vars, Faults = {}, Peace, Gone
  PROVE  Gone'
BY ClientGoneStep, ServerGoneStep, FlushedStep, ObeyedStep, LeavingStep, WillingStep
   DEF Safe, Gone

(* What e puts into the codec from its queue is on its line then.            *)
LEMMA SaysStep ==
  ASSUME Types, [Next]_vars, Faults = {}, NEW e \in End, NEW o \in End, o = Other(e),
         pc[o] # "done", NEW t, NEW id,
         Says(Line(e), t, id) \/ Says(queue[e], t, id),
         queue'[e] = queue[e] \/ Complete(e)
           \/ (\E gone : id \notin gone /\ queue'[e] = Without(queue[e], gone))
           \/ (\E f : queue'[e] = Append(queue[e], f))
  PROVE  \/ Says(Line(e)', t, id) \/ Says(queue'[e], t, id)
         \/ Receives(o) /\ Reads(o, t) /\ Arg(o)[1] = id
<1> DEFINE s == Line(e)
           q == queue[e]
           There == Says(Line(e)', t, id) \/ Says(queue'[e], t, id)
           Read == Receives(o) /\ Reads(o, t) /\ Arg(o)[1] = id
<1> SUFFICES There \/ Read
  OBVIOUS
<1>0. s \in Seq(Frames) /\ q \in Seq(Queued) /\ LineKind(e)
  BY LineTypes, LineStep DEF Types
<1> HIDE DEF s, q
<1>1. CASE Says(s, t, id)
  <2>1. ASSUME Line(e)' = s PROVE There
    BY <1>1, <2>1
  <2>2. ASSUME NEW f, Line(e)' = Append(s, f) PROVE There
    <3>1. Says(Append(s, f), t, id)
      BY <1>0, <1>1, SaysAppend
    <3> QED BY <2>2, <3>1
  <2>3. ASSUME s # <<>>, Line(e)' = Tail(s), Receives(o), Reads(o, Head(s).type),
               Head(s) = Head(wire[e])
        PROVE  There \/ Read
    <3>1. CASE Says(Tail(s), t, id)
      BY <2>3, <3>1
    <3>2. CASE Head(s).type = t /\ Head(s).arg[1] = id
      <4>1. Other(o) = e
        BY DEF Other, End
      <4>2. Arg(o) = Head(s).arg
        BY <2>3, <4>1 DEF Arg
      <4> QED BY <2>3, <3>2, <4>2
    <3> QED BY <1>0, <1>1, <2>3, <3>1, <3>2, SaysTail
  <2> HIDE DEF There, Read
  <2> QED BY <1>0, <2>1, <2>2, <2>3 DEF LineKind, s
<1>2. CASE Says(q, t, id)
  <2>1. ASSUME queue'[e] = q PROVE There
    BY <1>2, <2>1
  <2>2. ASSUME NEW f, queue'[e] = Append(q, f) PROVE There
    <3>1. Says(Append(q, f), t, id)
      BY <1>0, <1>2, SaysAppend
    <3> QED BY <2>2, <3>1
  <2>3. ASSUME NEW gone, id \notin gone, queue'[e] = Without(q, gone) PROVE There
    <3>1. Says(Without(q, gone), t, id)
      BY <1>0, <1>2, <2>3, SaysWithout
    <3> QED BY <2>3, <3>1
  <2>4. ASSUME Complete(e) PROVE There
    <3>1. /\ wire' = wire /\ q # <<>> /\ queue'[e] = Tail(q)
          /\ \E f \in Frames : /\ out' = [out EXCEPT ![e] = Append(@, f)]
                               /\ f.type = Head(q).type
                               /\ f.arg = <<Head(q).arg[1], window[e].sends>>
      BY <2>4, CompleteAdds DEF q
    <3>2. PICK f \in Frames : /\ out' = [out EXCEPT ![e] = Append(@, f)]
                              /\ f.type = Head(q).type
                              /\ f.arg = <<Head(q).arg[1], window[e].sends>>
      BY <3>1
    <3>3. Line(e)' = Append(s, f)
      BY <3>1, <3>2, LineAppend DEF s
    <3>4. CASE Says(Tail(q), t, id)
      BY <3>1, <3>4
    <3>5. CASE Head(q).type = t /\ Head(q).arg[1] = id
      <4>1. f.type = t /\ f.arg[1] = id
        BY <3>2, <3>5
      <4>2. Says(Append(s, f), t, id)
        BY <1>0, <4>1, SaysAppend
      <4> QED BY <3>3, <4>2
    <3> QED BY <1>0, <1>2, <3>1, <3>4, <3>5, SaysTail
  <2> HIDE DEF There, Read
  <2> QED BY <2>1, <2>2, <2>3, <2>4 DEF q
<1> QED BY <1>1, <1>2 DEF s, q

(* What is read from the line of the client is above what was taken before.  *)
LEMMA ProcessedGrows ==
  ASSUME Types, RoadOK, [Next]_vars
  PROVE  /\ ids.last_processed \in Nat /\ ids'.last_processed \in Nat
         /\ ids.last_processed <= ids'.last_processed
<1> DEFINE w == wire["client"]
           n == Arg("server")[1]
           l == ids.last_processed
<1>0. "client" \in End /\ Other("server") = "client" /\ l \in Nat /\ w \in Seq(Frames)
  BY H2ConnectionAssumption DEF End, Other, Types
<1>1. ASSUME Reads("server", "headers") PROVE n \in Nat /\ l <= n
  <2>1. PICK a \in Nat : Rising(w, l + 1, a)
    BY DEF RoadOK
  <2>2. w # <<>> /\ Head(w).type = "headers" /\ Head(w).arg[1] = n
    BY <1>0, <1>1 DEF Reads, Arg
  <2>3. Head(w) \in Frames
    BY <1>0, <2>2, HeadTailProperties
  <2>4. n \in Nat
    BY <2>2, <2>3, HeadersIds
  <2>5. l + 1 \in Nat
    BY <1>0
  <2> HIDE DEF w, n, l
  <2>6. l + 1 <= n
    BY <1>0, <2>1, <2>2, <2>5, RisingTail
  <2> QED BY <1>0, <2>4, <2>6
<1>2. ids'.last_processed = l \/ (Reads("server", "headers") /\ ids'.last_processed = n)
  BY ProcessStep
<1> QED BY <1>0, <1>1, <1>2

(* Only the GOAWAY of a client that has no requests is read by the server.   *)
LEMMA NobodyLeaves ==
  ASSUME Safe, Gone, NEW id \in streams["client"]
  PROVE  /\ ~RecvGoAway("server") /\ ~RecvEof("server") /\ pc["client"] \notin {"closing", "done"}
         /\ pc["server"] \in {"closing", "done"} => con["server"].close_now
<1> DEFINE s == Line("client")
<1>0. /\ Types /\ "client" \in End /\ "server" \in End /\ Other("server") = "client"
      /\ Control("client", con["client"], pc["client"])
  BY DEF Safe, Based, Controlled, End, Other
<1>1. ~con["client"].close_now /\ pc["client"] \notin {"closing", "done"}
  BY DEF Gone, ClientGone
<1>2. con["client"].going_away = None
  BY <1>0, <1>1 DEF Control
<1>3. ~RecvEof("server")
  BY <1>0, <1>1 DEF RecvEof
<1>4. ASSUME RecvGoAway("server") PROVE FALSE
  <2>1. Reads("server", "go_away") /\ pc["server"] = "recv"
    BY <1>4 DEF RecvGoAway, Reads, At
  <2>2. s \in Seq(Frames) /\ s # <<>> /\ Head(s).type = "go_away"
    BY <1>0, <2>1, HeadRead
  <2>3. ~Has(s, "go_away")
    BY <1>2, <2>1 DEF Gone, Leaving
  <2> HIDE DEF s
  <2> QED BY <2>2, <2>3, HasTail
<1>5. pc["server"] \in {"closing", "done"} => con["server"].close_now
  BY <1>1 DEF Gone, ServerGone
<1> QED BY <1>1, <1>3, <1>4, <1>5

(* Coming is kept: HEADERS leave the line of the client only for the server. *)
LEMMA ComingStep ==
  ASSUME Safe, [Next]_vars, Faults = {}, Peace, RoadOK, Gone, Coming
  PROVE  Coming'
<1> DEFINE e == "client"
           o == "server"
<1>0. /\ Based /\ Types /\ e \in End /\ o \in End /\ Other(o) = e /\ Other(e) = o
      /\ streams \in [End -> SUBSET Id] /\ queue \in [End -> Seq(Queued)]
  BY DEF Safe, Based, Types, End, Other
<1> SUFFICES ASSUME NEW id \in streams'[e], id > ids'.last_processed, ~con'[o].close_now,
                    ~(ids'.recv_max < id)
             PROVE  Says(Line(e)', "headers", id) \/ Says(queue'[e], "headers", id)
  BY DEF Coming
<1>1. Traffic(e)
  BY <1>0, TrafficStep
<1>2. ASSUME NEW gone, AbortStreams(e, gone)
      PROVE  /\ id \in streams[e] /\ id \notin gone
             /\ queue'[e] = Without(queue[e], gone)
  BY <1>0, <1>2 DEF AbortStreams
<1>3. id \in streams[e] \/ (SendRequest /\ id = ids.next)
  <2>1. SendRequest => streams'[e] = streams[e] \cup {ids.next}
    BY <1>0 DEF SendRequest
  <2>2. Complete(e) => streams' = streams
    BY DEF Complete
  <2>3. \A n : streams' = [streams EXCEPT ![e] = @ \ {n}] => streams'[e] \subseteq streams[e]
    BY <1>0
  <2> QED BY <1>1, <1>2, <2>1, <2>2, <2>3 DEF Traffic
<1> DEFINE f == Frame("headers", <<ids.next, 0>>)
<1>4. SendRequest => queue'[e] = Append(queue[e], f)
  BY <1>0 DEF SendRequest
<1>5. CASE SendRequest /\ id = ids.next
  <2>1. f.type = "headers" /\ f.arg[1] = id
    BY <1>5 DEF Frame
  <2> HIDE DEF f
  <2>2. Says(Append(queue[e], f), "headers", id)
    BY <1>0, <2>1, SaysAppend
  <2> QED BY <1>4, <1>5, <2>2
<1> HIDE DEF f
<1>6. CASE id \in streams[e]
  <2>1. Plan(o)
    BY <1>0, PlanStep
  <2>2. ~con[o].close_now
    BY <2>1 DEF Plan, SamePlan, Now, Graceful, Final
  <2>3. pc[o] # "done"
    BY <1>6, <2>2, NobodyLeaves
  <2>4. id \in Nat /\ id <= MaxId /\ MaxId \in Nat
    BY <1>0, <1>6, H2ConnectionAssumption DEF Id
  <2>5. /\ ids.last_processed \in Nat /\ ids'.last_processed \in Nat
        /\ ids.last_processed <= ids'.last_processed
    BY <1>0, ProcessedGrows
  <2>6. id > ids.last_processed
    BY <2>4, <2>5
  <2>7. ~(ids.recv_max < id)
    <3>1. CASE ids'.recv_max = ids.recv_max
      BY <3>1
    <3>2. CASE Graceful
      <4>1. ids.recv_max = MaxId + 1
        BY <3>2 DEF Graceful, Gone, Willing, MaxStreamId
      <4> QED BY <2>4, <4>1
    <3>3. CASE Final
      <4>1. ids'.recv_max = ids.last_processed
        BY <3>3 DEF Final
      <4> QED BY <2>6, <4>1
    <3> QED BY <2>1, <3>1, <3>2, <3>3 DEF Plan, SameIds, Accepts
  <2>8. Says(Line(e), "headers", id) \/ Says(queue[e], "headers", id)
    BY <1>6, <2>2, <2>6, <2>7 DEF Coming
  <2>9. queue'[e] = queue[e] \/ Complete(e)
          \/ (\E gone : id \notin gone /\ queue'[e] = Without(queue[e], gone))
          \/ (\E g : queue'[e] = Append(queue[e], g))
    BY <1>1, <1>2, <1>4 DEF Traffic
  <2>10. ASSUME Receives(o), Reads(o, "headers"), Arg(o)[1] = id PROVE FALSE
    <3>1. RecvHeaders
      BY <1>0, <2>10, WhatIsRead
    <3>2. \/ Ignores(id) /\ ids' = ids
          \/ ids' = [ids EXCEPT !.last_processed = id]
      BY <1>0, <2>10, <3>1, HeadersRead
    <3>3. CASE Ignores(id)
      BY <2>7, <3>3 DEF Ignores
    <3>4. CASE ids' = [ids EXCEPT !.last_processed = id]
      <4>1. ids'.last_processed = id
        BY <1>0, <3>4 DEF Types
      <4> QED BY <2>4, <4>1
    <3> QED BY <3>2, <3>3, <3>4
  <2> QED BY <1>0, <2>3, <2>8, <2>9, <2>10, SaysStep
<1> QED BY <1>3, <1>5, <1>6

\* Answering is kept: an answer leaves the line of the server only for the client.
LEMMA AnsweringStep ==
  ASSUME Safe, [Next]_vars, Faults = {}, Peace, RoadOK, Gone, Coming, Answering
  PROVE  Answering'
<1> DEFINE e == "client"
           o == "server"
<1>0. /\ Based /\ Types /\ e \in End /\ o \in End /\ Other(o) = e /\ Other(e) = o
      /\ streams \in [End -> SUBSET Id] /\ queue \in [End -> Seq(Queued)]
  BY DEF Safe, Based, Types, End, Other
<1> DEFINE Good(id) == \/ id \in streams'[o]
                       \/ Says(Line(o)', "end", id) \/ Says(queue'[o], "end", id)
<1> SUFFICES ASSUME NEW id \in streams'[e], id <= ids'.last_processed PROVE Good(id)
  BY DEF Answering
<1> DEFINE l == ids.last_processed
           n == Arg(o)[1]
<1>1. l \in Nat /\ ids'.last_processed \in Nat /\ l <= ids'.last_processed
  BY <1>0, ProcessedGrows
<1>2. Traffic(e) /\ Traffic(o)
  BY <1>0, TrafficStep
<1>3. id \in streams[e]
  <2>1. ASSUME SendRequest PROVE id \in streams[e]
    <3>1. ids'.last_processed = l /\ streams'[e] = streams[e] \cup {ids.next}
      BY <1>0, <2>1 DEF SendRequest, Types
    <3>2. l < ids.next /\ ids.next \in Nat
      <4>1. ids.next \in Nat
        BY <1>0, H2ConnectionAssumption DEF Types
      <4> QED BY <1>1, <4>1 DEF RoadOK
    <3> QED BY <1>1, <3>1, <3>2
  <2>2. ASSUME NEW gone, AbortStreams(e, gone) PROVE id \in streams[e]
    BY <1>0, <2>2 DEF AbortStreams
  <2>3. Complete(e) => streams' = streams
    BY DEF Complete
  <2>4. \A x : streams' = [streams EXCEPT ![e] = @ \ {x}] => streams'[e] \subseteq streams[e]
    BY <1>0
  <2>5. streams'[e] = streams[e] => id \in streams[e]
    OBVIOUS
  <2>6. Complete(e) => id \in streams[e]
    BY <2>3
  <2>7. Traffic(e)
    BY <1>2
  <2> HIDE DEF Good, l, n
  <2> QED BY <2>1, <2>2, <2>4, <2>5, <2>6, <2>7 DEF Traffic
<1>4. /\ ~RecvGoAway(o) /\ ~RecvEof(o) /\ pc[e] \notin {"closing", "done"}
      /\ pc[o] \in {"closing", "done"} => con[o].close_now
  BY <1>3, NobodyLeaves
<1>5. id \in Nat
  BY <1>0, <1>3 DEF Id
<1>6. con[o].close_now => pc[o] # "recv" /\ streams[o] = {} /\ queue[o] = <<>>
  BY <1>0 DEF Based, Controlled, Control, Running, Gone, ServerGone
<1>7. ASSUME ~(id <= l) PROVE Good(id)
  <2>1. /\ Reads(o, "headers") /\ ids'.last_processed = n /\ ~Ignores(n)
        /\ streams' = [streams EXCEPT ![o] = @ \cup {n}]
    BY <1>0, <1>7, ProcessStep
  <2>2. ~con[o].close_now
    BY <1>6, <2>1 DEF Reads, At
  <2>3. n \in Nat /\ ids.recv_max \in Nat
    BY <1>0, <1>1, <2>1 DEF Types
  <2>4. Says(Line(e), "headers", id) \/ Says(queue[e], "headers", id)
    <3>1. id > l
      BY <1>1, <1>5, <1>7
    <3>2. ~(ids.recv_max < id)
      BY <1>5, <2>1, <2>3 DEF Ignores
    <3> QED BY <1>3, <2>2, <3>1, <3>2 DEF Coming
  <2>5. n <= id
    BY <1>0, <2>1, <2>4, RoadHead
  <2>6. id = n
    BY <1>5, <2>1, <2>3, <2>5
  <2>7. id \in streams'[o]
    BY <1>0, <2>1, <2>6
  <2> QED BY <2>7
<1>8. CASE id <= l /\ id \in streams[o]
  <2>1. ~Close(o)
    BY <1>4, <1>6, <1>8 DEF Close, At
  <2>2. Complete(o) => streams' = streams
    BY DEF Complete
  <2>3. streams' = [streams EXCEPT ![o] = @ \cup {n}] => id \in streams'[o]
    BY <1>0, <1>8
  <2>4. ASSUME NEW i \in Id, Respond(i) PROVE Good(id)
    <3>1. streams'[o] = streams[o] \ {i}
      BY <1>0, <2>4 DEF Respond
    <3> DEFINE f == Frame("end", <<i, 0>>)
    <3>2. queue'[o] = Append(queue[o], f) /\ f.type = "end" /\ f.arg[1] = i
      BY <1>0, <2>4 DEF Respond, Frame
    <3> HIDE DEF f
    <3>3. CASE id = i
      <4>1. Says(Append(queue[o], f), "end", id)
        BY <1>0, <3>2, <3>3, SaysAppend
      <4> QED BY <3>2, <4>1
    <3> QED BY <1>8, <3>1, <3>3
  <2> QED BY <1>2, <1>4, <1>8, <2>1, <2>2, <2>3, <2>4 DEF Traffic
<1>9. CASE id <= l /\ id \notin streams[o]
  <2>1. Says(Line(o), "end", id) \/ Says(queue[o], "end", id)
    BY <1>3, <1>9 DEF Answering
  <2>2. queue'[o] = queue[o] \/ Complete(o)
          \/ (\E gone : id \notin gone /\ queue'[o] = Without(queue[o], gone))
          \/ (\E f : queue'[o] = Append(queue[o], f))
    <3>1. ASSUME Close(o) PROVE queue'[o] = queue[o]
      <4>1. queue[o] = <<>> /\ AbortStreams(o, Id)
        BY <1>4, <1>6, <3>1 DEF Close, At
      <4> QED BY <1>0, <4>1, WithoutNothing DEF AbortStreams
    <3>2. \A i : Respond(i) => \E f : queue'[o] = Append(queue[o], f)
      BY <1>0 DEF Respond
    <3> QED BY <1>2, <1>4, <3>1, <3>2 DEF Traffic
  <2>3. ASSUME Receives(e), Reads(e, "end"), Arg(e)[1] = id PROVE FALSE
    <3>1. RecvEnd
      BY <1>0, <2>3, WhatIsRead
    <3>2. streams'[e] = streams[e] \ {id}
      BY <1>0, <2>3, <3>1, EndRead
    <3> QED BY <3>2
  <2>4. Says(Line(o)', "end", id) \/ Says(queue'[o], "end", id)
    BY <1>0, <1>4, <2>1, <2>2, <2>3, SaysStep
  <2> QED BY <2>4
<1> HIDE DEF Good
<1> QED BY <1>7, <1>8, <1>9

(* Every request of the client is open, answered, or given up.               *)
Accounted ==
  \A id \in Id : id < ids.next =>
    id \in streams["client"] \cup history.answered \cup history.aborted

Traced == Faults = {} => Gone /\ Told /\ Coming /\ Answering /\ Accounted

(* A client that finds the server gone has no request left.                  *)
LEMMA NothingLeft ==
  ASSUME Safe, Gone, Told, Answering, RecvEof("client")
  PROVE  streams["client"] = {}
<1> DEFINE e == "client"
           o == "server"
           l == ids.last_processed
<1>0. /\ Types /\ e \in End /\ o \in End /\ Other(e) = o /\ Control(o, con[o], pc[o])
      /\ streams \in [End -> SUBSET Id]
  BY DEF Safe, Based, Controlled, Types, End, Other
<1>1. pc[e] = "recv" /\ wire[o] = <<>> /\ pc[o] = "done"
  BY <1>0 DEF RecvEof, At
<1>2. out[o] = <<>>
  BY <1>0, <1>1 DEF Gone, Flushed
<1>3. Line(o) = <<>>
  BY <1>0, <1>1, <1>2, LineTypes
<1>4. con[o].close_now /\ con[o].pending = None
  BY <1>1 DEF Gone, ServerGone
<1>5. streams[o] = {} /\ queue[o] = <<>> /\ con[o].going_away.last = l /\ con[o].going_away # None
  BY <1>0, <1>4 DEF Gone, ServerGone, Control
<1>6. con[e].error # None /\ ids.send_max <= l
  <2>1. ~Refusal(Line(o), l)
    BY <1>3 DEF Refusal
  <2> QED BY <1>1, <1>4, <1>5, <2>1 DEF Told
<1>7. ids.send_max \in Nat /\ l \in Nat
  BY <1>0, H2ConnectionAssumption DEF Types
<1>8. ASSUME NEW id \in streams[e] PROVE FALSE
  <2>1. id \in Nat /\ id <= ids.send_max
    BY <1>0, <1>6, <1>8 DEF Gone, Obeyed, Id
  <2>2. id <= l
    BY <1>6, <1>7, <2>1
  <2>3. ~Says(Line(o), "end", id) /\ ~Says(queue[o], "end", id)
    BY <1>3, <1>5 DEF Says
  <2> QED BY <1>5, <1>8, <2>2, <2>3 DEF Answering
<1> QED BY <1>8

(* Every step accounts for every request.                                    *)
LEMMA AccountedStep ==
  ASSUME Safe, [Next]_vars, Faults = {}, Peace, Gone, Told, Answering, Accounted
  PROVE  Accounted'
<1> DEFINE e == "client"
           Owned(id) == id \in streams'[e] \cup history'.answered \cup history'.aborted
<1>0. /\ Based /\ Types /\ e \in End /\ streams \in [End -> SUBSET Id] /\ history \in History
      /\ ids.next \in Nat /\ MaxId \in Nat
  BY H2ConnectionAssumption, SMTT(30) DEF Safe, Based, Types, End
<1> SUFFICES ASSUME NEW id \in Id, id < ids'.next PROVE Owned(id)
  BY DEF Accounted
<1>1. history.answered \subseteq history'.answered /\ history.aborted \subseteq history'.aborted
  BY <1>0, Grows
<1>2. CASE id \in streams[e]
  <2>1. Traffic(e)
    BY <1>0, TrafficStep
  <2>2. streams'[e] = streams[e] => Owned(id)
    BY <1>2
  <2>3. Complete(e) => Owned(id)
    BY <1>2 DEF Complete
  <2>4. ~RecvEof(e) /\ ~Close(e)
    BY <1>2, NothingLeft DEF Close, At, Gone, ClientGone
  <2>5. SendRequest => Owned(id)
    BY <1>0, <1>2 DEF SendRequest
  <2>6. ASSUME NEW last, AbortStreams(e, Above(last)),
               history' = [history EXCEPT !.aborted = @ \cup (Above(last) \cap streams[e])]
        PROVE  Owned(id)
    <3>1. streams'[e] = streams[e] \ Above(last)
      BY <1>0, <2>6 DEF AbortStreams
    <3>2. history'.aborted = history.aborted \cup (Above(last) \cap streams[e])
      BY <1>0, <2>6 DEF History
    <3> QED BY <1>2, <3>1, <3>2
  <2>7. ASSUME NEW n, streams' = [streams EXCEPT ![e] = @ \ {n}],
               history' = [history EXCEPT !.answered = @ \cup ({n} \cap streams[e])]
        PROVE  Owned(id)
    <3>1. streams'[e] = streams[e] \ {n}
      BY <1>0, <2>7
    <3>2. history'.answered = history.answered \cup ({n} \cap streams[e])
      BY <1>0, <2>7 DEF History
    <3> QED BY <1>2, <3>1, <3>2
  <2> HIDE DEF Owned
  <2> QED BY <2>1, <2>2, <2>3, <2>4, <2>5, <2>6, <2>7 DEF Traffic
<1>3. CASE id \in history.answered \cup history.aborted
  BY <1>1, <1>3
<1>4. CASE ~(id < ids.next)
  <2>1. SendRequest
    BY <1>0, <1>4, NextIdStep
  <2>2. ids'.next = ids.next + 1 /\ streams'[e] = streams[e] \cup {ids.next}
    BY <1>0, <2>1 DEF SendRequest, Types
  <2>3. id = ids.next
    BY <1>0, <1>4, <2>2 DEF Id
  <2> QED BY <2>2, <2>3
<1> HIDE DEF Owned
<1> QED BY <1>2, <1>3, <1>4 DEF Accounted

(* There is no request at first.                                             *)
LEMMA TracedInit == Init => Traced
<1> SUFFICES ASSUME Init PROVE Gone /\ Told /\ Coming /\ Answering /\ Accounted
  BY DEF Traced
<1>1. /\ \A f \in End : pc[f] = "parked" /\ wire[f] = <<>> /\ streams[f] = {}
                        /\ out[f] = <<Frame("settings", First[f])>>
      /\ ids.next = 1 /\ ids.recv_max = MaxStreamId
  BY DEF Init
<1>2. \A f \in End : /\ con[f].going_away = None /\ con[f].error = None
                     /\ ~con[f].close_now
  <2>1. PICK scope \in Scopes : con = [f \in End |-> NewCon(f, scope)]
    BY Zenon DEF Init
  <2> QED BY <2>1 DEF NewCon
<1>3. "client" \in End /\ "server" \in End
  BY DEF End
<1>4. ~Has(Line("client"), "go_away")
  <2>1. \A x : <<>> \o <<x>> = <<x>>
    OBVIOUS
  <2>2. Line("client") = <<Frame("settings", First["client"])>>
    BY <1>1, <1>3, <2>1 DEF Line
  <2> QED BY <2>2 DEF Has, Frame
<1>5. Gone
  BY <1>1, <1>2, <1>3, <1>4 DEF Gone, ClientGone, ServerGone, Flushed, Obeyed, Leaving, Willing
<1>6. Told /\ Coming /\ Answering
  BY <1>1, <1>2, <1>3 DEF Told, Coming, Answering
<1>7. Accounted
  BY <1>1 DEF Accounted, Id
<1> QED BY <1>5, <1>6, <1>7

(* The way of every request is traced by every step.                         *)
LEMMA TracedStep == Safe /\ Peaceful /\ RoadOK /\ Traced /\ [Next]_vars => Traced'
<1> SUFFICES ASSUME Safe, Peaceful, RoadOK, Traced, [Next]_vars, Faults' = {}
             PROVE  (Gone /\ Told /\ Coming /\ Answering /\ Accounted)'
  BY DEF Traced
<1>1. Faults = {} /\ Peace /\ Gone /\ Told /\ Coming /\ Answering /\ Accounted
  BY ScopeStays DEF Safe, Based, Peaceful, Traced, Faults
<1> QED BY <1>1, GoneStep, ToldStep, ComingStep, AnsweringStep, AccountedStep

\* go_away.rs: what the client is told of its requests when the server goes away is
\* true: those given up were not processed, and no other is lost.
THEOREM RequestsAlwaysAccounted ==
  ASSUME \A e \in End : Default <= First[e]
  PROVE  Spec => []RequestsAccounted
<1>1. Init => Peaceful /\ RoadOK /\ Traced
  BY PeacefulInit, RoadInit, TracedInit
<1>2. Safe /\ Traced => NoRequestLost
  <2> SUFFICES ASSUME Safe, Traced, Faults = {}, result["client"] = "ok"
               PROVE  \A id \in Id : id < ids.next => id \in history.answered \cup history.aborted
    BY DEF NoRequestLost
  <2>1. pc["client"] = "done"
    <3>1. "client" \in End /\ None # "ok"
      BY H2ConnectionAssumption DEF End, Outcome
    <3> QED BY <3>1 DEF Safe, Bounded
  <2>2. streams["client"] = {}
    BY <2>1 DEF Traced, Gone, ClientGone
  <2> QED BY <2>2 DEF Traced, Accounted
<1> QED BY <1>1, <1>2, PeacefulStep, RoadStep, TracedStep, SafeInvariant, AbortedNeverProcessed,
       PTL DEF Spec, RequestsAccounted
=============================================================================
