---------------------------- MODULE Http1Proofs -----------------------------
(***************************************************************************)
(* Proofs about ClientPool and about the readers of H1Codec, in the        *)
(* composition that MCHttp1 checks.                                        *)
(***************************************************************************)
EXTENDS MCHttp1, FiniteSetTheorems, SequenceTheorems, WellFoundedInduction, TLAPS

(* Induction over the naturals, for a set.                                   *)
LEMMA Counting ==
  ASSUME NEW T \in SUBSET Nat, 0 \in T, \A n \in T : n + 1 \in T
  PROVE  T = Nat
<1> SUFFICES ASSUME Nat \ T # {} PROVE FALSE
  OBVIOUS
<1>1. PICK m \in Nat \ T : \A n \in Nat \ T : <<n, m>> \notin OpToRel(<, Nat)
  BY NatLessThanWellFounded, WFMin, Nat \ T \subseteq Nat, Zenon
<1>2. \A n \in Nat \ T : ~(n < m)
  BY <1>1 DEF OpToRel
<1>3. m - 1 \in Nat /\ m - 1 < m /\ m = (m - 1) + 1
  <2>1. m \in Nat /\ m # 0
    BY <1>1
  <2> QED BY <2>1
<1>4. m - 1 \in T
  BY <1>2, <1>3
<1> QED BY <1>1, <1>3, <1>4

-----------------------------------------------------------------------------
(* What the variables are.                                                   *)
Place == Holding \cup {"new", "dial", "ok", "err", "gone"}

Item == [req : Request, part : {"head", "body"}, body : {"none", "some"}, close : BOOLEAN]

Connection ==
  [key : Key, up : BOOLEAN, asked : Seq(Request), wire : Seq(Item),
   spoilers : SUBSET Request, found_dead : BOOLEAN]

IdleConnection == [conn : Nat, at : Nat]

PooledConnection ==
  [key : Key \cup {None}, pc : Place, conn : Nat, reusable : BOOLEAN,
   remove_h2 : BOOLEAN, close : BOOLEAN, got : Request \cup {None}, age : Nat]

Typed ==
  /\ scope \in Scopes
  /\ mapping \in [Key -> Seq(IdleConnection)]
  /\ conns \in Seq(Connection)
  /\ tasks \in [Request -> PooledConnection]
  /\ clock \in Nat /\ swept \in Nat /\ open \in BOOLEAN

Holds(r) == tasks[r].pc \in Holding
Made(c, key) == c \in Conn /\ conns[c].key = key

(* An entry of the pool is a connection of its key and was put there since   *)
(* the last but one sweep.                                                   *)
Entry(key, idle) ==
  Made(idle.conn, key) /\ idle.at <= clock /\ swept <= idle.at + Dur

\* No connection is in a queue twice.
Distinct(q) == \A i, j \in DOMAIN q : q[i].conn = q[j].conn => i = j

QueueOK(key, q) ==
  (\A i \in DOMAIN q : Entry(key, q[i])) /\ Len(q) <= MaxIdle + 1 /\ Distinct(q)

(* A request that holds a connection holds one of its key; what it holds     *)
(* of HTTP/1 goes back to the pool.                                          *)
Stands(t) ==
  /\ t.pc \in Holding \cup {"ok"} => t.key \in Key /\ Made(t.conn, t.key)
  /\ t.pc \in Holding => ~t.remove_h2 /\ (Proto[t.key] = "h1" => t.reusable)
  /\ t.pc = "err" => t.conn = 0 \/ t.conn \in Conn
  /\ t.pc = "dial" => t.key \in Key /\ t.conn = 0 /\ ~t.remove_h2
  /\ t.age <= 2 * Dur

Placed ==
  /\ swept <= clock /\ (open => clock <= swept + Dur)
  /\ \A key \in Key : QueueOK(key, mapping[key]) /\ (~open => mapping[key] = <<>>)
  /\ \A r \in Request : Stands(tasks[r])

(* Facts about the constants.                                                *)
LEMMA ScopeFacts ==
  ASSUME scope \in Scopes
  PROVE  /\ \A key \in Key : Proto[key] = "h1" \/ Proto[key] = "h2"
         /\ MaxIdle \in Nat /\ MaxTime \in Nat /\ Dur \in Nat /\ Dur # 0
BY ClientPoolAssumption DEF Key, Proto, MaxIdle, MaxTime

(* The numbers of the connections dialled so far.                            *)
LEMMA ConnFacts ==
  ASSUME Typed
  PROVE  /\ \A c \in Conn : conns[c] \in Connection /\ c \in Nat /\ c # 0 /\ c <= Len(conns)
         /\ Conn = 1..Len(conns) /\ Len(conns) \in Nat
BY DEF Typed, Conn

-----------------------------------------------------------------------------
(* The steps of a request.                                                   *)

\* It stays where it was, in what matters to the pool.
Same(t, u) == u.key = t.key /\ u.conn = t.conn /\ u.age = t.age

\* Get from an idle connection.
Takes(r, key) ==
  /\ tasks[r].pc = "new" /\ open /\ mapping[key] # <<>>
  /\ mapping' = [mapping EXCEPT ![key] = TakenAt(key)]
  /\ tasks' = [tasks EXCEPT ![r] =
       [NewTask EXCEPT !.key = key, !.pc = "send", !.conn = Head(mapping[key]).conn,
                       !.reusable = ~Shares(key), !.age = clock - Head(mapping[key]).at]]
  /\ UNCHANGED <<conns, clock, swept, open, scope>>

\* A step without a connection.
Passes(r, u) ==
  /\ ~Holds(r) /\ tasks[r].pc \notin {"ok", "gone"}
  /\ u \in PooledConnection /\ u.pc \in {"new", "dial", "err", "gone"}
  /\ u.pc = "dial" => u.key \in Key /\ ~u.remove_h2
  /\ u.conn = 0 /\ u.age <= 2 * Dur
  /\ tasks' = [tasks EXCEPT ![r] = u]
  /\ UNCHANGED <<mapping, conns, clock, swept, open, scope>>

\* A step over its connection.
Goes(r, u, d) ==
  /\ Holds(r) /\ u \in PooledConnection /\ u.pc \in Holding /\ Same(tasks[r], u)
  /\ u.reusable = tasks[r].reusable /\ ~u.remove_h2
  /\ d \in Connection /\ d.key = C(r).key /\ d.found_dead = C(r).found_dead
  /\ d.spoilers = C(r).spoilers
  /\ tasks' = [tasks EXCEPT ![r] = u] /\ SetConn(r, d)
  /\ UNCHANGED <<mapping, clock, swept, open, scope>>

\* Its end.
Ends(r, t, place, d) ==
  /\ Holds(r) /\ t \in PooledConnection /\ place \in {"ok", "err", "gone"} /\ Same(tasks[r], t)
  /\ t.reusable => tasks[r].reusable
  /\ d \in Connection /\ d.key = C(r).key
  /\ d.found_dead => C(r).found_dead \/ (~t.reusable /\ t.remove_h2)
  /\ Finish(r, t, place) /\ SetConn(r, d)
  /\ UNCHANGED <<clock, swept, open, scope>>

-----------------------------------------------------------------------------
(* Every step of a request is one of those.                                  *)

(* RemoveAt leaves a sequence of the same kind.                              *)
LEMMA RemoveAtType ==
  ASSUME NEW S, NEW s \in Seq(S), NEW i \in 1..Len(s)
  PROVE  RemoveAt(s, i) \in Seq(S)
<1>1. SubSeq(s, 1, i - 1) \in Seq(S) /\ SubSeq(s, i + 1, Len(s)) \in Seq(S)
  BY SubSeqProperties
<1> QED BY <1>1, ConcatProperties DEF RemoveAt

(* What a server writes of an answer.                                        *)
LEMMA PartsFacts ==
  ASSUME NEW q \in Request, NEW b \in {"none", "some"}, NEW e \in BOOLEAN
  PROVE  /\ Parts(q, b, e) \in Seq(Item) /\ Parts(q, b, e) # <<>>
         /\ Head(Parts(q, b, e)).req = q /\ Head(Parts(q, b, e)).part = "head"
         /\ Head(Parts(q, b, e)).body = b
         /\ b = "none" => Tail(Parts(q, b, e)) = <<>>
         /\ b = "some" => Len(Tail(Parts(q, b, e))) = 1
<1> DEFINE h == [req |-> q, part |-> "head", body |-> b, close |-> e]
           s == [req |-> q, part |-> "body", body |-> b, close |-> e]
<1>1. h \in Item /\ s \in Item /\ h.req = q /\ h.part = "head" /\ h.body = b
  BY DEF Item
<1>2. Parts(q, b, e) = <<h>> \o (IF b = "none" THEN <<>> ELSE <<s>>)
  BY DEF Parts
<1> HIDE DEF h, s
<1>3. CASE b = "none"
  <2>1. Parts(q, b, e) = <<h>>
    BY <1>1, <1>2, <1>3
  <2>2. <<h>> \in Seq(Item) /\ Head(<<h>>) = h /\ Tail(<<h>>) = <<>> /\ <<h>> # <<>>
    BY <1>1
  <2> QED BY <1>1, <1>3, <2>1, <2>2
<1>4. CASE b # "none"
  <2>1. Parts(q, b, e) = <<h>> \o <<s>>
    BY <1>2, <1>4
  <2>2. <<h>> \in Seq(Item) /\ <<s>> \in Seq(Item) /\ Len(<<h>>) = 1 /\ Len(<<s>>) = 1 /\ <<h>>[1] = h
    BY <1>1
  <2> DEFINE r == <<h>> \o <<s>>
  <2>3. r \in Seq(Item) /\ Len(r) = 2 /\ r[1] = h
    BY <2>2, ConcatProperties
  <2> HIDE DEF r
  <2>4. r # <<>> /\ Head(r) = h /\ Len(Tail(r)) = 1
    BY <2>3, HeadTailProperties
  <2>5. Parts(q, b, e) = r
    BY <2>1 DEF r
  <2> QED BY <1>1, <1>4, <2>3, <2>4, <2>5
<1> QED BY <1>3, <1>4

(* A request that holds a connection.                                        *)
LEMMA HoldFacts ==
  ASSUME Typed, Placed, NEW r \in Request, Holds(r)
  PROVE  /\ tasks[r] \in PooledConnection /\ Stands(tasks[r])
         /\ tasks[r].key \in Key /\ tasks[r].conn \in Conn /\ C(r).key = tasks[r].key
         /\ C(r) \in Connection /\ ~tasks[r].remove_h2
BY ConnFacts DEF Typed, Placed, Stands, Holds, Made, C

\* HttpConnection::send_request over HTTP/1
LEMMA Http1Steps ==
  ASSUME Typed, Placed, NEW r \in Request,
         Send(r) \/ SendFails(r) \/ RecvHead(r) \/ RecvBody(r) \/ RecvEof(r)
  PROVE  (\E u, d : Goes(r, u, d)) \/ (\E t, place, d : Ends(r, t, place, d))
<1> DEFINE t == tasks[r]
           c == C(r)
<1>1. Holds(r)
  BY DEF Send, SendFails, RecvHead, RecvBody, RecvEof, Holds, Holding
<1>2. t \in PooledConnection /\ c \in Connection /\ ~t.remove_h2
  BY <1>1, HoldFacts
<1>3. Spoil(c, r) \in Connection /\ Spoil(c, r).key = c.key /\ Spoil(c, r).found_dead = c.found_dead
  BY <1>2 DEF Spoil, Connection
<1>4. /\ Answered(t) \in PooledConnection /\ Same(t, Answered(t))
      /\ Answered(t).reusable => t.reusable
  BY <1>2 DEF Answered, PooledConnection, Same
<1> HIDE DEF t, c
<1>5. CASE Send(r)
  <2> DEFINE asked == Append(c.asked, r)
             d == IF c.up THEN [c EXCEPT !.asked = asked] ELSE c
             u == [t EXCEPT !.pc = "head"]
  <2>0. asked \in Seq(Request)
    BY <1>2 DEF Connection
  <2> HIDE DEF asked
  <2>1. /\ d \in Connection /\ d.key = c.key /\ d.found_dead = c.found_dead
        /\ d.spoilers = c.spoilers
    BY <1>2, <2>0 DEF Connection
  <2>2. /\ u \in PooledConnection /\ u.pc \in Holding /\ Same(t, u)
        /\ u.reusable = t.reusable /\ ~u.remove_h2
    BY <1>2 DEF PooledConnection, Place, Holding, Same
  <2>3. tasks' = [tasks EXCEPT ![r] = u] /\ SetConn(r, d)
    BY <1>5 DEF Send, t, c, asked
  <2>4. UNCHANGED <<mapping, clock, swept, open, scope>>
    BY <1>5 DEF Send
  <2> HIDE DEF d, u
  <2>5. Goes(r, u, d)
    BY <1>1, <2>1, <2>2, <2>3, <2>4 DEF Goes, t, c
  <2> QED BY <2>5
<1>6. CASE SendFails(r)
  <2>1. Ends(r, t, "err", Spoil(c, r))
    BY <1>1, <1>2, <1>3, <1>6 DEF SendFails, Ends, Same, t, c
  <2> QED BY <2>1
<1>7. CASE RecvHead(r)
  <2> DEFINE item == Head(c.wire)
             d == [c EXCEPT !.wire = Tail(@)]
             u == [t EXCEPT !.got = item.req, !.close = item.close]
  <2>1. c.wire \in Seq(Item) /\ c.wire # <<>>
    BY <1>2, <1>7 DEF RecvHead, Connection, c
  <2>2. item \in Item /\ Tail(c.wire) \in Seq(Item)
    BY <2>1
  <2>3. /\ d \in Connection /\ d.key = c.key /\ d.found_dead = c.found_dead
        /\ d.spoilers = c.spoilers
    BY <1>2, <2>2 DEF Connection
  <2>4. /\ Spoil(d, r) \in Connection /\ Spoil(d, r).key = c.key
        /\ Spoil(d, r).found_dead = c.found_dead
    BY <2>3 DEF Connection, Spoil
  <2>5. u \in PooledConnection /\ Same(t, u) /\ u.reusable = t.reusable /\ ~u.remove_h2
    BY <1>2, <2>2 DEF PooledConnection, Same, Item
  <2>6. /\ [u EXCEPT !.pc = "body"] \in PooledConnection /\ Same(t, [u EXCEPT !.pc = "body"])
        /\ [u EXCEPT !.pc = "body"].pc \in Holding
        /\ [u EXCEPT !.pc = "body"].reusable = t.reusable /\ ~[u EXCEPT !.pc = "body"].remove_h2
    BY <2>5 DEF PooledConnection, Same, Place, Holding
  <2>7. Answered(u) \in PooledConnection /\ Same(t, Answered(u)) /\ (Answered(u).reusable => t.reusable)
    BY <2>5 DEF Answered, PooledConnection, Same
  <2>8. /\ \/ Finish(r, t, "err") /\ SetConn(r, Spoil(d, r))
           \/ /\ SetConn(r, d) /\ UNCHANGED mapping
              /\ tasks' = [tasks EXCEPT ![r] = [u EXCEPT !.pc = "body"]]
           \/ SetConn(r, d) /\ Finish(r, Answered(u), "ok")
        /\ UNCHANGED <<clock, swept, open, scope>>
    BY <1>7 DEF RecvHead, t, c
  <2> HIDE DEF d, u
  <2>9. CASE Finish(r, t, "err") /\ SetConn(r, Spoil(d, r))
    <3>1. Ends(r, t, "err", Spoil(d, r))
      BY <1>1, <1>2, <2>4, <2>8, <2>9 DEF Ends, Same, t, c
    <3> QED BY <3>1
  <2>10. CASE /\ SetConn(r, d) /\ UNCHANGED mapping
              /\ tasks' = [tasks EXCEPT ![r] = [u EXCEPT !.pc = "body"]]
    <3>1. Goes(r, [u EXCEPT !.pc = "body"], d)
      BY <1>1, <2>3, <2>6, <2>8, <2>10 DEF Goes, t, c
    <3> QED BY <3>1
  <2>11. CASE SetConn(r, d) /\ Finish(r, Answered(u), "ok")
    <3>1. Ends(r, Answered(u), "ok", d)
      BY <1>1, <2>3, <2>7, <2>8, <2>11 DEF Ends, t, c
    <3> QED BY <3>1
  <2> QED BY <2>8, <2>9, <2>10, <2>11
<1>8. CASE RecvBody(r)
  <2> DEFINE rest == Tail(c.wire)
             d == [c EXCEPT !.wire = rest]
  <2>0. rest \in Seq(Item)
    BY <1>2, <1>8 DEF RecvBody, Connection, c
  <2> HIDE DEF rest
  <2>1. d \in Connection /\ d.key = c.key /\ d.found_dead = c.found_dead
    BY <1>2, <2>0 DEF Connection
  <2>2. Ends(r, Answered(t), "ok", d)
    BY <1>1, <1>4, <1>8, <2>1 DEF RecvBody, Ends, t, c, rest
  <2> QED BY <2>2
<1>9. CASE RecvEof(r)
  <2>1. Ends(r, t, "err", Spoil(c, r)) \/ Ends(r, Answered(t), "ok", Spoil(c, r))
    BY <1>1, <1>2, <1>3, <1>4, <1>9 DEF RecvEof, Ends, Same, t, c
  <2> QED BY <2>1
<1> QED BY <1>5, <1>6, <1>7, <1>8, <1>9

\* HttpConnection::send_request over HTTP/2, and the drop of the future
LEMMA OtherSteps ==
  ASSUME Typed, Placed, NEW r \in Request,
         Ready(r) \/ RecvResponse(r) \/ (Cancel(r) /\ tasks[r].pc # "dial")
  PROVE  (\E u, d : Goes(r, u, d)) \/ (\E t, place, d : Ends(r, t, place, d))
<1> DEFINE t == tasks[r]
           c == C(r)
<1>1. Holds(r)
  BY DEF Ready, RecvResponse, Cancel, Holds, Holding
<1>2. t \in PooledConnection /\ c \in Connection /\ ~t.remove_h2 /\ t.conn \in Conn
  BY <1>1, HoldFacts
<1>3. conns' = conns => SetConn(r, c)
  BY <1>2 DEF SetConn, c, C, t, Typed, Conn
<1> HIDE DEF t, c
<1>4. CASE Ready(r) /\ c.up
  <2> DEFINE asked == Append(c.asked, r)
             d == [c EXCEPT !.asked = asked]
             u == [t EXCEPT !.pc = "head"]
  <2>1. asked \in Seq(Request)
    BY <1>2 DEF Connection
  <2>2. tasks' = [tasks EXCEPT ![r] = u] /\ SetConn(r, d)
        /\ UNCHANGED <<mapping, clock, swept, open, scope>>
    BY <1>4 DEF Ready, t, c
  <2> HIDE DEF asked
  <2>3. /\ d \in Connection /\ d.key = c.key /\ d.found_dead = c.found_dead
        /\ d.spoilers = c.spoilers
    BY <1>2, <2>1 DEF Connection
  <2>4. /\ u \in PooledConnection /\ u.pc \in Holding /\ Same(t, u)
        /\ u.reusable = t.reusable /\ ~u.remove_h2
    BY <1>2 DEF PooledConnection, Place, Holding, Same
  <2> HIDE DEF d, u
  <2>5. Goes(r, u, d)
    BY <1>1, <2>2, <2>3, <2>4 DEF Goes, t, c
  <2> QED BY <2>5
<1>5. CASE Ready(r) /\ ~c.up
  <2> DEFINE d == [c EXCEPT !.found_dead = ~t.reusable]
             u == [t EXCEPT !.remove_h2 = TRUE]
  <2>1. d \in Connection /\ d.key = c.key /\ (d.found_dead => ~t.reusable)
    BY <1>2 DEF Connection, PooledConnection
  <2>2. u \in PooledConnection /\ Same(t, u) /\ u.reusable = t.reusable /\ u.remove_h2
    BY <1>2 DEF PooledConnection, Same
  <2>3. SetConn(r, d) /\ Finish(r, u, "err") /\ UNCHANGED <<clock, swept, open, scope>>
    BY <1>5 DEF Ready, t, c
  <2> HIDE DEF d, u
  <2>4. Ends(r, u, "err", d)
    BY <1>1, <2>1, <2>2, <2>3 DEF Ends, t, c
  <2> QED BY <2>4
<1>6. CASE RecvResponse(r)
  <2>1. CASE Finish(r, t, "err") /\ UNCHANGED conns
    <3>1. Ends(r, t, "err", c)
      BY <1>1, <1>2, <1>3, <1>6, <2>1 DEF RecvResponse, Ends, Same, t, c
    <3> QED BY <3>1
  <2>2. ASSUME NEW i \in DOMAIN c.wire, SetConn(r, [c EXCEPT !.wire = RemoveAt(@, i)]),
               Finish(r, [t EXCEPT !.got = r], "ok")
        PROVE  \E u, place, d : Ends(r, u, place, d)
    <3> DEFINE rest == RemoveAt(c.wire, i)
               d == [c EXCEPT !.wire = rest]
               u == [t EXCEPT !.got = r]
    <3>1. SetConn(r, d) /\ Finish(r, u, "ok") /\ UNCHANGED <<clock, swept, open, scope>>
      BY <1>6, <2>2 DEF RecvResponse
    <3>2. rest \in Seq(Item)
      BY <1>2, RemoveAtType DEF Connection
    <3> HIDE DEF rest
    <3>3. d \in Connection /\ d.key = c.key /\ d.found_dead = c.found_dead
      BY <1>2, <3>2 DEF Connection
    <3>4. u \in PooledConnection /\ Same(t, u) /\ u.reusable = t.reusable
      BY <1>2 DEF PooledConnection, Same
    <3> HIDE DEF d, u
    <3>5. Ends(r, u, "ok", d)
      BY <1>1, <3>1, <3>3, <3>4 DEF Ends, t, c
    <3> QED BY <3>5
  <2>3. \/ Finish(r, t, "err") /\ UNCHANGED conns
        \/ \E i \in DOMAIN c.wire : /\ SetConn(r, [c EXCEPT !.wire = RemoveAt(@, i)])
                                    /\ Finish(r, [t EXCEPT !.got = r], "ok")
    BY <1>6 DEF RecvResponse, t, c
  <2> QED BY <2>1, <2>2, <2>3
<1>7. CASE Cancel(r) /\ tasks[r].pc # "dial"
  <2> DEFINE d == IF t.pc = "send" THEN c ELSE Spoil(c, r)
  <2>1. d \in Connection /\ d.key = c.key /\ d.found_dead = c.found_dead
    BY <1>2 DEF Connection, Spoil
  <2>2. SetConn(r, d) /\ Finish(r, t, "gone") /\ UNCHANGED <<clock, swept, open, scope>>
    BY <1>7 DEF Cancel, t, c
  <2> HIDE DEF d
  <2>3. Ends(r, t, "gone", d)
    BY <1>1, <1>2, <2>1, <2>2 DEF Ends, Same, t, c
  <2> QED BY <2>3
<1> QED BY <1>4, <1>5, <1>6, <1>7 DEF t, c

\* ConnectionPool::get, PooledConnector::connect, and callers
LEMMA OuterSteps ==
  ASSUME Typed, Placed, NEW r \in Request,
         (\E key \in Key : Get(r, key)) \/ DialFails(r) \/ Retry(r)
           \/ (Cancel(r) /\ tasks[r].pc = "dial")
  PROVE  (\E key \in Key : Takes(r, key)) \/ (\E u : Passes(r, u))
<1>1. /\ tasks[r] \in PooledConnection /\ NewTask \in PooledConnection /\ Stands(tasks[r])
      /\ NewTask.conn = 0 /\ NewTask.age = 0 /\ NewTask.pc = "new" /\ 0 <= 2 * Dur
  BY ClientPoolAssumption DEF Typed, Placed, NewTask, PooledConnection, Place
<1>2. ASSUME NEW key \in Key, Get(r, key)
      PROVE  Takes(r, key) \/ \E u : Passes(r, u)
  <2>1. CASE mapping[key] # <<>>
    BY <1>2, <2>1 DEF Get, Takes
  <2>2. CASE mapping[key] = <<>>
    <3> DEFINE u == [NewTask EXCEPT !.key = key, !.pc = "dial"]
    <3>1. /\ u \in PooledConnection /\ u.pc = "dial" /\ u.key \in Key /\ u.conn = 0
          /\ ~u.remove_h2 /\ u.age <= 2 * Dur
      BY <1>1 DEF NewTask, PooledConnection, Place
    <3>2. /\ tasks' = [tasks EXCEPT ![r] = u] /\ ~Holds(r) /\ tasks[r].pc \notin {"ok", "gone"}
          /\ UNCHANGED <<mapping, conns, clock, swept, open, scope>>
      BY <1>2, <2>2 DEF Get, Holds, Holding
    <3> HIDE DEF u
    <3>3. Passes(r, u)
      BY <3>1, <3>2 DEF Passes
    <3> QED BY <3>3
  <2> QED BY <2>1, <2>2
<1>3. ASSUME NEW place \in {"err", "gone"}, tasks[r].pc = "dial",
             tasks' = [tasks EXCEPT ![r].pc = place],
             UNCHANGED <<mapping, conns, clock, swept, open, scope>>
      PROVE  \E u : Passes(r, u)
  <2> DEFINE u == [tasks[r] EXCEPT !.pc = place]
  <2>1. u \in PooledConnection /\ u.pc = place /\ u.conn = 0 /\ u.age <= 2 * Dur
    BY <1>1, <1>3 DEF PooledConnection, Place, Stands
  <2>2. tasks' = [tasks EXCEPT ![r] = u] /\ ~Holds(r)
    BY <1>3 DEF Holds, Holding
  <2> HIDE DEF u
  <2>3. Passes(r, u)
    BY <1>3, <2>1, <2>2 DEF Passes
  <2> QED BY <2>3
<1>4. CASE Retry(r)
  <2>1. Passes(r, NewTask)
    BY <1>1, <1>4 DEF Retry, Passes, Holds, Holding
  <2> QED BY <2>1
<1>5. CASE DialFails(r)
  BY <1>3, <1>5 DEF DialFails
<1>6. CASE Cancel(r) /\ tasks[r].pc = "dial"
  BY <1>3, <1>6 DEF Cancel
<1> QED BY <1>2, <1>4, <1>5, <1>6

-----------------------------------------------------------------------------
(* The steps of the servers.                                                 *)
Serves(c, d) ==
  /\ c \in Conn /\ d \in Connection
  /\ d.key = conns[c].key /\ d.spoilers = conns[c].spoilers
  /\ d.found_dead = conns[c].found_dead
  /\ conns' = [conns EXCEPT ![c] = d]
  /\ UNCHANGED <<mapping, tasks, clock, swept, open, scope>>

\* What a server or the network does is such a step.
LEMMA ServerSteps ==
  ASSUME Typed, NEW c \in Conn, Serve(c) \/ Cut(c)
  PROVE  \E d : Serves(c, d)
<1>1. conns[c] \in Connection /\ conns[c].asked \in Seq(Request) /\ conns[c].wire \in Seq(Item)
  BY ConnFacts DEF Connection
<1>2. ASSUME NEW asked \in Seq(Request), NEW up \in BOOLEAN, NEW line \in Seq(Item),
             NEW d, d = [conns[c] EXCEPT !.asked = asked, !.up = up, !.wire = line],
             conns' = [conns EXCEPT ![c] = d],
             UNCHANGED <<mapping, tasks, clock, swept, open, scope>>
      PROVE  Serves(c, d)
  <2>1. /\ d \in Connection /\ d.key = conns[c].key /\ d.spoilers = conns[c].spoilers
        /\ d.found_dead = conns[c].found_dead
    BY <1>1, <1>2 DEF Connection
  <2> QED BY <1>2, <2>1 DEF Serves
<1>3. CASE Answer(c)
  <2>1. PICK body \in {"none", "some"}, close \in BOOLEAN :
          conns' = [conns EXCEPT ![c] =
            [conns[c] EXCEPT !.asked = Tail(@), !.up = ~close,
                      !.wire = @ \o Parts(Head(conns[c].asked), body, close)]]
    BY <1>3 DEF Answer
  <2>2. conns[c].asked # <<>> /\ UNCHANGED <<mapping, tasks, clock, swept, open, scope>>
    BY <1>3 DEF Answer
  <2> DEFINE asked == Tail(conns[c].asked)
             answer == Parts(Head(conns[c].asked), body, close)
             line == conns[c].wire \o answer
             d == [conns[c] EXCEPT !.asked = Tail(@), !.up = ~close,
                    !.wire = @ \o Parts(Head(conns[c].asked), body, close)]
  <2>3. asked \in Seq(Request) /\ Head(conns[c].asked) \in Request
    BY <1>1, <2>2
  <2>4. answer \in Seq(Item)
    BY <2>3, PartsFacts
  <2>5. conns' = [conns EXCEPT ![c] = d]
    BY <2>1
  <2> HIDE DEF answer
  <2>6. line \in Seq(Item)
    BY <1>1, <2>4, ConcatProperties
  <2>7. d = [conns[c] EXCEPT !.asked = asked, !.up = ~close, !.wire = line]
    BY DEF answer
  <2>8. (~close) \in BOOLEAN
    OBVIOUS
  <2> HIDE DEF d, asked, line
  <2>9. Serves(c, d)
    BY <1>2, <2>2, <2>3, <2>5, <2>6, <2>7, <2>8
  <2> QED BY <2>9
<1>4. CASE AnswerH2(c)
  <2>1. PICK i \in DOMAIN conns[c].asked :
          conns' = [conns EXCEPT ![c] =
            [conns[c] EXCEPT !.asked = RemoveAt(@, i),
                      !.wire = Append(@, [req |-> conns[c].asked[i], part |-> "head",
                                          body |-> "none", close |-> FALSE])]]
    BY <1>4 DEF AnswerH2
  <2> DEFINE asked == RemoveAt(conns[c].asked, i)
             item == [req |-> conns[c].asked[i], part |-> "head", body |-> "none", close |-> FALSE]
             line == Append(conns[c].wire, item)
             d == [conns[c] EXCEPT !.asked = RemoveAt(@, i),
                    !.wire = Append(@, [req |-> conns[c].asked[i], part |-> "head",
                                        body |-> "none", close |-> FALSE])]
  <2>2. asked \in Seq(Request)
    BY <1>1, RemoveAtType
  <2>3. item \in Item
    BY <1>1 DEF Item
  <2>4. conns' = [conns EXCEPT ![c] = d]
    BY <2>1
  <2> HIDE DEF item
  <2>5. line \in Seq(Item)
    BY <1>1, <2>3, AppendProperties
  <2>6. conns[c].up \in BOOLEAN
    BY <1>1 DEF Connection
  <2>7. d = [conns[c] EXCEPT !.asked = asked, !.up = conns[c].up, !.wire = line]
    BY <1>1 DEF Connection, item
  <2>8. UNCHANGED <<mapping, tasks, clock, swept, open, scope>>
    BY <1>4 DEF AnswerH2
  <2> HIDE DEF d, asked, line
  <2>9. Serves(c, d)
    BY <1>2, <2>2, <2>4, <2>5, <2>6, <2>7, <2>8
  <2> QED BY <2>9
<1>5. CASE Cut(c)
  <2> DEFINE d == [conns[c] EXCEPT !.up = FALSE, !.asked = <<>>]
  <2>1. <<>> \in Seq(Request) /\ FALSE \in BOOLEAN
    OBVIOUS
  <2>2. d = [conns[c] EXCEPT !.asked = <<>>, !.up = FALSE, !.wire = conns[c].wire]
    BY <1>1 DEF Connection
  <2>3. conns' = [conns EXCEPT ![c] = d]
    BY <1>5 DEF Cut
  <2>4. UNCHANGED <<mapping, tasks, clock, swept, open, scope>>
    BY <1>5 DEF Cut
  <2> HIDE DEF d
  <2>5. Serves(c, d)
    BY <1>1, <1>2, <2>1, <2>2, <2>3, <2>4
  <2> QED BY <2>5
<1> QED BY <1>3, <1>4, <1>5 DEF Serve

-----------------------------------------------------------------------------
(* What the IdleTask keeps.                                                  *)

\* r is part of the first n entries of q, in the order of q; they are fresh.
Sifts(r, q, n) ==
  /\ \A i \in 1..Len(r) : \E j \in 1..n : r[i] = q[j] /\ Fresh(q[j].at)
  /\ (\A i, j \in 1..n : q[i].conn = q[j].conn => i = j)
       => \A i, j \in 1..Len(r) : r[i].conn = r[j].conn => i = j
  /\ Len(r) <= n

Sieve(q, n, F) ==
  F = [i \in 0..n |->
        IF i = 0 THEN <<>>
        ELSE IF Fresh(q[i].at) THEN Append(F[i - 1], q[i]) ELSE F[i - 1]]

\* Any F that Sieve describes sifts, at each n.
LEMMA SieveSifts ==
  ASSUME NEW S, NEW q \in Seq(S), NEW N \in 0..Len(q), NEW F, Sieve(q, N, F), NEW n \in 0..N
  PROVE  F[n] \in Seq(S) /\ Sifts(F[n], q, n)
<1> DEFINE T == {m \in Nat : m <= N => F[m] \in Seq(S) /\ Sifts(F[m], q, m)}
<1>1. 0 \in T
  BY DEF Sieve, Sifts
<1>2. ASSUME NEW m \in T PROVE m + 1 \in T
  <2> SUFFICES ASSUME m + 1 <= N
               PROVE  F[m + 1] \in Seq(S) /\ Sifts(F[m + 1], q, m + 1)
    OBVIOUS
  <2>1. m \in Nat /\ m + 1 \in 1..Len(q) /\ m + 1 \in 0..N /\ m + 1 # 0 /\ (m + 1) - 1 = m
    OBVIOUS
  <2>2. F[m + 1] = IF Fresh(q[m + 1].at) THEN Append(F[m], q[m + 1]) ELSE F[m]
    BY <2>1 DEF Sieve
  <2>3. F[m] \in Seq(S) /\ Sifts(F[m], q, m)
    BY <2>1
  <2>4. q[m + 1] \in S
    BY <2>1, ElementOfSeq
  <2>5. \A i \in 1..(m + 1) : i \in 1..m \/ i = m + 1
    BY <2>1
  <2>6. CASE ~Fresh(q[m + 1].at)
    BY <2>1, <2>2, <2>3, <2>6 DEF Sifts
  <2>7. CASE Fresh(q[m + 1].at)
    <3> DEFINE r == Append(F[m], q[m + 1])
               h == Len(F[m])
    <3>1. /\ r \in Seq(S) /\ h \in Nat /\ Len(r) = h + 1 /\ r[h + 1] = q[m + 1]
          /\ \A i \in 1..h : r[i] = F[m][i]
      BY <2>3, <2>4, AppendProperties
    <3>2. /\ \A i \in 1..h : \E j \in 1..m : F[m][i] = q[j] /\ Fresh(q[j].at)
          /\ (\A i, j \in 1..m : q[i].conn = q[j].conn => i = j)
               => \A i, j \in 1..h : F[m][i].conn = F[m][j].conn => i = j
          /\ h <= m
      BY <2>3 DEF Sifts
    <3> HIDE DEF r, h
    <3>3. \A i \in 1..(h + 1) : i \in 1..h \/ i = h + 1
      BY <3>1
    <3>4. ASSUME NEW i \in 1..(h + 1) PROVE \E j \in 1..(m + 1) : r[i] = q[j] /\ Fresh(q[j].at)
      <4>1. CASE i = h + 1
        <5>1. m + 1 \in 1..(m + 1)
          BY <2>1
        <5> QED BY <2>7, <3>1, <4>1, <5>1
      <4>2. CASE i \in 1..h
        <5>1. PICK j \in 1..m : F[m][i] = q[j] /\ Fresh(q[j].at)
          BY <3>2, <4>2
        <5>2. j \in 1..(m + 1) /\ r[i] = q[j]
          BY <2>1, <3>1, <4>2, <5>1
        <5> QED BY <5>1, <5>2
      <4> QED BY <3>3, <4>1, <4>2
    <3>5. ASSUME \A i, j \in 1..(m + 1) : q[i].conn = q[j].conn => i = j,
                 NEW i \in 1..(h + 1), NEW j \in 1..(h + 1), r[i].conn = r[j].conn
          PROVE  i = j
      <4>1. \A a \in 1..h : r[a].conn # q[m + 1].conn
        <5> SUFFICES ASSUME NEW a \in 1..h, r[a].conn = q[m + 1].conn PROVE FALSE
          OBVIOUS
        <5>1. PICK b \in 1..m : F[m][a] = q[b]
          BY <3>2
        <5>2. q[b].conn = q[m + 1].conn /\ b \in 1..(m + 1) /\ m + 1 \in 1..(m + 1) /\ b # m + 1
          BY <2>1, <3>1, <5>1
        <5> QED BY <3>5, <5>2
      <4>2. CASE i \in 1..h /\ j \in 1..h
        <5>1. \A a, b \in 1..m : q[a].conn = q[b].conn => a = b
          BY <2>1, <3>5
        <5>2. F[m][i].conn = F[m][j].conn
          BY <3>1, <3>5, <4>2
        <5> QED BY <3>2, <4>2, <5>1, <5>2
      <4> QED BY <3>1, <3>3, <3>5, <4>1, <4>2
    <3>6. Sifts(r, q, m + 1)
      BY <2>1, <3>1, <3>2, <3>4, <3>5 DEF Sifts
    <3>7. F[m + 1] = r
      BY <2>2, <2>7 DEF r
    <3> QED BY <3>1, <3>6, <3>7
  <2> QED BY <2>6, <2>7
<1>3. T \subseteq Nat /\ n \in Nat /\ n <= N
  OBVIOUS
<1> HIDE DEF T
<1>4. T = Nat
  BY <1>1, <1>2, <1>3, Counting
<1> QED BY <1>3, <1>4 DEF T

\* There is such a function, for any queue.
LEMMA SieveExists ==
  ASSUME NEW q, NEW N \in Nat
  PROVE  \E F : Sieve(q, N, F)
<1> DEFINE T == {n \in Nat : \E F : Sieve(q, n, F)}
<1>1. 0 \in T
  <2>1. Sieve(q, 0, [i \in 0..0 |-> <<>>])
    BY DEF Sieve
  <2> QED BY <2>1
<1>2. ASSUME NEW m \in T PROVE m + 1 \in T
  <2>1. m \in Nat
    OBVIOUS
  <2>2. PICK F : Sieve(q, m, F)
    OBVIOUS
  <2> DEFINE last == IF Fresh(q[m + 1].at) THEN Append(F[m], q[m + 1]) ELSE F[m]
             G == [i \in 0..(m + 1) |-> IF i = m + 1 THEN last ELSE F[i]]
             E(i) == IF i = 0 THEN <<>>
                     ELSE IF Fresh(q[i].at) THEN Append(G[i - 1], q[i]) ELSE G[i - 1]
  <2>3. \A i \in 0..m : F[i] = IF i = 0 THEN <<>>
          ELSE IF Fresh(q[i].at) THEN Append(F[i - 1], q[i]) ELSE F[i - 1]
    BY <2>2 DEF Sieve
  <2>4. \A i \in 0..(m + 1) : i = m + 1 \/ i \in 0..m
    BY <2>1
  <2>5. (\A i \in 0..m : G[i] = F[i]) /\ G[m + 1] = last
    BY <2>1
  <2>6. \A i \in 0..m : i # 0 => i - 1 \in 0..m
    BY <2>1
  <2>7. m \in 0..m /\ m + 1 # 0 /\ (m + 1) - 1 = m
    BY <2>1
  <2>8. G = [i \in 0..(m + 1) |-> G[i]]
    OBVIOUS
  <2> HIDE DEF G
  <2>9. \A i \in 0..(m + 1) : G[i] = E(i)
    <3> SUFFICES ASSUME NEW i \in 0..(m + 1) PROVE G[i] = E(i)
      OBVIOUS
    <3>1. CASE i = m + 1
      BY <2>5, <2>7, <3>1
    <3>2. CASE i \in 0..m
      BY <2>3, <2>5, <2>6, <3>2
    <3> QED BY <2>4, <3>1, <3>2
  <2>10. Sieve(q, m + 1, G)
    BY <2>8, <2>9 DEF Sieve
  <2> QED BY <2>1, <2>10
<1>3. T \subseteq Nat
  OBVIOUS
<1> HIDE DEF T
<1>4. T = Nat
  BY <1>1, <1>2, <1>3, Counting
<1> QED BY <1>4 DEF T

\* ConnectionPool::clear_expired keeps fresh entries only, in their order.
LEMMA UnexpiredSifts ==
  ASSUME NEW S, NEW q \in Seq(S)
  PROVE  Unexpired(q) \in Seq(S) /\ Sifts(Unexpired(q), q, Len(q))
<1>1. Len(q) \in Nat /\ Len(q) \in 0..Len(q)
  OBVIOUS
<1>2. \E F : Sieve(q, Len(q), F)
  BY <1>1, SieveExists
<1>3. PICK F : Sieve(q, Len(q), F) /\ Unexpired(q) = F[Len(q)]
  BY <1>2, Zenon DEF Unexpired, Sieve
<1> QED BY <1>1, <1>3, SieveSifts

-----------------------------------------------------------------------------
(* Who has a connection.  What goes back to the pool is held by nobody else, *)
(* and not in the pool; nor is what was found dead.                          *)
Alone ==
  /\ \A r \in Request : Holds(r) /\ tasks[r].reusable =>
       /\ ~InPool(tasks[r].conn)
       /\ \A q \in Request : Holds(q) /\ tasks[q].conn = tasks[r].conn => q = r
  /\ \A c \in Conn : conns[c].found_dead =>
       /\ ~InPool(c)
       /\ \A r \in Request : Holds(r) /\ tasks[r].conn = c => ~tasks[r].reusable

\* s is what is left of q.
Portion(s, q) ==
  /\ s \in Seq(IdleConnection) /\ Len(s) <= Len(q)
  /\ \A i \in DOMAIN s : \E j \in DOMAIN q : s[i] = q[j]
  /\ Distinct(q) => Distinct(s)

(* Parts of a queue of the pool.                                             *)
LEMMA Portions ==
  ASSUME NEW q \in Seq(IdleConnection)
  PROVE  /\ Portion(<<>>, q) /\ Portion(q, q)
         /\ q # <<>> => /\ Portion(Tail(q), q) /\ Len(Tail(q)) = Len(q) - 1
                        /\ Head(q) = q[1] /\ 1 \in DOMAIN q
                        /\ Distinct(q) => \A i \in DOMAIN Tail(q) : Tail(q)[i].conn # Head(q).conn
         /\ Portion(Unexpired(q), q)
         /\ \A i \in DOMAIN Unexpired(q) : Fresh(Unexpired(q)[i].at)
<1>1. Portion(<<>>, q) /\ Portion(q, q)
  BY DEF Portion, Distinct
<1>2. ASSUME q # <<>>
      PROVE  /\ Portion(Tail(q), q) /\ Len(Tail(q)) = Len(q) - 1
             /\ Head(q) = q[1] /\ 1 \in DOMAIN q
             /\ Distinct(q) => \A i \in DOMAIN Tail(q) : Tail(q)[i].conn # Head(q).conn
  <2> DEFINE s == Tail(q)
  <2>1. /\ s \in Seq(IdleConnection) /\ Len(s) = Len(q) - 1 /\ Head(q) = q[1]
        /\ \A i \in 1..Len(s) : s[i] = q[i + 1]
    BY <1>2, HeadTailProperties
  <2> HIDE DEF s
  <2>2. /\ Len(q) \in Nat /\ Len(q) # 0 /\ DOMAIN q = 1..Len(q) /\ DOMAIN s = 1..Len(s)
    BY <1>2, <2>1
  <2>3. \A i \in DOMAIN s : i + 1 \in DOMAIN q /\ i + 1 # 1 /\ s[i] = q[i + 1]
    BY <2>1, <2>2
  <2>4. Distinct(q) => Distinct(s)
    BY <2>2, <2>3 DEF Distinct
  <2> QED BY <2>1, <2>2, <2>3, <2>4 DEF Portion, Distinct, s
<1>3. /\ Unexpired(q) \in Seq(IdleConnection) /\ Sifts(Unexpired(q), q, Len(q))
  BY UnexpiredSifts
<1>4. Portion(Unexpired(q), q) /\ \A i \in DOMAIN Unexpired(q) : Fresh(Unexpired(q)[i].at)
  <2> DEFINE s == Unexpired(q)
  <2>1. s \in Seq(IdleConnection) /\ Sifts(s, q, Len(q))
    BY <1>3
  <2> HIDE DEF s
  <2>2. DOMAIN q = 1..Len(q) /\ DOMAIN s = 1..Len(s)
    BY <2>1
  <2>3. \A i \in DOMAIN s : \E j \in DOMAIN q : s[i] = q[j] /\ Fresh(q[j].at)
    BY <2>1, <2>2 DEF Sifts
  <2>4. Len(s) <= Len(q) /\ (Distinct(q) => Distinct(s))
    BY <2>1, <2>2 DEF Sifts, Distinct
  <2>5. \A i \in DOMAIN s : Fresh(s[i].at)
    BY <2>3
  <2> QED BY <2>1, <2>3, <2>4, <2>5 DEF Portion, s
<1> QED BY <1>1, <1>2, <1>4

\* A portion of a good queue is good.
LEMMA PortionOK ==
  ASSUME Typed, NEW key \in Key, NEW q \in Seq(IdleConnection), QueueOK(key, q),
         NEW s, Portion(s, q)
  PROVE  QueueOK(key, s)
BY ScopeFacts DEF QueueOK, Portion, Typed

\* So is a queue with a connection put back that was not in it.
LEMMA AppendOK ==
  ASSUME Typed, Placed, NEW key \in Key, NEW s \in Seq(IdleConnection), QueueOK(key, s),
         Len(s) <= MaxIdle, NEW c \in Nat, Made(c, key), \A i \in DOMAIN s : s[i].conn # c
  PROVE  /\ Append(s, Idle(c)) \in Seq(IdleConnection) /\ QueueOK(key, Append(s, Idle(c)))
         /\ \A i \in DOMAIN Append(s, Idle(c)) :
              Append(s, Idle(c))[i].conn = c \/ \E j \in DOMAIN s : Append(s, Idle(c))[i] = s[j]
<1>1. Idle(c) \in IdleConnection /\ Idle(c).conn = c /\ Entry(key, Idle(c))
  BY ScopeFacts DEF Idle, IdleConnection, Entry, Typed, Placed
<1> DEFINE r == Append(s, Idle(c))
           n == Len(s)
<1>2. /\ r \in Seq(IdleConnection) /\ Len(r) = n + 1 /\ r[n + 1] = Idle(c) /\ n \in Nat
      /\ \A i \in 1..n : r[i] = s[i]
  BY <1>1, AppendProperties
<1>3. DOMAIN s = 1..n /\ DOMAIN r = 1..(n + 1)
  BY <1>2
<1> HIDE DEF r, n
<1>4. \A i \in DOMAIN r : i \in DOMAIN s \/ i = n + 1
  BY <1>2, <1>3
<1>5. \A i \in DOMAIN r : Entry(key, r[i])
  BY <1>1, <1>2, <1>3, <1>4 DEF QueueOK
<1>6. Distinct(r)
  BY <1>1, <1>2, <1>3, <1>4 DEF QueueOK, Distinct
<1>7. Len(r) <= MaxIdle + 1
  BY <1>2, ScopeFacts DEF Typed, n
<1>8. \A i \in DOMAIN r : r[i].conn = c \/ \E j \in DOMAIN s : r[i] = s[j]
  BY <1>1, <1>2, <1>3, <1>4
<1> QED BY <1>2, <1>5, <1>6, <1>7, <1>8 DEF QueueOK, r

(* A connection is replaced by another state of it.                          *)
LEMMA ConnChanges ==
  ASSUME Typed, NEW c \in Conn, NEW d \in Connection, d.key = conns[c].key,
         conns' = [conns EXCEPT ![c] = d]
  PROVE  /\ conns' \in Seq(Connection) /\ Conn' = Conn /\ conns'[c] = d
         /\ \A x \in Conn : x # c => conns'[x] = conns[x]
         /\ \A x, key : Made(x, key)' <=> Made(x, key)
<1>1. conns' \in Seq(Connection) /\ Len(conns') = Len(conns)
  BY ExceptSeq, ConnFacts DEF Typed
<1>2. Conn' = Conn /\ conns'[c] = d /\ \A x \in Conn : x # c => conns'[x] = conns[x]
  BY <1>1 DEF Conn, Typed
<1> QED BY <1>1, <1>2 DEF Made

\* A connection is dialled.
LEMMA ConnAdded ==
  ASSUME Typed, NEW d \in Connection, conns' = Append(conns, d)
  PROVE  /\ conns' \in Seq(Connection) /\ Conn' = Conn \cup {Len(conns) + 1}
         /\ Len(conns) + 1 \notin Conn /\ Len(conns) + 1 \in Nat /\ conns'[Len(conns) + 1] = d
         /\ \A x \in Conn : conns'[x] = conns[x]
<1>1. /\ conns' \in Seq(Connection) /\ Len(conns') = Len(conns) + 1
      /\ conns'[Len(conns) + 1] = d /\ \A x \in 1..Len(conns) : conns'[x] = conns[x]
  BY AppendProperties DEF Typed
<1>2. Conn' = 1..Len(conns') /\ Conn = 1..Len(conns) /\ Len(conns) \in Nat
  BY <1>1 DEF Conn, Typed
<1> QED BY <1>1, <1>2

-----------------------------------------------------------------------------
(* What PooledConnection::drop leaves in the pool.                           *)
LEMMA ReturnFacts ==
  ASSUME Typed, Placed, Alone, NEW r \in Request, NEW t \in PooledConnection, Holds(r),
         Same(tasks[r], t), t.reusable => tasks[r].reusable, mapping' = Returned(t)
  PROVE  /\ mapping' \in [Key -> Seq(IdleConnection)]
         /\ \A key \in Key : QueueOK(key, mapping'[key]) /\ (~open => mapping'[key] = <<>>)
         /\ \A key \in Key : \A i \in DOMAIN mapping'[key] :
              \/ mapping'[key][i].conn = t.conn /\ t.reusable
              \/ \E j \in DOMAIN mapping[key] : mapping'[key][i] = mapping[key][j]
         /\ ~t.reusable /\ t.remove_h2 => mapping'[t.key] = <<>>
<1> DEFINE q == mapping[t.key]
           s == Shortened(Kept(t))
<1>1. /\ t.key \in Key /\ Made(t.conn, t.key) /\ q \in Seq(IdleConnection) /\ QueueOK(t.key, q)
      /\ mapping \in [Key -> Seq(IdleConnection)] /\ MaxIdle \in Nat /\ t.conn \in Nat
  BY HoldFacts, ScopeFacts DEF Same, Made, Typed, Placed, PooledConnection, C
<1>2. ~open => q = <<>>
  BY <1>1 DEF Placed
<1>3. Kept(t) \in {<<>>, q}
  BY DEF Kept
<1>4. Portion(Kept(t), q)
  BY <1>1, <1>3, Portions
<1>5. Portion(s, q) /\ Len(s) <= MaxIdle
  <2>1. Kept(t) \in Seq(IdleConnection) /\ Len(Kept(t)) \in Nat /\ Len(Kept(t)) <= MaxIdle + 1
    BY <1>1, <1>4 DEF Portion, QueueOK
  <2>2. CASE Len(Kept(t)) > MaxIdle
    <3>1. Kept(t) = q /\ q # <<>>
      BY <1>1, <1>3, <2>2
    <3>2. s = Tail(q)
      BY <2>2, <3>1 DEF Shortened
    <3> QED BY <1>1, <2>1, <3>1, <3>2, Portions
  <2>3. CASE ~(Len(Kept(t)) > MaxIdle)
    <3>1. s = Kept(t)
      BY <2>3 DEF Shortened
    <3> QED BY <1>1, <1>4, <2>1, <2>3, <3>1
  <2> QED BY <2>2, <2>3
<1> HIDE DEF q, s
<1>6. CASE mapping' = mapping
  BY <1>1, <1>2, <1>6 DEF Typed, Placed, q, Returned, Kept, Shortened
<1>7. ASSUME NEW x \in Seq(IdleConnection), QueueOK(t.key, x), open,
             mapping' = [mapping EXCEPT ![t.key] = x],
             \A i \in DOMAIN x : \/ x[i].conn = t.conn /\ t.reusable
                                 \/ \E j \in DOMAIN q : x[i] = q[j],
             ~t.reusable /\ t.remove_h2 => x = <<>>
      PROVE  /\ mapping' \in [Key -> Seq(IdleConnection)]
             /\ \A key \in Key : QueueOK(key, mapping'[key]) /\ (~open => mapping'[key] = <<>>)
             /\ \A key \in Key : \A i \in DOMAIN mapping'[key] :
                  \/ mapping'[key][i].conn = t.conn /\ t.reusable
                  \/ \E j \in DOMAIN mapping[key] : mapping'[key][i] = mapping[key][j]
             /\ ~t.reusable /\ t.remove_h2 => mapping'[t.key] = <<>>
  <2>1. mapping' \in [Key -> Seq(IdleConnection)] /\ mapping'[t.key] = x
    BY <1>1, <1>7
  <2>2. \A key \in Key : key # t.key => mapping'[key] = mapping[key]
    BY <1>1, <1>7
  <2>3. \A key \in Key : QueueOK(key, mapping[key])
    BY DEF Placed
  <2>4. ASSUME NEW key \in Key
        PROVE  /\ QueueOK(key, mapping'[key])
               /\ \A i \in DOMAIN mapping'[key] :
                     \/ mapping'[key][i].conn = t.conn /\ t.reusable
                     \/ \E j \in DOMAIN mapping[key] : mapping'[key][i] = mapping[key][j]
    <3>1. CASE key = t.key
      BY <1>7, <2>1, <3>1 DEF q
    <3>2. CASE key # t.key
      BY <2>2, <2>3, <3>2
    <3> QED BY <3>1, <3>2
  <2> QED BY <1>7, <2>1, <2>4
<1>8. CASE mapping' = [mapping EXCEPT ![t.key] = Kept(t)] /\ ~t.reusable /\ open
  <2>1. QueueOK(t.key, Kept(t)) /\ Kept(t) \in Seq(IdleConnection)
    BY <1>1, <1>4, PortionOK DEF Portion
  <2>2. t.remove_h2 => Kept(t) = <<>>
    BY DEF Kept
  <2> QED BY <1>4, <1>7, <1>8, <2>1, <2>2 DEF Portion
<1>9. CASE mapping' = [mapping EXCEPT ![t.key] = Append(s, Idle(t.conn))] /\ t.reusable /\ open
  <2>1. QueueOK(t.key, s) /\ s \in Seq(IdleConnection)
    BY <1>1, <1>5, PortionOK DEF Portion
  <2>2. \A i \in DOMAIN q : q[i].conn # t.conn
    BY <1>1, <1>9 DEF Alone, InPool, Same, q
  <2>3. \A i \in DOMAIN s : s[i].conn # t.conn
    BY <1>5, <2>2 DEF Portion
  <2> DEFINE x == Append(s, Idle(t.conn))
  <2>4. /\ x \in Seq(IdleConnection) /\ QueueOK(t.key, x)
        /\ \A i \in DOMAIN x : x[i].conn = t.conn \/ \E j \in DOMAIN s : x[i] = s[j]
    BY <1>1, <1>5, <2>1, <2>3, AppendOK
  <2>5. mapping' = [mapping EXCEPT ![t.key] = x] /\ t.reusable /\ open
    BY <1>9
  <2> HIDE DEF x
  <2>6. \A i \in DOMAIN x : x[i].conn = t.conn \/ \E j \in DOMAIN q : x[i] = q[j]
    BY <1>5, <2>4 DEF Portion
  <2> QED BY <1>7, <2>4, <2>5, <2>6
<1> QED BY <1>6, <1>8, <1>9 DEF Returned, s

-----------------------------------------------------------------------------
(* All of it is kept.                                                        *)
Shared == Typed /\ Placed /\ Alone

\* Good queues and places stay so while the sweeper does not run.
LEMMA Stays ==
  ASSUME Typed, scope' = scope, swept' = swept, clock' \in Nat, clock <= clock',
         \A x, key : Made(x, key) => Made(x, key)',
         \A x : x \in Conn => x \in Conn'
  PROVE  /\ \A key : \A q \in Seq(IdleConnection) : QueueOK(key, q) => QueueOK(key, q)'
         /\ \A t : Stands(t) => Stands(t)'
<1>1. MaxIdle' = MaxIdle /\ Key' = Key /\ Proto' = Proto
  BY DEF MaxIdle, Key, Proto
<1>2. ASSUME NEW key, NEW idle \in IdleConnection, Entry(key, idle) PROVE Entry(key, idle)'
  BY <1>2 DEF Entry, Typed, IdleConnection
<1>3. ASSUME NEW key, NEW q \in Seq(IdleConnection), QueueOK(key, q) PROVE QueueOK(key, q)'
  <2>1. \A i \in DOMAIN q : q[i] \in IdleConnection
    BY ElementOfSeq
  <2>2. \A i \in DOMAIN q : Entry(key, q[i])'
    BY <1>2, <1>3, <2>1 DEF QueueOK
  <2> QED BY <1>1, <1>3, <2>2 DEF QueueOK
<1>4. ASSUME NEW t, Stands(t) PROVE Stands(t)'
  BY <1>1, <1>4 DEF Stands
<1> QED BY <1>3, <1>4

\* HttpConnection::send_request, a step
LEMMA GoesShared ==
  ASSUME Shared, NEW r \in Request, NEW u, NEW d, Goes(r, u, d)
  PROVE  Shared'
<1> USE DEF Shared
<1> DEFINE c == tasks[r].conn
<1>1. /\ c \in Conn /\ Stands(tasks[r]) /\ tasks[r].key \in Key /\ Made(c, tasks[r].key)
      /\ d \in Connection /\ d.key = conns[c].key /\ conns' = [conns EXCEPT ![c] = d]
      /\ d.found_dead = conns[c].found_dead
  BY HoldFacts DEF Goes, SetConn, C, Made
<1>2. /\ conns' \in Seq(Connection) /\ Conn' = Conn /\ conns'[c] = d
      /\ \A x \in Conn : x # c => conns'[x] = conns[x]
      /\ \A x, key : Made(x, key)' <=> Made(x, key)
  BY <1>1, ConnChanges
<1>3. /\ tasks' \in [Request -> PooledConnection] /\ tasks'[r] = u
      /\ \A q \in Request : q # r => tasks'[q] = tasks[q]
      /\ u \in PooledConnection /\ u.pc \in Holding /\ Same(tasks[r], u)
      /\ u.reusable = tasks[r].reusable /\ ~u.remove_h2
      /\ UNCHANGED <<mapping, clock, swept, open, scope>>
  BY DEF Goes, Typed
<1>4. Key' = Key /\ Connection' = Connection /\ PooledConnection' = PooledConnection
      /\ Proto' = Proto
  BY <1>3 DEF Key, Proto, Connection, PooledConnection
<1>5. Typed'
  BY <1>2, <1>3, <1>4 DEF Typed
<1>6. /\ \A key : \A q \in Seq(IdleConnection) : QueueOK(key, q) => QueueOK(key, q)'
      /\ \A t : Stands(t) => Stands(t)'
  BY <1>2, <1>3, Stays DEF Typed
<1>7. Stands(u)
  BY <1>1, <1>3 DEF Stands, Same, Holds, Goes, Holding
<1>8. \A q \in Request : Stands(tasks'[q])
  BY <1>3, <1>7 DEF Placed
<1>9. Placed'
  BY <1>3, <1>4, <1>6, <1>8 DEF Placed, Typed
<1>10. \A q \in Request : /\ Holds(q)' <=> Holds(q)
                          /\ tasks'[q].conn = tasks[q].conn
                          /\ tasks'[q].reusable = tasks[q].reusable
  BY <1>3 DEF Holds, Goes, Same
<1>11. \A x : InPool(x)' <=> InPool(x)
  BY <1>3, <1>4 DEF InPool
<1>12. \A x \in Conn : conns'[x].found_dead = conns[x].found_dead
  BY <1>1, <1>2
<1>13. Alone'
  BY <1>2, <1>10, <1>11, <1>12 DEF Alone
<1> QED BY <1>5, <1>9, <1>13

\* HttpConnection::send_request, its end
LEMMA EndsShared ==
  ASSUME Shared, NEW r \in Request, NEW t, NEW place, NEW d, Ends(r, t, place, d)
  PROVE  Shared'
<1> USE DEF Shared
<1> DEFINE c == tasks[r].conn
           u == [t EXCEPT !.pc = place]
<1>1. /\ c \in Conn /\ Stands(tasks[r]) /\ tasks[r].key \in Key /\ Made(c, tasks[r].key)
      /\ d \in Connection /\ d.key = conns[c].key /\ conns' = [conns EXCEPT ![c] = d]
      /\ d.found_dead => conns[c].found_dead \/ (~t.reusable /\ t.remove_h2)
  BY HoldFacts DEF Ends, SetConn, C, Made
<1>2. /\ conns' \in Seq(Connection) /\ Conn' = Conn /\ conns'[c] = d
      /\ \A x \in Conn : x # c => conns'[x] = conns[x]
      /\ \A x, key : Made(x, key)' <=> Made(x, key)
  BY <1>1, ConnChanges
<1>3. /\ t \in PooledConnection /\ place \in {"ok", "err", "gone"} /\ Same(tasks[r], t)
      /\ t.reusable => tasks[r].reusable
      /\ mapping' = Returned(t) /\ tasks' = [tasks EXCEPT ![r] = u] /\ Holds(r)
      /\ UNCHANGED <<clock, swept, open, scope>>
  BY DEF Ends, Finish
<1>4. /\ u \in PooledConnection /\ u.pc = place /\ Same(tasks[r], u)
  BY <1>3 DEF PooledConnection, Place, Same
<1> HIDE DEF u
<1>5. /\ tasks' \in [Request -> PooledConnection] /\ tasks'[r] = u
      /\ \A q \in Request : q # r => tasks'[q] = tasks[q]
  BY <1>3, <1>4 DEF Typed
<1>6. /\ mapping' \in [Key -> Seq(IdleConnection)]
      /\ \A key \in Key : QueueOK(key, mapping'[key]) /\ (~open => mapping'[key] = <<>>)
      /\ \A key \in Key : \A i \in DOMAIN mapping'[key] :
           \/ mapping'[key][i].conn = c /\ t.reusable
           \/ \E j \in DOMAIN mapping[key] : mapping'[key][i] = mapping[key][j]
      /\ ~t.reusable /\ t.remove_h2 => mapping'[tasks[r].key] = <<>>
  BY <1>3, ReturnFacts DEF Same
<1>7. Key' = Key /\ Connection' = Connection /\ PooledConnection' = PooledConnection
      /\ Proto' = Proto
  BY <1>3 DEF Key, Proto, Connection, PooledConnection
<1>8. Typed'
  BY <1>2, <1>3, <1>5, <1>6, <1>7 DEF Typed
<1>9. /\ \A key : \A q \in Seq(IdleConnection) : QueueOK(key, q) => QueueOK(key, q)'
      /\ \A t_1 : Stands(t_1) => Stands(t_1)'
  BY <1>2, <1>3, Stays DEF Typed
<1>10. Stands(u)
  BY <1>1, <1>3, <1>4 DEF Stands, Same, Holds, Holding
<1>11. \A q \in Request : Stands(tasks'[q])
  BY <1>5, <1>10 DEF Placed
<1>12. Placed'
  BY <1>3, <1>6, <1>7, <1>9, <1>11 DEF Placed
<1>13. /\ ~(Holds(r)') /\ \A q \in Request : Holds(q)' => Holds(q) /\ q # r /\ tasks'[q] = tasks[q]
  BY <1>3, <1>4, <1>5 DEF Holds, Holding
<1>14. \A x : InPool(x)' => InPool(x) \/ (x = c /\ t.reusable)
  BY <1>6, <1>7 DEF InPool
<1>15. ASSUME NEW q \in Request, Holds(q)', tasks'[q].reusable
       PROVE  /\ ~InPool(tasks[q].conn)'
              /\ \A p \in Request : Holds(p)' /\ tasks'[p].conn = tasks'[q].conn => p = q
  <2>1. Holds(q) /\ tasks[q].reusable /\ q # r /\ tasks'[q] = tasks[q]
    BY <1>13, <1>15
  <2>2. c # tasks[q].conn
    BY <1>3, <2>1 DEF Alone
  <2>3. \A x : x = tasks[q].conn => ~InPool(x)'
    BY <1>14, <2>1, <2>2 DEF Alone
  <2>4. ~InPool(tasks[q].conn)'
    BY <2>1, <2>3 DEF InPool
  <2> QED BY <1>13, <2>1, <2>4 DEF Alone
<1>16. ASSUME NEW x \in Conn, conns'[x].found_dead
       PROVE  ~InPool(x)' /\ \A q \in Request : Holds(q)' /\ tasks'[q].conn = x => ~tasks'[q].reusable
  <2>1. CASE conns[x].found_dead
    <3>1. ~(x = c /\ t.reusable)
      BY <1>3, <2>1 DEF Alone
    <3> QED BY <1>13, <1>14, <2>1, <3>1 DEF Alone
  <2>2. CASE ~conns[x].found_dead
    <3>1. x = c /\ ~t.reusable /\ t.remove_h2
      BY <1>1, <1>2, <1>16, <2>2
    <3>2. ~InPool(x)'
      <4>1. ASSUME NEW key \in Key, NEW i \in DOMAIN mapping'[key], mapping'[key][i].conn = x
            PROVE  FALSE
        <5>1. Made(x, key)
          BY <1>6, <4>1 DEF QueueOK, Entry
        <5>2. key = tasks[r].key
          BY <1>1, <3>1, <5>1 DEF Made
        <5> QED BY <1>6, <3>1, <4>1, <5>2
      <4> QED BY <1>7, <4>1 DEF InPool
    <3>3. \A q \in Request : Holds(q) /\ tasks[q].conn = x /\ q # r => ~tasks[q].reusable
      BY <1>3, <3>1 DEF Alone
    <3> QED BY <1>13, <3>2, <3>3
  <2> QED BY <2>1, <2>2
<1>17. Alone'
  BY <1>2, <1>15, <1>16 DEF Alone
<1> QED BY <1>8, <1>12, <1>17

\* ConnectionPool::get, a connection that was idle
LEMMA TakesShared ==
  ASSUME Shared, NEW r \in Request, NEW key \in Key, Takes(r, key)
  PROVE  Shared'
<1> USE DEF Shared
<1> DEFINE q == mapping[key]
           idle == Head(q)
           u == [NewTask EXCEPT !.key = key, !.pc = "send", !.conn = idle.conn,
                                !.reusable = ~Shares(key), !.age = clock - idle.at]
           s == TakenAt(key)
<1>1. /\ q \in Seq(IdleConnection) /\ QueueOK(key, q) /\ q # <<>> /\ tasks[r].pc = "new" /\ open
      /\ mapping' = [mapping EXCEPT ![key] = s] /\ tasks' = [tasks EXCEPT ![r] = u]
      /\ UNCHANGED <<conns, clock, swept, open, scope>>
  BY DEF Takes, Typed, Placed
<1>2. /\ Portion(Tail(q), q) /\ Len(Tail(q)) = Len(q) - 1 /\ idle = q[1] /\ 1 \in DOMAIN q
      /\ \A i \in DOMAIN Tail(q) : Tail(q)[i].conn # idle.conn
  BY <1>1, Portions DEF QueueOK
<1>3. /\ idle \in IdleConnection /\ Made(idle.conn, key) /\ idle.at <= clock
      /\ swept <= idle.at + Dur /\ idle.conn \in Nat /\ InPool(idle.conn)
  <2>1. idle \in IdleConnection
    BY <1>1, <1>2, ElementOfSeq
  <2>2. Entry(key, idle)
    BY <1>1, <1>2 DEF QueueOK
  <2>3. InPool(idle.conn)
    BY <1>2 DEF InPool
  <2> QED BY <2>1, <2>2, <2>3 DEF Entry, IdleConnection
<1>4. clock - idle.at \in Nat /\ clock - idle.at <= 2 * Dur
  BY <1>1, <1>3, ScopeFacts DEF IdleConnection, Typed, Placed
<1>5. Tail(q) \in Seq(IdleConnection) /\ QueueOK(key, Tail(q)) /\ Len(Tail(q)) <= MaxIdle
  BY <1>1, <1>2, PortionOK, ScopeFacts DEF Portion, QueueOK, Typed
<1>6. /\ s \in Seq(IdleConnection) /\ QueueOK(key, s)
      /\ \A i \in DOMAIN s : \E j \in DOMAIN q : s[i].conn = q[j].conn
      /\ ~Shares(key) => \A i \in DOMAIN s : s[i].conn # idle.conn
  <2>1. CASE Shares(key)
    <3>1. s = Append(Tail(q), Idle(idle.conn))
      BY <2>1 DEF TakenAt
    <3> DEFINE c == idle.conn
    <3>2. c \in Nat /\ Made(c, key) /\ \A i \in DOMAIN Tail(q) : Tail(q)[i].conn # c
      BY <1>2, <1>3
    <3>3. \A i \in DOMAIN Tail(q) : \E j \in DOMAIN q : Tail(q)[i] = q[j]
      BY <1>2 DEF Portion
    <3>4. q[1].conn = c /\ 1 \in DOMAIN q
      BY <1>2
    <3>5. s = Append(Tail(q), Idle(c))
      BY <3>1
    <3> HIDE DEF c, s, q
    <3>6. /\ s \in Seq(IdleConnection) /\ QueueOK(key, s)
          /\ \A i \in DOMAIN s : s[i].conn = c \/ \E j \in DOMAIN Tail(q) : s[i] = Tail(q)[j]
      BY <1>5, <3>2, <3>5, AppendOK
    <3>7. \A i \in DOMAIN s : \E j \in DOMAIN q : s[i].conn = q[j].conn
      BY <3>3, <3>4, <3>6
    <3> QED BY <2>1, <3>6, <3>7
  <2>2. CASE ~Shares(key)
    <3>1. s = Tail(q)
      BY <2>2 DEF TakenAt
    <3> QED BY <1>2, <1>5, <2>2, <3>1 DEF Portion
  <2> QED BY <2>1, <2>2
<1>7. /\ u \in PooledConnection /\ u.pc = "send" /\ u.key = key /\ u.conn = idle.conn
      /\ u.reusable = ~Shares(key) /\ u.age = clock - idle.at /\ ~u.remove_h2
  BY <1>3, <1>4 DEF NewTask, PooledConnection, Place, Holding
<1> HIDE DEF q, idle, u, s
<1>8. /\ tasks' \in [Request -> PooledConnection] /\ tasks'[r] = u
      /\ \A p \in Request : p # r => tasks'[p] = tasks[p]
      /\ mapping' \in [Key -> Seq(IdleConnection)] /\ mapping'[key] = s
      /\ \A k_1 \in Key : k_1 # key => mapping'[k_1] = mapping[k_1]
  BY <1>1, <1>6, <1>7 DEF Typed
<1>9. Key' = Key /\ Connection' = Connection /\ PooledConnection' = PooledConnection
      /\ Proto' = Proto /\ Conn' = Conn /\ (\A x, y : Made(x, y)' <=> Made(x, y))
  BY <1>1 DEF Key, Proto, Connection, PooledConnection, Conn, Made
<1>10. Typed'
  BY <1>1, <1>8, <1>9 DEF Typed
<1>11. /\ \A y : \A x \in Seq(IdleConnection) : QueueOK(y, x) => QueueOK(y, x)'
       /\ \A t : Stands(t) => Stands(t)'
  BY <1>1, <1>9, Stays DEF Typed
<1>12. Stands(u)
  BY <1>3, <1>4, <1>7, ScopeFacts DEF Stands, Holding, Shares, Typed
<1>13. \A p \in Request : Stands(tasks'[p])
  BY <1>8, <1>12 DEF Placed
<1>14. \A y \in Key : QueueOK(y, mapping'[y])
  BY <1>6, <1>8 DEF Placed
<1>15. Placed'
  BY <1>1, <1>8, <1>9, <1>11, <1>13, <1>14 DEF Placed
<1>16. \A x : InPool(x)' => InPool(x)
  <2>1. ASSUME NEW x, NEW y \in Key, NEW i \in DOMAIN mapping'[y], mapping'[y][i].conn = x
        PROVE  InPool(x)
    BY <1>6, <1>8, <2>1 DEF InPool, q
  <2> QED BY <1>9, <2>1 DEF InPool
<1>17. ASSUME ~Shares(key), NEW x, x = idle.conn PROVE ~InPool(x)'
  <2>1. ASSUME NEW y \in Key, NEW i \in DOMAIN mapping'[y], mapping'[y][i].conn = x
        PROVE  FALSE
    <3>1. Made(x, y)
      BY <1>14, <2>1 DEF QueueOK, Entry
    <3>2. y = key
      BY <1>3, <1>17, <3>1 DEF Made
    <3> QED BY <1>6, <1>8, <1>17, <2>1, <3>2
  <2> QED BY <1>9, <2>1 DEF InPool
<1>18. /\ \A p \in Request : Holds(p)' <=> Holds(p) \/ p = r
       /\ ~Holds(r)
  BY <1>1, <1>7, <1>8 DEF Holds, Holding
<1>19. \A p \in Request : Holds(p) /\ tasks[p].reusable => tasks[p].conn # idle.conn
  BY <1>3 DEF Alone
<1>20. Proto[key] = "h1" => \A p \in Request : Holds(p) => tasks[p].conn # idle.conn
  <2> SUFFICES ASSUME Proto[key] = "h1", NEW p \in Request, Holds(p), tasks[p].conn = idle.conn
               PROVE  FALSE
    OBVIOUS
  <2>1. tasks[p].key = key /\ Stands(tasks[p])
    BY <1>3, HoldFacts DEF Made, C
  <2> QED BY <1>19, <2>1 DEF Stands, Holds
<1>21. ~Shares(key) => Proto[key] = "h1"
  BY ScopeFacts DEF Shares, Typed
<1>22. ASSUME NEW p \in Request, Holds(p)', tasks'[p].reusable
       PROVE  /\ ~InPool(tasks[p].conn)'
              /\ \A o \in Request : Holds(o)' /\ tasks'[o].conn = tasks'[p].conn => o = p
  <2>1. CASE p = r
    <3>1. ~Shares(key) /\ tasks'[p].conn = idle.conn
      BY <1>7, <1>8, <1>22, <2>1
    <3>2. \A x : x = idle.conn => ~InPool(x)'
      BY <1>17, <3>1
    <3>3. ~InPool(tasks[p].conn)'
      BY <3>1, <3>2
    <3> QED BY <1>8, <1>18, <1>20, <1>21, <2>1, <3>1, <3>3
  <2>2. CASE p # r
    <3>1. Holds(p) /\ tasks[p].reusable /\ tasks'[p] = tasks[p]
      BY <1>8, <1>18, <1>22, <2>2
    <3>2. \A x : x = tasks[p].conn => ~InPool(x)'
      BY <1>16, <3>1 DEF Alone
    <3>3. ~InPool(tasks[p].conn)'
      BY <3>1, <3>2 DEF InPool
    <3> QED BY <1>7, <1>8, <1>18, <1>19, <2>2, <3>1, <3>3 DEF Alone
  <2> QED BY <2>1, <2>2
<1>23. ASSUME NEW x \in Conn, conns'[x].found_dead
       PROVE  ~InPool(x)' /\ \A p \in Request : Holds(p)' /\ tasks'[p].conn = x => ~tasks'[p].reusable
  <2>1. conns[x].found_dead /\ x # idle.conn
    BY <1>1, <1>3, <1>23 DEF Alone
  <2> QED BY <1>7, <1>8, <1>16, <1>18, <2>1 DEF Alone
<1>24. Alone'
  BY <1>9, <1>22, <1>23 DEF Alone
<1> QED BY <1>10, <1>15, <1>24

\* PooledConnector::connect
LEMMA DialShared ==
  ASSUME Shared, NEW r \in Request, Dial(r)
  PROVE  Shared'
<1> USE DEF Shared
<1> DEFINE d == NewConn(tasks[r].key)
           c == Len(conns) + 1
           u == [tasks[r] EXCEPT !.pc = "send", !.conn = c, !.reusable = TRUE]
<1>1. /\ tasks[r].pc = "dial" /\ conns' = Append(conns, d)
      /\ tasks' = [tasks EXCEPT ![r].pc = "send", ![r].conn = c, ![r].reusable = TRUE]
      /\ UNCHANGED <<mapping, clock, swept, open, scope>>
  BY DEF Dial
<1>2. tasks[r] \in PooledConnection /\ Stands(tasks[r]) /\ tasks[r].key \in Key
  BY <1>1 DEF Typed, Placed, Stands
<1>3. d \in Connection /\ d.key = tasks[r].key /\ ~d.found_dead
  BY <1>2 DEF NewConn, Connection
<1> HIDE DEF d
<1>4. /\ conns' \in Seq(Connection) /\ Conn' = Conn \cup {c} /\ c \notin Conn /\ c \in Nat
      /\ conns'[c] = d /\ \A x \in Conn : conns'[x] = conns[x]
  BY <1>1, <1>3, ConnAdded
<1> HIDE DEF c
<1>5. /\ u \in PooledConnection /\ u.pc = "send" /\ u.conn = c /\ u.reusable
      /\ u.key = tasks[r].key /\ u.age = tasks[r].age /\ u.remove_h2 = tasks[r].remove_h2
  BY <1>2, <1>4 DEF PooledConnection, Place, Holding
<1>6. tasks' = [tasks EXCEPT ![r] = u]
  BY <1>1, <1>2 DEF Typed, PooledConnection
<1> HIDE DEF u
<1>7. /\ tasks' \in [Request -> PooledConnection] /\ tasks'[r] = u
      /\ \A p \in Request : p # r => tasks'[p] = tasks[p]
  BY <1>5, <1>6 DEF Typed
<1>8. Key' = Key /\ Connection' = Connection /\ PooledConnection' = PooledConnection
      /\ Proto' = Proto
  BY <1>1 DEF Key, Proto, Connection, PooledConnection
<1>9. Typed'
  BY <1>1, <1>4, <1>7, <1>8 DEF Typed
<1>10. /\ \A x, y : Made(x, y) => Made(x, y)'
       /\ \A x : x \in Conn => x \in Conn'
  BY <1>4 DEF Made
<1>11. /\ \A y : \A x \in Seq(IdleConnection) : QueueOK(y, x) => QueueOK(y, x)'
       /\ \A t : Stands(t) => Stands(t)'
  BY <1>1, <1>10, Stays DEF Typed
<1>12. ASSUME NEW t, t = u PROVE Stands(t)'
  <2>1. ASSUME NEW y, y = tasks[r].key PROVE Made(t.conn, y)'
    BY <1>3, <1>4, <1>5, <1>12, <2>1 DEF Made
  <2>2. t.pc = "send" /\ t.key = tasks[r].key /\ t.reusable /\ ~t.remove_h2 /\ t.age <= 2 * Dur
    BY <1>1, <1>2, <1>5, <1>12 DEF Stands
  <2>3. Made(t.conn, t.key)'
    BY <2>1, <2>2 DEF Made
  <2> QED BY <1>2, <1>8, <2>2, <2>3 DEF Stands
<1>13. \A p \in Request : \A t : t = tasks'[p] => Stands(t)'
  BY <1>7, <1>11, <1>12 DEF Placed
<1>14. Placed'
  BY <1>1, <1>8, <1>11, <1>13 DEF Placed, Typed
<1>15. \A x : InPool(x)' <=> InPool(x)
  BY <1>1, <1>8 DEF InPool
<1>16. ~InPool(c)
  BY <1>4 DEF InPool, Placed, QueueOK, Entry, Made
<1>17. \A p \in Request : /\ Holds(p)' <=> Holds(p) \/ p = r
                          /\ Holds(p) => tasks[p].conn # c /\ p # r
  BY <1>1, <1>4, <1>5, <1>7, HoldFacts DEF Holds, Holding
<1>18. ASSUME NEW p \in Request, Holds(p)', tasks'[p].reusable
       PROVE  /\ ~InPool(tasks[p].conn)'
              /\ \A o \in Request : Holds(o)' /\ tasks'[o].conn = tasks'[p].conn => o = p
  <2>1. \A x : ~InPool(x) => ~InPool(x)'
    BY <1>15
  <2>2. CASE p = r
    <3>1. \A x : x = tasks'[p].conn => ~InPool(x)'
      BY <1>5, <1>7, <1>16, <2>1, <2>2
    <3>2. ~InPool(tasks[p].conn)'
      BY <3>1 DEF InPool
    <3> QED BY <1>5, <1>7, <1>17, <2>2, <3>2
  <2>3. CASE p # r
    <3>1. Holds(p) /\ tasks[p].reusable /\ tasks'[p] = tasks[p]
      BY <1>7, <1>17, <1>18, <2>3
    <3>2. \A x : x = tasks[p].conn => ~InPool(x)'
      BY <2>1, <3>1 DEF Alone
    <3>3. ~InPool(tasks[p].conn)'
      BY <3>1, <3>2 DEF InPool
    <3> QED BY <1>5, <1>7, <1>17, <2>3, <3>1, <3>3 DEF Alone
  <2> QED BY <2>2, <2>3
<1>19. ASSUME NEW x \in Conn', conns'[x].found_dead
       PROVE  ~InPool(x)' /\ \A p \in Request : Holds(p)' /\ tasks'[p].conn = x => ~tasks'[p].reusable
  <2>1. x # c /\ x \in Conn /\ conns[x].found_dead
    BY <1>3, <1>4, <1>19
  <2> QED BY <1>5, <1>7, <1>15, <1>17, <2>1 DEF Alone
<1>20. Alone'
  BY <1>18, <1>19 DEF Alone
<1> QED BY <1>9, <1>14, <1>20

\* A step of a request without a connection
LEMMA PassesShared ==
  ASSUME Shared, NEW r \in Request, NEW u, Passes(r, u)
  PROVE  Shared'
<1> USE DEF Shared
<1>1. /\ ~Holds(r) /\ u \in PooledConnection /\ u.pc \in {"new", "dial", "err", "gone"}
      /\ u.pc = "dial" => u.key \in Key /\ ~u.remove_h2
      /\ u.conn = 0 /\ u.age <= 2 * Dur
      /\ tasks' = [tasks EXCEPT ![r] = u]
      /\ UNCHANGED <<mapping, conns, clock, swept, open, scope>>
  BY DEF Passes
<1>2. /\ tasks' \in [Request -> PooledConnection] /\ tasks'[r] = u
      /\ \A p \in Request : p # r => tasks'[p] = tasks[p]
  BY <1>1 DEF Typed
<1>3. Key' = Key /\ Connection' = Connection /\ PooledConnection' = PooledConnection
      /\ Proto' = Proto /\ Conn' = Conn /\ (\A x, y : Made(x, y)' <=> Made(x, y))
  BY <1>1 DEF Key, Proto, Connection, PooledConnection, Conn, Made
<1>4. Typed'
  BY <1>1, <1>2, <1>3 DEF Typed
<1>5. /\ \A y : \A x \in Seq(IdleConnection) : QueueOK(y, x) => QueueOK(y, x)'
      /\ \A t : Stands(t) => Stands(t)'
  BY <1>1, <1>3, Stays DEF Typed
<1>6. Stands(u)
  BY <1>1 DEF Stands, Holding
<1>7. \A p \in Request : Stands(tasks'[p])
  BY <1>2, <1>6 DEF Placed
<1>8. Placed'
  BY <1>1, <1>3, <1>5, <1>7 DEF Placed, Typed
<1>9. \A p \in Request : /\ Holds(p)' => Holds(p) /\ tasks'[p] = tasks[p]
  BY <1>1, <1>2 DEF Holds, Holding
<1>10. \A x : InPool(x)' <=> InPool(x)
  BY <1>1, <1>3 DEF InPool
<1>11. Alone'
  <2>1. ASSUME NEW p \in Request, Holds(p)', tasks'[p].reusable
        PROVE  /\ ~InPool(tasks[p].conn)'
               /\ \A o \in Request : Holds(o)' /\ tasks'[o].conn = tasks'[p].conn => o = p
    <3>1. Holds(p) /\ tasks[p].reusable /\ tasks'[p] = tasks[p]
      BY <1>9, <2>1
    <3>2. \A x : x = tasks[p].conn => ~InPool(x)'
      BY <1>10, <3>1 DEF Alone
    <3>3. ~InPool(tasks[p].conn)'
      BY <3>1, <3>2 DEF InPool
    <3> QED BY <1>9, <3>1, <3>3 DEF Alone
  <2>2. ASSUME NEW x \in Conn, conns'[x].found_dead
        PROVE  ~InPool(x)' /\ \A p \in Request : Holds(p)' /\ tasks'[p].conn = x => ~tasks'[p].reusable
    BY <1>1, <1>9, <1>10, <2>2 DEF Alone
  <2> QED BY <1>3, <2>1, <2>2 DEF Alone
<1> QED BY <1>4, <1>8, <1>11

\* A server or the network
LEMMA ServesShared ==
  ASSUME Shared, NEW c, NEW d, Serves(c, d)
  PROVE  Shared'
<1> USE DEF Shared
<1>1. /\ c \in Conn /\ d \in Connection /\ d.key = conns[c].key
      /\ d.found_dead = conns[c].found_dead /\ conns' = [conns EXCEPT ![c] = d]
      /\ UNCHANGED <<mapping, tasks, clock, swept, open, scope>>
  BY DEF Serves
<1>2. /\ conns' \in Seq(Connection) /\ Conn' = Conn /\ conns'[c] = d
      /\ \A x \in Conn : x # c => conns'[x] = conns[x]
      /\ \A x, key : Made(x, key)' <=> Made(x, key)
  BY <1>1, ConnChanges
<1>3. Key' = Key /\ Connection' = Connection /\ PooledConnection' = PooledConnection
      /\ Proto' = Proto
  BY <1>1 DEF Key, Proto, Connection, PooledConnection
<1>4. Typed'
  BY <1>1, <1>2, <1>3 DEF Typed
<1>5. /\ \A y : \A x \in Seq(IdleConnection) : QueueOK(y, x) => QueueOK(y, x)'
      /\ \A t : Stands(t) => Stands(t)'
  BY <1>1, <1>2, Stays DEF Typed
<1>6. Placed'
  BY <1>1, <1>3, <1>5 DEF Placed, Typed
<1>7. (\A x : InPool(x)' <=> InPool(x)) /\ \A p \in Request : Holds(p)' <=> Holds(p)
  BY <1>1, <1>3 DEF InPool, Holds
<1>8. \A x \in Conn : conns'[x].found_dead = conns[x].found_dead
  BY <1>1, <1>2
<1>9. Alone'
  BY <1>1, <1>2, <1>7, <1>8 DEF Alone
<1> QED BY <1>4, <1>6, <1>9

\* The queues of the pool shrink, time passes.
LEMMA PoolShared ==
  ASSUME Shared, UNCHANGED <<conns, tasks, scope>>, clock' \in Nat, swept' \in Nat, open' \in BOOLEAN,
         clock <= clock', swept' <= clock', open' => clock' <= swept' + Dur,
         mapping' \in [Key -> Seq(IdleConnection)],
         \A key \in Key : Portion(mapping'[key], mapping[key]),
         swept' = swept
           \/ \A key \in Key : \A i \in DOMAIN mapping'[key] : swept' <= mapping'[key][i].at + Dur,
         ~open' => \A key \in Key : mapping'[key] = <<>>
  PROVE  Shared'
<1> USE DEF Shared
<1>1. Key' = Key /\ Connection' = Connection /\ PooledConnection' = PooledConnection
      /\ Proto' = Proto /\ Conn' = Conn /\ (\A x, y : Made(x, y)' <=> Made(x, y))
      /\ MaxIdle' = MaxIdle
  BY DEF Key, Proto, Connection, PooledConnection, Conn, Made, MaxIdle
<1>2. Typed'
  BY <1>1 DEF Typed
<1>3. ASSUME NEW key \in Key, NEW q, q = mapping'[key] PROVE QueueOK(key, q)'
  <2>1. QueueOK(key, q) /\ q \in Seq(IdleConnection)
    BY <1>3, PortionOK DEF Placed, Typed
  <2>2. ASSUME NEW i \in DOMAIN q, NEW idle, idle = q[i] PROVE Entry(key, idle)'
    <3>1. idle \in IdleConnection /\ Entry(key, idle)
      BY <2>1, <2>2, ElementOfSeq DEF QueueOK
    <3>2. swept' <= idle.at + Dur
      BY <1>3, <2>2, <3>1 DEF Entry
    <3>3. idle.at \in Nat /\ idle.at <= clock'
      BY <3>1 DEF IdleConnection, Entry, Typed
    <3> QED BY <1>1, <3>1, <3>2, <3>3 DEF Entry
  <2> QED BY <1>1, <2>1, <2>2 DEF QueueOK
<1>4. \A t : Stands(t) => Stands(t)'
  BY <1>1 DEF Stands
<1>5. Placed'
  BY <1>1, <1>3, <1>4 DEF Placed
<1>6. (\A x : InPool(x)' => InPool(x)) /\ \A p \in Request : Holds(p)' <=> Holds(p)
  BY <1>1 DEF InPool, Holds, Portion
<1>7. Alone'
  BY <1>1, <1>6 DEF Alone
<1> QED BY <1>2, <1>5, <1>7

\* The clock, the IdleTask, the end of the pool
LEMMA ClockShared ==
  ASSUME Shared, Tick \/ Sweep \/ DropPool
  PROVE  Shared'
<1> USE DEF Shared
<1>1. /\ \A key \in Key : mapping[key] \in Seq(IdleConnection)
      /\ mapping \in [Key -> Seq(IdleConnection)] /\ clock \in Nat /\ swept \in Nat /\ open \in BOOLEAN
      /\ swept <= clock /\ (open => clock <= swept + Dur) /\ Dur \in Nat
      /\ ~open => \A key \in Key : mapping[key] = <<>>
  BY ScopeFacts DEF Typed, Placed
<1>2. \A key \in Key : /\ Portion(<<>>, mapping[key]) /\ Portion(mapping[key], mapping[key])
                       /\ Portion(Unexpired(mapping[key]), mapping[key])
                       /\ \A i \in DOMAIN Unexpired(mapping[key]) : Fresh(Unexpired(mapping[key])[i].at)
  BY <1>1, Portions
<1>3. CASE Tick
  <2>1. /\ clock' = clock + 1 /\ (open => clock < swept + Dur)
        /\ UNCHANGED <<mapping, conns, tasks, swept, open, scope>>
    BY <1>3 DEF Tick
  <2>2. clock' \in Nat /\ clock <= clock' /\ swept' <= clock' /\ (open' => clock' <= swept' + Dur)
    BY <1>1, <2>1
  <2> QED BY <1>1, <1>2, <2>1, <2>2, PoolShared
<1>4. CASE Sweep
  <2>1. /\ open /\ mapping' = [key \in Key |-> Unexpired(mapping[key])] /\ swept' = clock
        /\ UNCHANGED <<conns, tasks, clock, open, scope>>
    BY <1>4 DEF Sweep
  <2>2. \A key \in Key : mapping'[key] = Unexpired(mapping[key])
    BY <2>1
  <2>3. mapping' \in [Key -> Seq(IdleConnection)]
    BY <1>2, <2>1 DEF Portion
  <2>4. \A key \in Key : \A i \in DOMAIN mapping'[key] : swept' <= mapping'[key][i].at + Dur
    <3> SUFFICES ASSUME NEW key \in Key, NEW i \in DOMAIN mapping'[key]
                 PROVE  swept' <= mapping'[key][i].at + Dur
      OBVIOUS
    <3>1. mapping'[key] \in Seq(IdleConnection) /\ Fresh(mapping'[key][i].at)
      BY <1>2, <2>2, <2>3
    <3>2. mapping'[key][i].at \in Nat
      <4> DEFINE s == mapping'[key]
      <4>1. s \in Seq(IdleConnection) /\ i \in DOMAIN s
        BY <3>1
      <4> HIDE DEF s
      <4>2. s[i] \in IdleConnection
        BY <4>1, ElementOfSeq
      <4> QED BY <4>2 DEF IdleConnection, s
    <3> QED BY <1>1, <2>1, <3>1, <3>2 DEF Fresh
  <2>5. clock <= clock' /\ swept' <= clock' /\ (open' => clock' <= swept' + Dur)
        /\ clock' \in Nat /\ swept' \in Nat /\ open' \in BOOLEAN
    BY <1>1, <2>1
  <2>6. \A key \in Key : Portion(mapping'[key], mapping[key])
    BY <1>2, <2>2
  <2>7. UNCHANGED <<conns, tasks, scope>> /\ open'
    BY <2>1
  <2> QED BY <2>3, <2>4, <2>5, <2>6, <2>7, PoolShared
<1>5. CASE DropPool
  <2>1. /\ ~open' /\ mapping' = [key \in Key |-> <<>>] /\ open' = FALSE
        /\ UNCHANGED <<conns, tasks, clock, swept, scope>>
    BY <1>5 DEF DropPool
  <2>2. /\ mapping' \in [Key -> Seq(IdleConnection)]
        /\ \A key \in Key : mapping'[key] = <<>> /\ Portion(mapping'[key], mapping[key])
    BY <1>2, <2>1
  <2>3. clock' \in Nat /\ clock <= clock' /\ swept' <= clock' /\ swept' \in Nat
    BY <1>1, <2>1
  <2>4. open' \in BOOLEAN
    BY <2>1
  <2> QED BY <2>4, <2>1, <2>2, <2>3, PoolShared
<1> QED BY <1>3, <1>4, <1>5

-----------------------------------------------------------------------------
(* The first state, and every step.                                          *)
LEMMA SharedInit == Init => Shared
<1> SUFFICES ASSUME Init PROVE Shared
  OBVIOUS
<1> USE DEF Init
<1>1. NewTask \in PooledConnection /\ NewTask.pc = "new" /\ NewTask.conn = 0 /\ NewTask.age = 0
  BY DEF NewTask, PooledConnection, Place
<1>2. Dur \in Nat /\ MaxIdle \in Nat
  BY ScopeFacts
<1>3. Typed
  BY <1>1 DEF Typed
<1>4. Stands(NewTask)
  BY <1>1, <1>2 DEF Stands, Holding
<1>5. \A key : QueueOK(key, <<>>)
  BY <1>2 DEF QueueOK, Distinct
<1>6. Placed
  BY <1>2, <1>4, <1>5 DEF Placed
<1>7. \A r \in Request : ~Holds(r)
  BY <1>1 DEF Holds, Holding
<1>8. Conn = {}
  BY DEF Conn
<1>9. Alone
  BY <1>7, <1>8 DEF Alone
<1> QED BY <1>3, <1>6, <1>9 DEF Shared

(* What a step of the pool is.                                               *)
LEMMA PoolSteps ==
  ASSUME Typed, Placed, Next
  PROVE  \/ \E r \in Request : \/ \E key \in Key : Takes(r, key)
                               \/ \E u : Passes(r, u)
                               \/ Dial(r)
                               \/ \E u, d : Goes(r, u, d)
                               \/ \E t, place, d : Ends(r, t, place, d)
         \/ \E c, d : Serves(c, d)
         \/ Tick \/ Sweep \/ DropPool
<1>1. ASSUME NEW r \in Request, Run(r) \/ Cancel(r) \/ Retry(r)
      PROVE  \/ \E key \in Key : Takes(r, key)
             \/ \E u : Passes(r, u)
             \/ Dial(r)
             \/ \E u, d : Goes(r, u, d)
             \/ \E t, place, d : Ends(r, t, place, d)
  <2>1. CASE Send(r) \/ SendFails(r) \/ RecvHead(r) \/ RecvBody(r) \/ RecvEof(r)
    BY <2>1, Http1Steps
  <2>2. CASE Ready(r) \/ RecvResponse(r) \/ (Cancel(r) /\ tasks[r].pc # "dial")
    BY <2>2, OtherSteps
  <2>3. CASE (\E key \in Key : Get(r, key)) \/ DialFails(r) \/ Retry(r)
               \/ (Cancel(r) /\ tasks[r].pc = "dial")
    BY <2>3, OuterSteps
  <2> QED BY <1>1, <2>1, <2>2, <2>3 DEF Run
<1>2. ASSUME NEW c \in Conn, Serve(c) \/ Cut(c) PROVE \E d : Serves(c, d)
  BY <1>2, ServerSteps
<1> QED BY <1>1, <1>2 DEF Next

\* Every step of the pool keeps it.
LEMMA SharedStep ==
  ASSUME Shared, [Next]_vars
  PROVE  Shared'
<1>1. CASE UNCHANGED vars
  BY <1>1 DEF vars, Shared, Typed, Placed, Alone, Key, Proto, Connection, PooledConnection, Conn,
              Stands, QueueOK, Entry, Made, MaxIdle, Holds, InPool
<1>2. CASE Next
  <2>1. Typed /\ Placed
    BY DEF Shared
  <2> QED BY <1>2, <2>1, PoolSteps, TakesShared, PassesShared, DialShared, GoesShared, EndsShared,
             ServesShared, ClockShared
<1> QED BY <1>1, <1>2

-----------------------------------------------------------------------------
(* What is on the wire of an HTTP/1 connection that nobody has left in the   *)
(* middle of an answer is the answer of the request that holds it.           *)
Clean(c) == c.asked = <<>> /\ c.wire = <<>>
Dead(c) == ~c.up /\ c.wire = <<>>
Uses(r, c) == Holds(r) /\ tasks[r].conn = c
Others(r, c) == c.spoilers \ {r} # {}

\* Where the answer is that r, which is t, expects from c.
Expects(r, t, c) ==
  \/ t.pc = "send" /\ Clean(c)
  \/ /\ t.pc = "head"
     /\ \/ c.asked = <<r>> /\ c.wire = <<>>
        \/ Clean(c) /\ ~c.up
        \/ c.asked = <<>> /\ \E b \in {"none", "some"}, e \in BOOLEAN : c.wire = Parts(r, b, e)
  \/ t.pc = "body" /\ t.got = r /\ c.asked = <<>> /\ Len(c.wire) = 1

(* A request that has spoilt c alone, and was not dropped by its caller, has *)
(* seen the end of it.                                                       *)
Link(c) ==
  Proto[conns[c].key] = "h1" =>
    /\ conns[c].spoilers = {} =>
         /\ (\A r \in Request : ~Uses(r, c)) => Clean(conns[c])
         /\ \A r \in Request : Uses(r, c) => Expects(r, tasks[r], conns[c])
    /\ \A r \in Request :
         conns[c].spoilers = {r} /\ tasks[r].pc # "gone" => Dead(conns[c])

Told(r) ==
  /\ tasks[r].pc \in {"body", "ok"} /\ tasks[r].got # r => Others(r, C(r))
  /\ tasks[r].pc = "err" /\ tasks[r].conn # 0 => ~C(r).up \/ Others(r, C(r))

Aligned == (\A c \in Conn : Link(c)) /\ \A r \in Request : Told(r)

(* A request that holds an HTTP/1 connection.                                *)
LEMMA HolderFacts ==
  ASSUME Shared, Aligned, NEW r \in Request, Holds(r), IsH1(r)
  PROVE  /\ C(r).spoilers = {} => Expects(r, tasks[r], C(r))
         /\ C(r).spoilers = {r} => Dead(C(r))
         /\ \A q \in Request : Uses(q, tasks[r].conn) => q = r
<1>1. /\ tasks[r].conn \in Conn /\ Proto[C(r).key] = "h1" /\ Stands(tasks[r])
      /\ tasks[r].pc # "gone"
  BY HoldFacts DEF Shared, IsH1, Holds, Holding
<1>2. tasks[r].reusable
  BY <1>1 DEF Stands, Holds, IsH1
<1>3. \A q \in Request : Uses(q, tasks[r].conn) => q = r
  BY <1>2 DEF Shared, Alone, Uses
<1> QED BY <1>1, <1>3 DEF Aligned, Link, Uses, C

(* A connection and its request go on, the others see no difference.         *)
LEMMA WorkAligned ==
  ASSUME Shared, Aligned, NEW r \in Request, Holds(r), NEW u, NEW d,
         tasks' = [tasks EXCEPT ![r] = u], SetConn(r, d), scope' = scope,
         u.conn = tasks[r].conn, d.key = C(r).key,
         d.spoilers = C(r).spoilers \/ d.spoilers = C(r).spoilers \cup {r},
         ~C(r).up => ~d.up,
         IsH1(r) /\ Dead(C(r)) => Dead(d),
         IsH1(r) /\ d.spoilers = {} => IF u.pc \in Holding THEN Expects(r, u, d) ELSE Clean(d),
         IsH1(r) /\ d.spoilers = {r} /\ u.pc # "gone" => Dead(d),
         u.pc \in {"body", "ok"} /\ u.got # r => Others(r, d),
         u.pc = "err" => ~d.up \/ Others(r, d)
  PROVE  Aligned'
<1> DEFINE c == tasks[r].conn
<1>1. /\ c \in Conn /\ tasks[r].key \in Key /\ conns[c].key = tasks[r].key
      /\ tasks \in [Request -> PooledConnection]
  BY HoldFacts DEF Shared, Typed, C
<1>2. /\ conns' = [conns EXCEPT ![c] = d] /\ C(r) = conns[c]
  BY DEF SetConn, C
<1> HIDE DEF c
<1>3. /\ Conn' = Conn /\ conns'[c] = d /\ \A x \in Conn : x # c => conns'[x] = conns[x]
  BY <1>1, <1>2 DEF Conn
<1>4. /\ tasks'[r] = u /\ u.conn = c /\ tasks[r].conn = c
      /\ \A q \in Request : q # r => tasks'[q] = tasks[q]
  BY <1>1 DEF c
<1>5. Proto' = Proto
  BY DEF Proto
<1>6. ASSUME NEW q \in Request PROVE Told(q)'
  <2>1. CASE q = r
    BY <1>3, <1>4, <2>1 DEF Told, C, Others
  <2>2. CASE q # r
    <3>1. Told(q) /\ tasks'[q] = tasks[q] /\ Stands(tasks[q])
      BY <1>4, <2>2 DEF Aligned, Shared, Placed
    <3>2. tasks[q].pc \in {"body", "ok"} \/ (tasks[q].pc = "err" /\ tasks[q].conn # 0) => tasks[q].conn \in Conn
      BY <3>1 DEF Stands, Holding, Made
    <3>3. tasks[q].conn \in Conn => /\ Others(q, conns[tasks[q].conn]) => Others(q, conns'[tasks[q].conn])
                                    /\ ~conns[tasks[q].conn].up => ~conns'[tasks[q].conn].up
      BY <1>2, <1>3 DEF Others
    <3> QED BY <3>1, <3>2, <3>3 DEF Told, C
  <2> QED BY <2>1, <2>2
<1>7. \A q \in Request : \A x : x # c => (Uses(q, x)' <=> Uses(q, x))
  BY <1>4 DEF Uses, Holds
<1>8. ASSUME NEW x \in Conn, x # c PROVE Link(x)'
  <2>1. \A q \in Request : Uses(q, x) => tasks'[q] = tasks[q]
    BY <1>4, <1>8 DEF Uses
  <2>2. tasks[r].pc # "gone"
    BY DEF Holds, Holding
  <2>3. \A q \in Request : tasks'[q].pc # "gone" => tasks[q].pc # "gone"
    BY <1>4, <2>2
  <2> QED BY <1>3, <1>5, <1>7, <1>8, <2>1, <2>3 DEF Aligned, Link
<1>9. ASSUME NEW x, x = c PROVE Link(x)'
  <2> SUFFICES ASSUME Proto[d.key] = "h1"
               PROVE  /\ d.spoilers = {} =>
                           /\ (\A q \in Request : ~Uses(q, x)') => Clean(d)
                           /\ \A q \in Request : Uses(q, x)' => Expects(q, tasks'[q], d)
                      /\ \A q \in Request : d.spoilers = {q} /\ tasks'[q].pc # "gone" => Dead(d)
    BY <1>3, <1>5, <1>9 DEF Link
  <2>1. IsH1(r) /\ Proto[conns[c].key] = "h1"
    BY <1>1, <1>2 DEF IsH1
  <2>2. \A q \in Request : Uses(q, c) => q = r
    BY <2>1, HolderFacts DEF c
  <2>3. \A q \in Request : Uses(q, x)' => q = r
    BY <1>4, <1>9, <2>2 DEF Uses, Holds
  <2>4. Uses(r, x)' <=> u.pc \in Holding
    BY <1>4, <1>9 DEF Uses, Holds
  <2>5. ASSUME NEW q \in Request, d.spoilers = {q}, tasks'[q].pc # "gone" PROVE Dead(d)
    <3>1. CASE q = r
      BY <1>4, <2>1, <2>5, <3>1
    <3>2. CASE q # r
      <4>1. conns[c].spoilers = {q} /\ tasks[q].pc # "gone"
        BY <1>2, <1>4, <2>5, <3>2
      <4> QED BY <1>1, <1>2, <2>1, <4>1 DEF Aligned, Link
    <3> QED BY <3>1, <3>2
  <2> QED BY <1>4, <2>1, <2>3, <2>4, <2>5
<1>10. \A x \in Conn : Link(x)'
  BY <1>8, <1>9
<1> QED BY <1>3, <1>6, <1>10 DEF Aligned

-----------------------------------------------------------------------------
(* HttpConnection::send_request over HTTP/1                                  *)

(* What SendFails and RecvEof leave behind.                                  *)
LEMMA SpoilFacts ==
  ASSUME NEW r, NEW c \in Connection
  PROVE  /\ Spoil(c, r).spoilers = c.spoilers \cup {r} /\ Spoil(c, r).key = c.key
         /\ Spoil(c, r).up = c.up /\ Spoil(c, r).wire = c.wire
BY DEF Spoil, Connection

\* The request is written to a connection that has nothing else on it.
LEMMA SendAligned ==
  ASSUME Shared, Aligned, NEW r \in Request, Send(r)
  PROVE  Aligned'
<1> DEFINE t == tasks[r]
           c == C(r)
           d == IF c.up THEN [c EXCEPT !.asked = Append(@, r)] ELSE c
           u == [t EXCEPT !.pc = "head"]
<1>1. /\ Holds(r) /\ IsH1(r) /\ t.pc = "send" /\ tasks' = [tasks EXCEPT ![r] = u] /\ SetConn(r, d)
      /\ scope' = scope
  BY DEF Send, Holds, Holding
<1>2. t \in PooledConnection /\ c \in Connection
  BY <1>1, HoldFacts DEF Shared
<1>3. /\ c.spoilers = {} => Expects(r, t, c)
      /\ c.spoilers = {r} => Dead(c)
  BY <1>1, HolderFacts
<1> HIDE DEF t, c
<1>4. u.pc = "head" /\ u.conn = t.conn
  BY <1>2 DEF PooledConnection
<1>5. /\ d.key = c.key /\ d.spoilers = c.spoilers /\ d.up = c.up /\ d.wire = c.wire
      /\ d.asked = IF c.up THEN Append(c.asked, r) ELSE c.asked
  BY <1>2 DEF Connection
<1> HIDE DEF d, u
<1>6. Append(<<>>, r) = <<r>>
  OBVIOUS
<1>7. c.spoilers = {} => Expects(r, u, d)
  BY <1>1, <1>3, <1>4, <1>5, <1>6 DEF Expects, Clean
<1>8. Dead(c) => Dead(d)
  BY <1>5 DEF Dead
<1> QED BY <1>1, <1>3, <1>4, <1>5, <1>7, <1>8, WorkAligned DEF t, c, Holding

\* What a request leaves on a dead connection is nothing.
LEMMA SendFailsAligned ==
  ASSUME Shared, Aligned, NEW r \in Request, SendFails(r)
  PROVE  Aligned'
<1> DEFINE t == tasks[r]
           c == C(r)
           d == Spoil(c, r)
           u == [t EXCEPT !.pc = "err"]
<1>1. /\ Holds(r) /\ IsH1(r) /\ t.pc = "send" /\ tasks' = [tasks EXCEPT ![r] = u] /\ SetConn(r, d)
      /\ scope' = scope /\ ~c.up
  BY DEF SendFails, Finish, Holds, Holding
<1>2. t \in PooledConnection /\ c \in Connection
  BY <1>1, HoldFacts DEF Shared
<1>3. /\ c.spoilers = {} => Expects(r, t, c)
      /\ c.spoilers = {r} => Dead(c)
  BY <1>1, HolderFacts
<1> HIDE DEF t, c
<1>4. u.pc = "err" /\ u.conn = t.conn
  BY <1>2 DEF PooledConnection
<1>5. d.spoilers = c.spoilers \cup {r} /\ d.key = c.key /\ d.up = c.up /\ d.wire = c.wire
  BY <1>2, SpoilFacts
<1> HIDE DEF d, u
<1>6. d.spoilers = {r} => Dead(d)
  <2>1. d.spoilers = {r} => c.spoilers = {} \/ c.spoilers = {r}
    BY <1>5
  <2> QED BY <1>1, <1>3, <1>5, <2>1 DEF Expects, Clean, Dead
<1>7. (Dead(c) => Dead(d)) /\ d.spoilers # {}
  BY <1>5 DEF Dead
<1> QED BY <1>1, <1>4, <1>5, <1>6, <1>7, WorkAligned DEF t, c

\* The head is the one of r, unless another request has spoilt the connection.
LEMMA RecvHeadAligned ==
  ASSUME Shared, Aligned, NEW r \in Request, RecvHead(r)
  PROVE  Aligned'
<1> DEFINE t == tasks[r]
           c == C(r)
           item == Head(c.wire)
           d == [c EXCEPT !.wire = Tail(@)]
           v == [t EXCEPT !.got = item.req, !.close = item.close]
<1>1. /\ Holds(r) /\ IsH1(r) /\ t.pc = "head" /\ scope' = scope /\ c.wire # <<>>
  BY DEF RecvHead, Holds, Holding
<1>2. t \in PooledConnection /\ c \in Connection
  BY <1>1, HoldFacts DEF Shared
<1>3. /\ c.spoilers = {} => Expects(r, t, c)
      /\ c.spoilers = {r} => Dead(c)
  BY <1>1, HolderFacts
<1>4. \/ item.part = "body" /\ tasks' = [tasks EXCEPT ![r] = [t EXCEPT !.pc = "err"]] /\ SetConn(r, Spoil(d, r))
      \/ /\ item.part # "body" /\ HasBody(item.body) /\ SetConn(r, d)
         /\ tasks' = [tasks EXCEPT ![r] = [v EXCEPT !.pc = "body"]]
      \/ /\ item.part # "body" /\ ~HasBody(item.body) /\ SetConn(r, d)
         /\ tasks' = [tasks EXCEPT ![r] = [Answered(v) EXCEPT !.pc = "ok"]]
  BY DEF RecvHead, Finish
<1> HIDE DEF t, c
<1>5. c.spoilers # {r} /\ ~Dead(c)
  BY <1>1, <1>3 DEF Dead
<1>6. ASSUME c.spoilers = {}
      PROVE  /\ item.req = r /\ item.part = "head" /\ c.asked = <<>>
             /\ item.body = "none" => Tail(c.wire) = <<>>
             /\ item.body # "none" => Len(Tail(c.wire)) = 1
  <2>1. /\ c.asked = <<>> /\ \E b \in {"none", "some"}, e \in BOOLEAN : c.wire = Parts(r, b, e)
    BY <1>1, <1>3, <1>6 DEF Expects, Clean
  <2> QED BY <2>1, PartsFacts
<1>7. /\ d.key = c.key /\ d.spoilers = c.spoilers /\ d.up = c.up /\ d.wire = Tail(c.wire)
      /\ d.asked = c.asked /\ d \in [key : {c.key}, up : {c.up}, asked : {c.asked},
           wire : {Tail(c.wire)}, spoilers : {c.spoilers}, found_dead : {c.found_dead}]
  BY <1>2 DEF Connection
<1>8. /\ Spoil(d, r).spoilers = c.spoilers \cup {r} /\ Spoil(d, r).key = c.key
      /\ Spoil(d, r).up = c.up
  BY <1>7 DEF Spoil
<1>9. /\ [t EXCEPT !.pc = "err"].pc = "err" /\ [t EXCEPT !.pc = "err"].conn = t.conn
      /\ [v EXCEPT !.pc = "body"].pc = "body" /\ [v EXCEPT !.pc = "body"].conn = t.conn
      /\ [v EXCEPT !.pc = "body"].got = item.req
      /\ [Answered(v) EXCEPT !.pc = "ok"].pc = "ok" /\ [Answered(v) EXCEPT !.pc = "ok"].conn = t.conn
      /\ [Answered(v) EXCEPT !.pc = "ok"].got = item.req
  BY <1>2 DEF Answered, PooledConnection
<1> HIDE DEF d, v, item
<1>10. c.spoilers # {} => Others(r, c) /\ Others(r, d) /\ Others(r, Spoil(d, r))
  BY <1>5, <1>7, <1>8 DEF Others
<1>11. CASE item.part = "body" /\ tasks' = [tasks EXCEPT ![r] = [t EXCEPT !.pc = "err"]] /\ SetConn(r, Spoil(d, r))
  <2> DEFINE w == [t EXCEPT !.pc = "err"]
             f == Spoil(d, r)
  <2>1. /\ c.spoilers # {} /\ Others(r, f) /\ f.spoilers = c.spoilers \cup {r} /\ f.key = c.key /\ f.up = c.up
        /\ w.pc = "err" /\ w.conn = t.conn /\ tasks' = [tasks EXCEPT ![r] = w] /\ SetConn(r, f)
    BY <1>6, <1>8, <1>9, <1>10, <1>11
  <2> HIDE DEF w, f
  <2>2. f.spoilers # {} /\ f.spoilers # {r}
    BY <2>1 DEF Others
  <2> QED BY <1>1, <1>5, <2>1, <2>2, WorkAligned DEF t, c
<1>12. CASE /\ item.part # "body" /\ HasBody(item.body) /\ SetConn(r, d)
            /\ tasks' = [tasks EXCEPT ![r] = [v EXCEPT !.pc = "body"]]
  <2> DEFINE w == [v EXCEPT !.pc = "body"]
  <2>1. w.pc = "body" /\ w.conn = t.conn /\ w.got = item.req /\ tasks' = [tasks EXCEPT ![r] = w]
    BY <1>9, <1>12
  <2> HIDE DEF w
  <2>2. c.spoilers = {} => Expects(r, w, d)
    BY <1>6, <1>7, <1>12, <2>1 DEF Expects, HasBody
  <2>3. w.got # r => Others(r, d)
    BY <1>6, <1>10, <2>1
  <2> QED BY <1>1, <1>5, <1>7, <1>12, <2>1, <2>2, <2>3, WorkAligned, ZenonT(60) DEF t, c, Holding
<1>13. CASE /\ item.part # "body" /\ ~HasBody(item.body) /\ SetConn(r, d)
            /\ tasks' = [tasks EXCEPT ![r] = [Answered(v) EXCEPT !.pc = "ok"]]
  <2> DEFINE w == [Answered(v) EXCEPT !.pc = "ok"]
  <2>1. w.pc = "ok" /\ w.conn = t.conn /\ w.got = item.req /\ tasks' = [tasks EXCEPT ![r] = w]
    BY <1>9, <1>13
  <2> HIDE DEF w
  <2>2. c.spoilers = {} => Clean(d)
    BY <1>6, <1>7, <1>13 DEF Clean, HasBody
  <2>3. w.got # r => Others(r, d)
    BY <1>6, <1>10, <2>1
  <2> QED BY <1>1, <1>5, <1>7, <1>13, <2>1, <2>2, <2>3, WorkAligned, ZenonT(60) DEF t, c, Holding
<1> QED BY <1>4, <1>11, <1>12, <1>13

\* The body is the last thing on the wire.
LEMMA RecvBodyAligned ==
  ASSUME Shared, Aligned, NEW r \in Request, RecvBody(r)
  PROVE  Aligned'
<1> DEFINE t == tasks[r]
           c == C(r)
           d == [c EXCEPT !.wire = Tail(@)]
           u == [Answered(t) EXCEPT !.pc = "ok"]
<1>1. /\ Holds(r) /\ IsH1(r) /\ t.pc = "body" /\ tasks' = [tasks EXCEPT ![r] = u] /\ SetConn(r, d)
      /\ scope' = scope /\ c.wire # <<>>
  BY DEF RecvBody, Finish, Holds, Holding
<1>2. t \in PooledConnection /\ c \in Connection
  BY <1>1, HoldFacts DEF Shared
<1>3. /\ c.spoilers = {} => Expects(r, t, c)
      /\ c.spoilers = {r} => Dead(c)
      /\ t.got # r => Others(r, c)
  BY <1>1, HolderFacts DEF Aligned, Told
<1> HIDE DEF t, c
<1>4. u.pc = "ok" /\ u.conn = t.conn /\ u.got = t.got
  BY <1>2 DEF Answered, PooledConnection
<1>5. /\ d.key = c.key /\ d.spoilers = c.spoilers /\ d.up = c.up /\ d.wire = Tail(c.wire)
      /\ d.asked = c.asked
  BY <1>2 DEF Connection
<1> HIDE DEF d, u
<1>6. c.spoilers # {r} /\ ~Dead(c)
  BY <1>1, <1>3 DEF Dead
<1>7. c.spoilers = {} => Clean(d)
  <2>1. ASSUME Len(c.wire) = 1 PROVE Tail(c.wire) = <<>>
    <3>1. c.wire \in Seq(Item)
      BY <1>2 DEF Connection
    <3> DEFINE line == Tail(c.wire)
    <3>2. line \in Seq(Item) /\ Len(line) = 0
      BY <1>1, <2>1, <3>1, HeadTailProperties
    <3> HIDE DEF line
    <3>3. line = <<>>
      BY <3>2
    <3> QED BY <3>3 DEF line
  <2> QED BY <1>1, <1>3, <1>5, <2>1 DEF Expects, Clean
<1>8. u.got # r => Others(r, d)
  BY <1>3, <1>4, <1>5 DEF Others
<1> QED BY <1>1, <1>4, <1>5, <1>6, <1>7, <1>8, WorkAligned DEF t, c, Holding

\* Nothing is left to read.
LEMMA RecvEofAligned ==
  ASSUME Shared, Aligned, NEW r \in Request, RecvEof(r)
  PROVE  Aligned'
<1> DEFINE t == tasks[r]
           c == C(r)
           d == Spoil(c, r)
           v == [t EXCEPT !.pc = "err"]
           w == [Answered(t) EXCEPT !.pc = "ok"]
<1>1. /\ Holds(r) /\ IsH1(r) /\ SetConn(r, d) /\ scope' = scope /\ ~c.up /\ c.wire = <<>>
      /\ \/ tasks' = [tasks EXCEPT ![r] = v]
         \/ t.pc = "body" /\ tasks' = [tasks EXCEPT ![r] = w]
  BY DEF RecvEof, Finish, Holds, Holding
<1>2. t \in PooledConnection /\ c \in Connection
  BY <1>1, HoldFacts DEF Shared
<1>3. t.pc = "body" /\ t.got # r => Others(r, c)
  BY DEF Aligned, Told
<1> HIDE DEF t, c
<1>4. /\ v.pc = "err" /\ v.conn = t.conn
      /\ w.pc = "ok" /\ w.conn = t.conn /\ w.got = t.got
  BY <1>2 DEF Answered, PooledConnection
<1>5. d.spoilers = c.spoilers \cup {r} /\ d.key = c.key /\ d.up = c.up /\ d.wire = c.wire
  BY <1>2, SpoilFacts
<1> HIDE DEF d, v, w
<1>6. Dead(d) /\ d.spoilers # {} /\ ~d.up
  BY <1>1, <1>5 DEF Dead
<1>7. t.pc = "body" /\ t.got # r => Others(r, d)
  BY <1>3, <1>5 DEF Others
<1>8. CASE tasks' = [tasks EXCEPT ![r] = v]
  BY <1>1, <1>4, <1>5, <1>6, <1>8, WorkAligned DEF t, c
<1>9. CASE t.pc = "body" /\ tasks' = [tasks EXCEPT ![r] = w]
  BY <1>1, <1>4, <1>5, <1>6, <1>7, <1>9, WorkAligned DEF t, c
<1> QED BY <1>1, <1>8, <1>9

-----------------------------------------------------------------------------
(* HttpConnection::send_request over HTTP/2, and the drop of the future      *)

\* HTTP/2: ready() and the send.
LEMMA ReadyAligned ==
  ASSUME Shared, Aligned, NEW r \in Request, Ready(r)
  PROVE  Aligned'
<1> DEFINE t == tasks[r]
           c == C(r)
           d == [c EXCEPT !.asked = Append(@, r)]
           f == [c EXCEPT !.found_dead = ~t.reusable]
           u == [t EXCEPT !.pc = "head"]
           v == [t EXCEPT !.remove_h2 = TRUE]
           w == [v EXCEPT !.pc = "err"]
<1>1. /\ Holds(r) /\ ~IsH1(r) /\ scope' = scope
      /\ \/ tasks' = [tasks EXCEPT ![r] = u] /\ SetConn(r, d)
         \/ ~c.up /\ tasks' = [tasks EXCEPT ![r] = w] /\ SetConn(r, f)
  <2>1. tasks' = [tasks EXCEPT ![r].pc = "head"] => tasks' = [tasks EXCEPT ![r] = u]
    OBVIOUS
  <2> QED BY <2>1 DEF Ready, Finish, Holds, Holding
<1>2. t \in PooledConnection /\ c \in Connection
  BY <1>1, HoldFacts DEF Shared
<1> HIDE DEF t, c
<1>3. u.pc = "head" /\ u.conn = t.conn /\ w.pc = "err" /\ w.conn = t.conn
  BY <1>2 DEF PooledConnection
<1>4. /\ d.key = c.key /\ d.spoilers = c.spoilers /\ d.up = c.up
      /\ f.key = c.key /\ f.spoilers = c.spoilers /\ f.up = c.up
  BY <1>2 DEF Connection
<1> HIDE DEF d, f, u, v, w
<1>5. CASE tasks' = [tasks EXCEPT ![r] = u] /\ SetConn(r, d)
  BY <1>1, <1>3, <1>4, <1>5, WorkAligned DEF t, c
<1>6. CASE ~c.up /\ tasks' = [tasks EXCEPT ![r] = w] /\ SetConn(r, f)
  BY <1>1, <1>3, <1>4, <1>6, WorkAligned DEF t, c
<1> QED BY <1>1, <1>5, <1>6

\* HTTP/2: an answer finds its own request.
LEMMA RecvResponseAligned ==
  ASSUME Shared, Aligned, NEW r \in Request, RecvResponse(r)
  PROVE  Aligned'
<1> DEFINE t == tasks[r]
           c == C(r)
           v == [t EXCEPT !.got = r]
           u == [v EXCEPT !.pc = "ok"]
           w == [t EXCEPT !.pc = "err"]
<1>1. /\ Holds(r) /\ ~IsH1(r) /\ scope' = scope
      /\ \/ /\ \E i \in DOMAIN c.wire : SetConn(r, [c EXCEPT !.wire = RemoveAt(@, i)])
            /\ tasks' = [tasks EXCEPT ![r] = u]
         \/ ~c.up /\ tasks' = [tasks EXCEPT ![r] = w] /\ conns' = conns
  BY DEF RecvResponse, Finish, Holds, Holding
<1>2. t \in PooledConnection /\ c \in Connection /\ tasks[r].conn \in Conn
  BY <1>1, HoldFacts DEF Shared
<1>3. conns' = conns => SetConn(r, c)
  BY <1>2 DEF SetConn, c, C, Shared, Typed, Conn
<1> HIDE DEF t, c
<1>4. u.pc = "ok" /\ u.conn = t.conn /\ u.got = r /\ w.pc = "err" /\ w.conn = t.conn
  BY <1>2 DEF PooledConnection
<1> HIDE DEF u, v, w
<1>5. ASSUME NEW i \in DOMAIN c.wire, SetConn(r, [c EXCEPT !.wire = RemoveAt(@, i)]),
             tasks' = [tasks EXCEPT ![r] = u]
      PROVE  Aligned'
  <2> DEFINE d == [c EXCEPT !.wire = RemoveAt(@, i)]
  <2>1. d.key = c.key /\ d.spoilers = c.spoilers /\ d.up = c.up /\ SetConn(r, d)
    BY <1>2, <1>5 DEF Connection
  <2> HIDE DEF d
  <2> QED BY <1>1, <1>4, <1>5, <2>1, WorkAligned DEF t, c
<1>6. CASE ~c.up /\ tasks' = [tasks EXCEPT ![r] = w] /\ conns' = conns
  BY <1>1, <1>3, <1>4, <1>6, WorkAligned DEF t, c
<1> QED BY <1>1, <1>5, <1>6

\* A request that has sent nothing leaves nothing behind.
LEMMA CancelAligned ==
  ASSUME Shared, Aligned, NEW r \in Request, Cancel(r), tasks[r].pc # "dial"
  PROVE  Aligned'
<1> DEFINE t == tasks[r]
           c == C(r)
           d == IF t.pc = "send" THEN c ELSE Spoil(c, r)
           u == [t EXCEPT !.pc = "gone"]
<1>1. Holds(r) /\ tasks' = [tasks EXCEPT ![r] = u] /\ SetConn(r, d) /\ scope' = scope
  BY DEF Cancel, Finish, Holds
<1>2. t \in PooledConnection /\ c \in Connection
  BY <1>1, HoldFacts DEF Shared
<1>3. IsH1(r) /\ c.spoilers = {} => Expects(r, t, c)
  BY <1>1, HolderFacts
<1> HIDE DEF t, c
<1>4. u.pc = "gone" /\ u.conn = t.conn
  BY <1>2 DEF PooledConnection
<1>5. /\ d.spoilers = c.spoilers \/ d.spoilers = c.spoilers \cup {r}
      /\ d.key = c.key /\ d.up = c.up /\ d.wire = c.wire
      /\ d.spoilers = {} => t.pc = "send" /\ d = c
  BY <1>2, SpoilFacts
<1> HIDE DEF d, u
<1>6. IsH1(r) /\ d.spoilers = {} => Clean(d)
  BY <1>3, <1>5 DEF Expects
<1>7. Dead(c) => Dead(d)
  BY <1>5 DEF Dead
<1> QED BY <1>1, <1>4, <1>5, <1>6, <1>7, WorkAligned DEF t, c, Holding

-----------------------------------------------------------------------------
(* Requests that hold no connection; some take one.                          *)
LEMMA StartsAligned ==
  ASSUME Shared, Aligned, NEW r \in Request, NEW u, tasks' = [tasks EXCEPT ![r] = u], scope' = scope,
         tasks[r].pc \notin Holding \cup {"ok", "gone"},
         u.pc \in {"send", "new", "dial", "err", "gone"}, u.pc = "err" => u.conn = 0,
         \A x \in Conn : x \in Conn' /\ conns'[x] = conns[x],
         \A x \in Conn' : x \in Conn \/ (conns'[x].spoilers = {} /\ Clean(conns'[x])
                                           /\ u.pc = "send" /\ u.conn = x),
         u.pc = "send" => u.conn \notin Conn \/ InPool(u.conn)
  PROVE  Aligned'
<1>1. /\ tasks'[r] = u /\ ~Holds(r)
      /\ \A q \in Request : q # r => tasks'[q] = tasks[q]
  BY DEF Shared, Typed, Holds
<1>2. Proto' = Proto
  BY DEF Proto
<1>3. ASSUME NEW q \in Request PROVE Told(q)'
  <2>1. CASE q = r
    BY <1>1, <2>1 DEF Told
  <2>2. CASE q # r
    <3>1. Told(q) /\ tasks'[q] = tasks[q] /\ Stands(tasks[q])
      BY <1>1, <2>2 DEF Aligned, Shared, Placed
    <3>2. tasks[q].pc \in {"body", "ok"} \/ (tasks[q].pc = "err" /\ tasks[q].conn # 0) => tasks[q].conn \in Conn
      BY <3>1 DEF Stands, Holding, Made
    <3> QED BY <3>1, <3>2 DEF Told, C
  <2> QED BY <2>1, <2>2
<1>4. \A q \in Request : \A x : Uses(q, x)' => \/ q # r /\ Uses(q, x) /\ tasks'[q] = tasks[q]
                                               \/ q = r /\ u.pc = "send" /\ x = u.conn
  BY <1>1 DEF Uses, Holds, Holding
<1>5. \A q \in Request : \A x : Uses(q, x) => Uses(q, x)'
  BY <1>1 DEF Uses, Holds
<1>6. \A q \in Request : \A x : Uses(q, x) => x \in Conn /\ conns[x].key = tasks[q].key
  BY HoldFacts DEF Shared, Uses, C
<1>7. ASSUME NEW x \in Conn, x = u.conn, u.pc = "send", Proto[conns[x].key] = "h1", NEW q \in Request
      PROVE  ~Uses(q, x)
  <2> SUFFICES ASSUME Uses(q, x) PROVE FALSE
    OBVIOUS
  <2>1. Holds(q) /\ tasks[q].conn = x /\ Proto[tasks[q].key] = "h1" /\ Stands(tasks[q]) /\ InPool(x)
    BY <1>6, <1>7 DEF Uses, Shared, Placed
  <2> QED BY <2>1 DEF Stands, Holds, Shared, Alone
<1>8. ASSUME NEW x \in Conn' PROVE Link(x)'
  <2>1. CASE x \in Conn
    <3>1. conns'[x] = conns[x] /\ Link(x)
      BY <2>1 DEF Aligned
    <3>2. \A q \in Request : tasks'[q].pc # "gone" => tasks[q].pc # "gone"
      BY <1>1
    <3>3. ASSUME Proto[conns[x].key] = "h1", conns[x].spoilers = {}, \A q \in Request : ~Uses(q, x)'
          PROVE  Clean(conns[x])
      BY <1>5, <3>1, <3>3 DEF Link
    <3>4. ASSUME Proto[conns[x].key] = "h1", conns[x].spoilers = {}, NEW q \in Request, Uses(q, x)'
          PROVE  Expects(q, tasks'[q], conns[x])
      <4>1. CASE q # r /\ Uses(q, x) /\ tasks'[q] = tasks[q]
        BY <3>1, <3>4, <4>1 DEF Link
      <4>2. CASE q = r /\ u.pc = "send" /\ x = u.conn
        BY <1>1, <1>7, <2>1, <3>1, <3>4, <4>2 DEF Link, Expects
      <4> QED BY <1>4, <3>4, <4>1, <4>2
    <3> QED BY <1>2, <3>1, <3>2, <3>3, <3>4 DEF Link
  <2>2. CASE x \notin Conn
    <3>1. conns'[x].spoilers = {} /\ Clean(conns'[x])
      BY <2>2
    <3>2. ASSUME NEW q \in Request, Uses(q, x)' PROVE Expects(q, tasks'[q], conns'[x])
      <4>1. q = r /\ u.pc = "send"
        BY <1>4, <1>6, <2>2, <3>2
      <4> QED BY <1>1, <3>1, <4>1 DEF Expects
    <3> QED BY <3>1, <3>2 DEF Link
  <2> QED BY <2>1, <2>2
<1> QED BY <1>3, <1>8 DEF Aligned

\* ConnectionPool::get
LEMMA TakesAligned ==
  ASSUME Shared, Aligned, NEW r \in Request, NEW key \in Key, Takes(r, key)
  PROVE  Aligned'
<1> DEFINE u == [NewTask EXCEPT !.key = key, !.pc = "send", !.conn = Head(mapping[key]).conn,
                       !.reusable = ~Shares(key), !.age = clock - Head(mapping[key]).at]
<1>1. /\ tasks[r].pc = "new" /\ mapping[key] # <<>> /\ tasks' = [tasks EXCEPT ![r] = u]
      /\ conns' = conns /\ scope' = scope /\ mapping[key] \in Seq(IdleConnection)
  BY DEF Takes, Shared, Typed
<1>2. u.pc = "send" /\ u.conn = Head(mapping[key]).conn
  BY DEF NewTask
<1>3. Head(mapping[key]) = mapping[key][1] /\ 1 \in DOMAIN mapping[key]
  BY <1>1, Portions
<1>4. InPool(u.conn)
  BY <1>2, <1>3 DEF InPool
<1> HIDE DEF u
<1>5. Conn' = Conn
  BY <1>1 DEF Conn
<1> QED BY <1>1, <1>2, <1>4, <1>5, StartsAligned DEF Holding

\* PooledConnector::connect
LEMMA DialAligned ==
  ASSUME Shared, Aligned, NEW r \in Request, Dial(r)
  PROVE  Aligned'
<1> DEFINE d == NewConn(tasks[r].key)
           c == Len(conns) + 1
           u == [tasks[r] EXCEPT !.pc = "send", !.conn = c, !.reusable = TRUE]
<1>1. /\ tasks[r].pc = "dial" /\ conns' = Append(conns, d) /\ scope' = scope
      /\ tasks' = [tasks EXCEPT ![r].pc = "send", ![r].conn = c, ![r].reusable = TRUE]
  BY DEF Dial
<1>2. tasks[r] \in PooledConnection /\ tasks[r].key \in Key
  BY <1>1 DEF Shared, Typed, Placed, Stands
<1>3. d \in Connection /\ d.spoilers = {} /\ Clean(d)
  BY <1>2 DEF NewConn, Connection, Clean
<1> HIDE DEF d
<1>4. /\ Conn' = Conn \cup {c} /\ c \notin Conn
      /\ conns'[c] = d /\ \A x \in Conn : conns'[x] = conns[x]
  BY <1>1, <1>3, ConnAdded DEF Shared
<1> HIDE DEF c
<1>5. u.pc = "send" /\ u.conn = c
  BY <1>2 DEF PooledConnection
<1>6. tasks' = [tasks EXCEPT ![r] = u]
  BY <1>1, <1>2 DEF Shared, Typed, PooledConnection
<1> HIDE DEF u
<1>7. tasks[r].pc \notin Holding \cup {"ok", "gone"}
  BY <1>1 DEF Holding
<1>8. /\ \A x \in Conn : x \in Conn' /\ conns'[x] = conns[x]
      /\ \A x \in Conn' : x \in Conn \/ (conns'[x].spoilers = {} /\ Clean(conns'[x])
                                         /\ u.pc = "send" /\ u.conn = x)
      /\ u.pc = "send" => u.conn \notin Conn \/ InPool(u.conn)
  BY <1>3, <1>4, <1>5
<1>9. scope' = scope /\ u.pc \in {"send", "new", "dial", "err", "gone"} /\ u.pc # "err"
  BY <1>1, <1>5
<1> QED BY <1>6, <1>7, <1>8, <1>9, StartsAligned

\* A request without a connection does not matter to any.
LEMMA PassesAligned ==
  ASSUME Shared, Aligned, NEW r \in Request, NEW u, Passes(r, u)
  PROVE  Aligned'
<1>1. /\ tasks[r].pc \notin Holding \cup {"ok", "gone"} /\ u.pc \in {"new", "dial", "err", "gone"}
      /\ u.conn = 0 /\ tasks' = [tasks EXCEPT ![r] = u] /\ conns' = conns /\ scope' = scope
      /\ Conn' = Conn
  BY DEF Passes, Holds, Conn
<1> QED BY <1>1, StartsAligned

-----------------------------------------------------------------------------
(* The servers.                                                              *)
LEMMA NetAligned ==
  ASSUME Shared, Aligned, NEW c \in Conn, NEW d, conns[c].up, tasks' = tasks, scope' = scope,
         conns' = [conns EXCEPT ![c] = d], d.key = conns[c].key, d.spoilers = conns[c].spoilers,
         Proto[conns[c].key] = "h1" =>
           /\ Clean(conns[c]) => Clean(d)
           /\ \A r \in Request : Expects(r, tasks[r], conns[c]) => Expects(r, tasks[r], d)
  PROVE  Aligned'
<1>1. /\ Conn' = Conn /\ conns'[c] = d /\ \A x \in Conn : x # c => conns'[x] = conns[x]
  BY DEF Conn
<1>2. Proto' = Proto /\ \A q \in Request : \A x : Uses(q, x)' <=> Uses(q, x)
  BY DEF Proto, Uses, Holds
<1>3. ASSUME NEW q \in Request PROVE Told(q)'
  <2>1. Told(q) /\ Stands(tasks[q])
    BY DEF Aligned, Shared, Placed
  <2>2. tasks[q].pc \in {"body", "ok"} \/ (tasks[q].pc = "err" /\ tasks[q].conn # 0) => tasks[q].conn \in Conn
    BY <2>1 DEF Stands, Holding, Made
  <2>3. tasks[q].conn \in Conn => /\ Others(q, conns[tasks[q].conn]) => Others(q, conns'[tasks[q].conn])
                                  /\ ~conns[tasks[q].conn].up => ~conns'[tasks[q].conn].up
    BY <1>1 DEF Others
  <2> QED BY <2>1, <2>2, <2>3 DEF Told, C
<1>4. ASSUME NEW x \in Conn PROVE Link(x)'
  <2>1. Link(x)
    BY DEF Aligned
  <2>2. CASE x # c
    BY <1>1, <1>2, <2>1, <2>2 DEF Link
  <2>3. CASE x = c
    <3>1. Proto[conns[c].key] = "h1" => \A q \in Request : ~(conns[c].spoilers = {q} /\ tasks[q].pc # "gone")
      BY <2>1, <2>3 DEF Link, Dead
    <3> QED BY <1>1, <1>2, <2>1, <2>3, <3>1 DEF Link
  <2> QED BY <2>2, <2>3
<1> QED BY <1>1, <1>3, <1>4 DEF Aligned

\* An answer goes to the request that was asked for it.
LEMMA ServeAligned ==
  ASSUME Shared, Aligned, NEW c \in Conn, Serve(c) \/ Cut(c)
  PROVE  Aligned'
<1>1. conns[c] \in Connection
  BY ConnFacts DEF Shared
<1>2. CASE Answer(c)
  <2>1. PICK body \in {"none", "some"}, close \in BOOLEAN :
          conns' = [conns EXCEPT ![c] =
            [conns[c] EXCEPT !.asked = Tail(@), !.up = ~close,
                      !.wire = @ \o Parts(Head(conns[c].asked), body, close)]]
    BY <1>2 DEF Answer
  <2>2. conns[c].asked # <<>> /\ conns[c].up /\ tasks' = tasks /\ scope' = scope
    BY <1>2 DEF Answer
  <2> DEFINE d == [conns[c] EXCEPT !.asked = Tail(@), !.up = ~close,
                    !.wire = @ \o Parts(Head(conns[c].asked), body, close)]
  <2>3. /\ d.key = conns[c].key /\ d.spoilers = conns[c].spoilers /\ d.asked = Tail(conns[c].asked)
        /\ d.wire = conns[c].wire \o Parts(Head(conns[c].asked), body, close)
    BY <1>1 DEF Connection
  <2>4. conns' = [conns EXCEPT ![c] = d]
    BY <2>1
  <2> HIDE DEF d
  <2>5. ~Clean(conns[c])
    BY <2>2 DEF Clean
  <2>6. ASSUME NEW r \in Request, Expects(r, tasks[r], conns[c]) PROVE Expects(r, tasks[r], d)
    <3>1. tasks[r].pc = "head" /\ conns[c].asked = <<r>> /\ conns[c].wire = <<>>
      BY <2>2, <2>5, <2>6 DEF Expects
    <3>2. Head(<<r>>) = r /\ Tail(<<r>>) = <<>>
      OBVIOUS
    <3> DEFINE answer == Parts(r, body, close)
    <3>3. answer \in Seq(Item)
      BY PartsFacts
    <3>4. d.asked = <<>> /\ d.wire = <<>> \o answer
      BY <2>3, <3>1, <3>2
    <3> HIDE DEF answer
    <3>5. <<>> \o answer = answer
      BY <3>3, ConcatEmptySeq
    <3> QED BY <3>1, <3>4, <3>5 DEF Expects, answer
  <2> QED BY <2>2, <2>3, <2>4, <2>5, <2>6, NetAligned
<1>3. CASE AnswerH2(c)
  <2>1. PICK i \in DOMAIN conns[c].asked :
          conns' = [conns EXCEPT ![c] =
            [conns[c] EXCEPT !.asked = RemoveAt(@, i),
                      !.wire = Append(@, [req |-> conns[c].asked[i], part |-> "head",
                                          body |-> "none", close |-> FALSE])]]
    BY <1>3 DEF AnswerH2
  <2> DEFINE d == [conns[c] EXCEPT !.asked = RemoveAt(@, i),
                    !.wire = Append(@, [req |-> conns[c].asked[i], part |-> "head",
                                        body |-> "none", close |-> FALSE])]
  <2>2. d.key = conns[c].key /\ d.spoilers = conns[c].spoilers /\ conns' = [conns EXCEPT ![c] = d]
    BY <1>1, <2>1 DEF Connection
  <2>3. Proto[conns[c].key] # "h1" /\ conns[c].up /\ tasks' = tasks /\ scope' = scope
    BY <1>3 DEF AnswerH2
  <2> HIDE DEF d
  <2> QED BY <2>2, <2>3, NetAligned
<1>4. CASE Cut(c)
  <2> DEFINE d == [conns[c] EXCEPT !.up = FALSE, !.asked = <<>>]
  <2>1. /\ d.key = conns[c].key /\ d.spoilers = conns[c].spoilers /\ d.wire = conns[c].wire
        /\ d.asked = <<>> /\ ~d.up
    BY <1>1 DEF Connection
  <2>2. conns[c].up /\ tasks' = tasks /\ scope' = scope /\ conns' = [conns EXCEPT ![c] = d]
    BY <1>4 DEF Cut
  <2> HIDE DEF d
  <2>3. \A r \in Request : Expects(r, tasks[r], conns[c]) => Expects(r, tasks[r], d)
    BY <2>1, <2>2 DEF Expects, Clean
  <2>4. Clean(conns[c]) => Clean(d)
    BY <2>1 DEF Clean
  <2> QED BY <2>1, <2>2, <2>3, <2>4, NetAligned
<1> QED BY <1>2, <1>3, <1>4 DEF Serve

-----------------------------------------------------------------------------
(* The invariant.                                                            *)
IInv == Shared /\ Aligned

\* It holds at first.
LEMMA PoolInit == Init => IInv
<1> SUFFICES ASSUME Init PROVE IInv
  OBVIOUS
<1>1. Shared
  BY SharedInit
<1>2. Conn = {}
  BY DEF Init, Conn
<1>3. \A r \in Request : Told(r)
  BY DEF Init, Told, NewTask
<1>4. Aligned
  BY <1>2, <1>3 DEF Aligned
<1> QED BY <1>1, <1>4 DEF IInv

\* Every step keeps it.
LEMMA PoolStep ==
  ASSUME IInv, [Next]_vars
  PROVE  IInv'
<1> USE DEF IInv
<1>1. Shared'
  BY SharedStep
<1>2. Typed /\ Placed
  BY DEF Shared
<1>3. ASSUME UNCHANGED <<conns, tasks, scope>> PROVE Aligned'
  BY <1>3 DEF Aligned, Link, Told, Uses, Holds, C, Conn, Proto
<1>4. ASSUME NEW r \in Request, Run(r) \/ Cancel(r) \/ Retry(r) PROVE Aligned'
  <2>1. CASE Send(r) \/ SendFails(r) \/ RecvHead(r) \/ RecvBody(r) \/ RecvEof(r)
    BY <2>1, SendAligned, SendFailsAligned, RecvHeadAligned, RecvBodyAligned, RecvEofAligned
  <2>2. CASE Ready(r) \/ RecvResponse(r) \/ (Cancel(r) /\ tasks[r].pc # "dial")
    BY <2>2, ReadyAligned, RecvResponseAligned, CancelAligned
  <2>3. CASE (\E key \in Key : Get(r, key)) \/ DialFails(r) \/ Retry(r)
               \/ (Cancel(r) /\ tasks[r].pc = "dial")
    BY <1>2, <2>3, OuterSteps, TakesAligned, PassesAligned
  <2>4. CASE Dial(r)
    BY <2>4, DialAligned
  <2> QED BY <1>4, <2>1, <2>2, <2>3, <2>4 DEF Run
<1>5. ASSUME NEW c \in Conn, Serve(c) \/ Cut(c) PROVE Aligned'
  BY <1>5, ServeAligned
<1>6. UNCHANGED vars => UNCHANGED <<conns, tasks, scope>>
  BY DEF vars
<1>7. Tick \/ Sweep \/ DropPool => UNCHANGED <<conns, tasks, scope>>
  BY DEF Tick, Sweep, DropPool
<1>8. Aligned'
  BY <1>3, <1>4, <1>5, <1>6, <1>7 DEF Next
<1> QED BY <1>1, <1>8

-----------------------------------------------------------------------------
(* What follows from the invariant.                                          *)

\* The type invariant of ClientPool.
LEMMA InvTypeOK == IInv => TypeOK
<1> SUFFICES ASSUME IInv PROVE TypeOK
  OBVIOUS
<1> USE DEF IInv, Shared
<1>1. ASSUME NEW key \in Key, NEW i \in DOMAIN mapping[key]
      PROVE  /\ mapping[key][i].conn \in Conn /\ mapping[key][i].at <= clock
             /\ conns[mapping[key][i].conn].key = key
  BY DEF Placed, QueueOK, Entry, Made
<1>2. ASSUME NEW r \in Request
      PROVE  /\ tasks[r].pc \in Holding \cup {"new", "dial", "ok", "err", "gone"}
             /\ tasks[r].pc \in Holding => tasks[r].conn \in Conn
  <2>1. tasks[r] \in PooledConnection /\ Stands(tasks[r])
    BY DEF Typed, Placed
  <2> QED BY <2>1 DEF PooledConnection, Place, Stands, Made
<1> QED BY <1>1, <1>2 DEF TypeOK, Placed

(* A set in which any two are equal.                                         *)
LEMMA AtMostOne ==
  ASSUME NEW S, \A x, y \in S : x = y
  PROVE  IsFiniteSet(S) /\ Cardinality(S) \in {0, 1} /\ (S # {} => Cardinality(S) = 1)
<1>1. CASE S = {}
  BY <1>1, FS_EmptySet
<1>2. CASE S # {}
  <2>1. PICK x \in S : TRUE
    BY <1>2
  <2>2. S = {x}
    BY <2>1
  <2> QED BY <2>2, FS_Singleton
<1> QED BY <1>1, <1>2

\* An HTTP/1 connection has one owner at most.
LEMMA InvExclusive == IInv => Exclusive
<1> SUFFICES ASSUME IInv, NEW c \in Conn, Proto[conns[c].key] = "h1"
             PROVE  Owners(c) <= 1
  BY DEF Exclusive
<1> DEFINE R == {r \in Request : tasks[r].pc \in Holding /\ tasks[r].conn = c}
           P == {p \in Key \X (1..MaxConn) :
                   p[2] \in DOMAIN mapping[p[1]] /\ mapping[p[1]][p[2]].conn = c}
<1>1. Shared /\ Typed /\ Placed /\ Alone
  BY DEF IInv, Shared
<1>2. ASSUME NEW r \in R
      PROVE  /\ \A q \in R : q = r
             /\ P = {}
  <2>1. Holds(r) /\ tasks[r].conn = c /\ r \in Request
    BY DEF Holds
  <2>2. C(r).key = tasks[r].key /\ Stands(tasks[r]) /\ C(r) = conns[c]
    BY <1>1, <2>1, HoldFacts DEF C
  <2>3. tasks[r].reusable
    BY <2>1, <2>2 DEF Stands, Holds
  <2>4. ~InPool(c) /\ \A q \in Request : Holds(q) /\ tasks[q].conn = c => q = r
    BY <1>1, <2>1, <2>3 DEF Alone
  <2> QED BY <2>4 DEF Holds, InPool
<1>3. \A p, q \in P : p = q
  <2> SUFFICES ASSUME NEW p \in P, NEW q \in P PROVE p = q
    OBVIOUS
  <2>1. /\ p = <<p[1], p[2]>> /\ q = <<q[1], q[2]>> /\ p[1] \in Key /\ q[1] \in Key
        /\ p[2] \in DOMAIN mapping[p[1]] /\ q[2] \in DOMAIN mapping[q[1]]
        /\ mapping[p[1]][p[2]].conn = c /\ mapping[q[1]][q[2]].conn = c
    OBVIOUS
  <2>2. p[1] = conns[c].key /\ q[1] = conns[c].key
    BY <1>1, <2>1 DEF Placed, QueueOK, Entry, Made
  <2>3. Distinct(mapping[p[1]])
    BY <1>1, <2>1 DEF Placed, QueueOK
  <2>4. p[2] = q[2]
    BY <2>1, <2>2, <2>3 DEF Distinct
  <2> QED BY <2>1, <2>2, <2>4
<1>4. Owners(c) = Cardinality(R) + Cardinality(P)
  BY DEF Owners
<1> HIDE DEF R, P
<1>5. Cardinality(R) \in {0, 1} /\ Cardinality(P) \in {0, 1} /\ (R = {} \/ P = {})
  BY <1>2, <1>3, AtMostOne
<1>6. Cardinality({}) = 0
  BY FS_EmptySet
<1> QED BY <1>4, <1>5, <1>6

\* Answers and failures.
LEMMA InvMatches == IInv => ResponseMatches /\ FailsForAReason
<1> SUFFICES ASSUME IInv, NEW r \in Request
             PROVE  /\ tasks[r].pc = "ok" /\ tasks[r].got # r =>
                         conns[tasks[r].conn].spoilers \ {r} # {}
                    /\ tasks[r].pc = "err" /\ tasks[r].conn # 0 =>
                         ~conns[tasks[r].conn].up \/ conns[tasks[r].conn].spoilers \ {r} # {}
  BY DEF ResponseMatches, FailsForAReason
<1> QED BY DEF IInv, Aligned, Told, Others, C

\* The queues of the pool.
LEMMA InvPoolKept == IInv => PoolKept
<1> SUFFICES ASSUME IInv PROVE PoolKept
  OBVIOUS
<1> USE DEF IInv, Shared
<1>1. IdleBounded
  BY DEF IdleBounded, Placed, QueueOK
<1>2. FreshEnough
  BY DEF FreshEnough, Placed, Stands
<1>3. FoundDeadIsRemoved
  BY DEF FoundDeadIsRemoved, Alone
<1> QED BY <1>1, <1>2, <1>3 DEF PoolKept

-----------------------------------------------------------------------------
(* Each behaviour of SpecAll is, in the variables of the pool, one of Spec.  *)
LEMMA PoolAlways == SpecAll => []IInv
<1>1. InitAll => IInv
  BY PoolInit DEF InitAll
<1>2. IInv /\ [NextAll]_<<part, pool, codec>> => IInv'
  <2>1. [NextAll]_<<part, pool, codec>> => [Next]_vars
    BY DEF NextAll, pool, codec
  <2> QED BY <2>1, PoolStep
<1> QED BY <1>1, <1>2, PTL DEF SpecAll

\* HttpConnection and PooledConnection: whatever the servers, the network and the
\* callers do, an HTTP/1 connection is used by one request or waits in the pool, never
\* both and never twice; a request that is answered got its own answer and one that
\* fails lost its server, unless another request left something behind on its connection.
THEOREM RequestsAlwaysServed == SpecAll => []RequestsServed
<1>1. IInv => RequestsServed
  BY InvTypeOK, InvExclusive, InvMatches DEF RequestsServed
<1> QED BY <1>1, PoolAlways, PTL

\* ConnectionPool and the IdleTask: the queue of a key never holds more than max_idle
\* connections and the one just put back, nothing older than two intervals is handed
\* out, and an HTTP/2 connection that a request found dead is not offered again.
THEOREM PoolAlwaysKept == SpecAll => []PoolKept
BY InvPoolKept, PoolAlways, PTL

-----------------------------------------------------------------------------
(* H1Codec: the reader of a body is told of its end.                         *)
BodyEnds == {"open", "done", "error", "lost"}
IsInbox(q) == \E M, F, B : q \in Seq([m : M, f : F, body : B, end : BodyEnds])

\* Dropping the fill of a fixed body loses its sender.
DropsFills == spoilt \cap {"dropfill", "dropnext"} # {}

ToldOf(i) ==
  \/ inbox[i].end \in {"done", "error"}
  \/ inbox[i].f = "fixed" /\ DropsFills
  \/ i = Len(inbox) /\ nextd.k # "none"

(* A body without an end is the last one, and there is a decoder for it; a   *)
(* decoder that has ended has none.                                          *)
Readers ==
  /\ IsInbox(inbox)
  /\ nextd.k \in {"none", "fixed", "streamed"}
  /\ nextd.k # "none" => inbox # <<>>
  /\ nextd.k = "fixed" => inbox[Len(inbox)].f = "fixed"
  /\ pc \in {"fill", "nextfill"} => nextd.k # "none"
  /\ pc = "head" => nextd.k = "none"
  /\ stop # "no" => nextd.k = "none" /\ pc = "idle"
  /\ \A i \in DOMAIN inbox : ToldOf(i)

(* A sequence over a set is one over a larger set.                           *)
LEMMA SeqWidens ==
  ASSUME NEW S, NEW T, S \subseteq T, NEW q \in Seq(S)
  PROVE  q \in Seq(T)
<1>1. PICK n \in Nat : q \in [1..n -> S]
  BY SeqDef
<1>2. q \in [1..n -> T]
  BY <1>1
<1> QED BY <1>2, SeqDef

(* The last message changes.                                                 *)
LEMMA LastChanges ==
  ASSUME IsInbox(inbox), inbox # <<>>, NEW end \in BodyEnds,
         H!Tells(end) \/ \E toks : H!Received(toks, end)
  PROVE  /\ IsInbox(inbox') /\ Len(inbox') = Len(inbox) /\ inbox' # <<>>
         /\ DOMAIN inbox' = DOMAIN inbox /\ Len(inbox) \in DOMAIN inbox
         /\ inbox'[Len(inbox)].end = end /\ inbox'[Len(inbox)].f = inbox[Len(inbox)].f
         /\ \A i \in DOMAIN inbox : i # Len(inbox) => inbox'[i] = inbox[i]
<1>1. PICK M, F, B : inbox \in Seq([m : M, f : F, body : B, end : BodyEnds])
  BY DEF IsInbox
<1> DEFINE n == Len(inbox)
           x == inbox[n]
<1>2. n \in DOMAIN inbox /\ DOMAIN inbox = 1..n /\ n \in Nat /\ x \in [m : M, f : F, body : B, end : BodyEnds]
  <2> DEFINE S == [m : M, f : F, body : B, end : BodyEnds]
  <2>1. inbox \in Seq(S)
    BY <1>1
  <2> HIDE DEF S
  <2>2. n \in DOMAIN inbox /\ DOMAIN inbox = 1..n /\ n \in Nat
    BY <2>1
  <2>3. x \in S
    BY <2>1, <2>2, ElementOfSeq
  <2> QED BY <2>2, <2>3 DEF S
<1>3. \E y : inbox' = [inbox EXCEPT ![n] = [x EXCEPT !.body = y, !.end = end]]
  <2>1. x = [x EXCEPT !.body = x.body]
    BY <1>2
  <2>2. CASE H!Tells(end)
    <3>1. inbox' = [inbox EXCEPT ![n] = [x EXCEPT !.end = end]]
      BY <2>2 DEF H!Tells
    <3>2. [x EXCEPT !.end = end] = [x EXCEPT !.body = x.body, !.end = end]
      BY <1>2
    <3> QED BY <3>1, <3>2
  <2>3. ASSUME NEW toks, H!Received(toks, end) PROVE \E y : inbox' = [inbox EXCEPT ![n] = [x EXCEPT !.body = y, !.end = end]]
    <3>1. inbox' = [inbox EXCEPT ![n] = [x EXCEPT !.body = x.body \o toks, !.end = end]]
      BY <1>2, <2>3 DEF H!Received
    <3> QED BY <3>1
  <2> QED BY <2>2, <2>3
<1>4. PICK y : inbox' = [inbox EXCEPT ![n] = [x EXCEPT !.body = y, !.end = end]]
  BY <1>3
<1> DEFINE z == [x EXCEPT !.body = y, !.end = end]
<1>5. /\ z \in [m : M, f : F, body : B \cup {y}, end : BodyEnds] /\ z.end = end /\ z.f = x.f
  BY <1>2
<1> HIDE DEF x, z
<1>6. inbox \in Seq([m : M, f : F, body : B \cup {y}, end : BodyEnds])
  <2>1. [m : M, f : F, body : B, end : BodyEnds] \subseteq [m : M, f : F, body : B \cup {y}, end : BodyEnds]
    OBVIOUS
  <2> QED BY <1>1, <2>1, SeqWidens
<1>7. inbox' = [inbox EXCEPT ![n] = z]
  BY <1>4 DEF z
<1>8. inbox' \in Seq([m : M, f : F, body : B \cup {y}, end : BodyEnds]) /\ Len(inbox') = n
  BY <1>2, <1>5, <1>6, <1>7, ExceptSeq
<1>9. inbox'[n] = z /\ DOMAIN inbox' = DOMAIN inbox /\ \A i \in DOMAIN inbox : i # n => inbox'[i] = inbox[i]
  BY <1>2, <1>7
<1>10. IsInbox(inbox')
  BY <1>8 DEF IsInbox
<1> QED BY <1>2, <1>5, <1>8, <1>9, <1>10 DEF x

\* What the sender does is not the decoder's.
LEMMA SenderKeeps ==
  ASSUME H!Sender
  PROVE  UNCHANGED <<inbox, nextd, pc, stop>> /\ spoilt \subseteq spoilt'
<1> USE DEF H!dec
<1>1. ASSUME NEW n, H!Send("none", n) \/ H!Send("fixed", n) \/ H!Send("stream", n) \/ H!PullChunk(n)
      PROVE  UNCHANGED <<inbox, nextd, pc, stop>> /\ spoilt \subseteq spoilt'
  BY <1>1 DEF H!Send, H!PullChunk
<1>2. CASE H!Flush \/ H!Close \/ H!Step \/ H!Fetch \/ H!PullEnd
  BY <1>2 DEF H!Flush, H!Close, H!Step, H!Fetch, H!PullEnd
<1>3. CASE H!BodyError \/ H!Write \/ H!Break \/ H!WriteFails \/ H!DropSend
  BY <1>3 DEF H!BodyError, H!Write, H!Break, H!WriteFails, H!DropSend
<1> QED BY <1>1, <1>2, <1>3 DEF H!Sender

\* Nor is what the decoder waits for.
LEMMA Untouched ==
  ASSUME Readers, UNCHANGED <<inbox, nextd, pc, stop>>, spoilt \subseteq spoilt'
  PROVE  Readers'
<1>1. DropsFills => DropsFills'
  BY DEF DropsFills
<1> QED BY <1>1 DEF Readers, ToldOf

(* The last body gets an end or goes on.                                     *)
LEMMA LastTold ==
  ASSUME Readers, inbox # <<>>, NEW end \in BodyEnds,
         H!Tells(end) \/ \E toks : H!Received(toks, end),
         \/ end \in {"done", "error"}
         \/ nextd'.k # "none"
         \/ inbox[Len(inbox)].f = "fixed" /\ DropsFills',
         nextd'.k = "none" \/ nextd' = nextd,
         pc' \in {"fill", "nextfill"} => nextd'.k # "none",
         pc' = "head" => nextd'.k = "none",
         stop' # "no" => nextd'.k = "none" /\ pc' = "idle",
         spoilt \subseteq spoilt'
  PROVE  Readers'
<1>1. /\ IsInbox(inbox') /\ Len(inbox') = Len(inbox) /\ inbox' # <<>>
      /\ DOMAIN inbox' = DOMAIN inbox /\ Len(inbox) \in DOMAIN inbox
      /\ inbox'[Len(inbox)].end = end /\ inbox'[Len(inbox)].f = inbox[Len(inbox)].f
      /\ \A i \in DOMAIN inbox : i # Len(inbox) => inbox'[i] = inbox[i]
  <2>1. IsInbox(inbox) /\ end \in BodyEnds
    BY DEF Readers
  <2> QED BY <2>1, LastChanges
<1>2. DropsFills => DropsFills'
  BY DEF DropsFills
<1>3. ASSUME NEW i \in DOMAIN inbox' PROVE ToldOf(i)'
  <2>1. CASE i = Len(inbox)
    BY <1>1, <2>1 DEF ToldOf
  <2>2. CASE i # Len(inbox)
    <3>1. ToldOf(i) /\ inbox'[i] = inbox[i]
      BY <1>1, <1>3, <2>2 DEF Readers
    <3> QED BY <1>2, <2>2, <3>1 DEF ToldOf
  <2> QED BY <2>1, <2>2
<1>4. nextd'.k = "fixed" => inbox'[Len(inbox')].f = "fixed"
  BY <1>1 DEF Readers
<1> QED BY <1>1, <1>3, <1>4 DEF Readers

\* fill_payload
LEMMA FillReaders ==
  ASSUME Readers, H!FillFixed \/ H!FillChunk \/ H!FillFails \/ H!DropFill
  PROVE  Readers'
<1>1. /\ nextd.k \in {"none", "fixed", "streamed"} /\ nextd.k # "none" /\ inbox # <<>>
      /\ stop = "no" /\ H!NoBody.k = "none"
      /\ nextd.k = "fixed" => inbox[Len(inbox)].f = "fixed"
  BY DEF Readers, H!Filling, H!FillFixed, H!FillChunk, H!FillFails, H!DropFill, H!NoBody
<1>2. CASE H!FillFixed
  <2>1. /\ \E toks : H!Received(toks, "done")
        /\ nextd' = H!NoBody /\ pc' \in {"idle", "head"} /\ UNCHANGED <<stop, spoilt>>
    BY <1>2 DEF H!FillFixed, H!AfterFill
  <2>2. "done" \in BodyEnds /\ nextd'.k = "none"
    BY <1>1, <2>1 DEF BodyEnds
  <2> QED BY <1>1, <2>1, <2>2, LastTold DEF BodyEnds
<1>3. CASE H!FillChunk
  <2>1. CASE len = 0
    <3>1. /\ H!Received(<<>>, "done")
          /\ nextd' = H!NoBody /\ pc' \in {"idle", "head"} /\ UNCHANGED <<stop, spoilt>>
      BY <1>3, <2>1 DEF H!FillChunk, H!AfterFill, H!Ended
    <3> QED BY <1>1, <3>1, LastTold DEF BodyEnds
  <2>2. CASE len # 0
    <3>1. /\ \E toks : H!Received(toks, "open")
          /\ UNCHANGED <<nextd, pc, stop, spoilt>> /\ pc # "head"
      BY <1>3, <2>2 DEF H!FillChunk, H!Filling
    <3>2. "open" \in BodyEnds
      BY DEF BodyEnds
    <3>3. nextd' = nextd /\ nextd'.k # "none" /\ stop' = "no" /\ pc' # "head" /\ spoilt \subseteq spoilt'
      BY <1>1, <3>1
    <3> QED BY <3>1, <3>2, <3>3, <1>1, LastTold
  <2> QED BY <2>1, <2>2
<1>4. CASE H!FillFails
  <2>1. /\ H!Tells("error") /\ nextd' = H!NoBody /\ pc' = "idle" /\ UNCHANGED spoilt
    BY <1>4 DEF H!FillFails
  <2>2. "error" \in BodyEnds /\ nextd'.k = "none"
    BY <1>1, <2>1 DEF BodyEnds
  <2> QED BY <1>1, <2>1, <2>2, LastTold DEF BodyEnds
<1>5. CASE H!DropFill
  <2>1. CASE nextd.k = "fixed"
    <3>1. \E end \in {"lost", "done"} : H!Tells(end)
      BY <1>5, <2>1 DEF H!DropFill
    <3>2. nextd' = H!NoBody /\ pc' = "idle" /\ stop' = stop /\ DropsFills' /\ spoilt \subseteq spoilt'
      BY <1>5, <2>1 DEF H!DropFill, DropsFills
    <3> QED BY <1>1, <2>1, <3>1, <3>2, LastTold DEF BodyEnds
  <2>2. CASE nextd.k # "fixed"
    <3>1. UNCHANGED <<inbox, nextd, stop, spoilt>> /\ pc' = "idle"
      BY <1>5, <2>2 DEF H!DropFill
    <3> QED BY <1>1, <3>1 DEF Readers, ToldOf, DropsFills
  <2> QED BY <2>1, <2>2
<1> QED BY <1>2, <1>3, <1>4, <1>5

\* A head that is decoded
LEMMA HeadReaders ==
  ASSUME Readers, H!RecvHead
  PROVE  Readers'
<1>1. /\ pc = "head" /\ nextd.k = "none" /\ stop = "no" /\ pc' = "idle" /\ spoilt' = spoilt
      /\ \A i \in DOMAIN inbox : inbox[i].end \in {"done", "error"} \/ (inbox[i].f = "fixed" /\ DropsFills)
  BY DEF H!RecvHead, Readers, ToldOf
<1>2. DropsFills' <=> DropsFills
  BY <1>1 DEF DropsFills
<1>3. CASE inbox' = inbox /\ nextd' = nextd
  BY <1>1, <1>2, <1>3 DEF Readers, ToldOf
<1>4. ASSUME NEW h, NEW x, x = [m |-> h.m, f |-> h.f, body |-> <<>>,
                                end |-> IF H!BodyOf(h) = H!NoBody THEN "done" ELSE "open"],
             inbox' = Append(inbox, x), nextd' = H!BodyOf(h), stop' = stop
      PROVE  Readers'
  <2>1. PICK M, F, B : inbox \in Seq([m : M, f : F, body : B, end : BodyEnds])
    BY DEF Readers, IsInbox
  <2> DEFINE S == [m : M, f : F, body : B, end : BodyEnds]
             T == [m : M \cup {h.m}, f : F \cup {h.f}, body : B \cup {<<>>}, end : BodyEnds]
             n == Len(inbox)
  <2>2. x \in T /\ S \subseteq T
    <3>1. S \subseteq T
      OBVIOUS
    <3> DEFINE e == IF H!BodyOf(h) = H!NoBody THEN "done" ELSE "open"
    <3>2. e \in BodyEnds
      <4>1. CASE H!BodyOf(h) = H!NoBody
        <5>1. e = "done" BY <4>1 DEF BodyEnds
        <5> QED BY <5>1 DEF BodyEnds
      <4>2. CASE H!BodyOf(h) # H!NoBody
        <5>1. e = "open" BY <4>2 DEF BodyEnds
        <5> QED BY <5>1 DEF BodyEnds
      <4> QED BY <4>1, <4>2
    <3> HIDE DEF e
    <3>3. x = [m |-> h.m, f |-> h.f, body |-> <<>>, end |-> e]
      BY <1>4 DEF e
    <3>4. x \in T
      BY <3>2, <3>3
    <3> QED BY <3>1, <3>4
  <2>3. inbox \in Seq(T)
    BY <2>1, <2>2, SeqWidens
  <2> HIDE DEF S, T
  <2>4. /\ inbox' \in Seq(T) /\ Len(inbox') = n + 1 /\ inbox'[n + 1] = x /\ n \in Nat
        /\ \A i \in 1..n : inbox'[i] = inbox[i]
    BY <1>4, <2>2, <2>3, AppendProperties
  <2>5. DOMAIN inbox = 1..n /\ DOMAIN inbox' = 1..(n + 1)
    BY <2>3, <2>4
  <2>6. IsInbox(inbox')
    BY <2>4 DEF IsInbox, T
  <2>7. /\ nextd'.k \in {"none", "fixed", "streamed"}
        /\ nextd'.k = "fixed" => h.f = "fixed"
        /\ nextd'.k = "none" => nextd' = H!NoBody
    BY <1>4 DEF H!BodyOf, H!NoBody
  <2>8. x.f = h.f /\ (nextd'.k = "none" => x.end = "done")
    BY <1>4, <2>7
  <2> HIDE DEF n
  <2>9. ASSUME NEW i \in DOMAIN inbox' PROVE ToldOf(i)'
    <3>1. CASE i = n + 1
      BY <2>4, <2>8, <3>1 DEF ToldOf
    <3>2. CASE i # n + 1
      <4>1. i \in DOMAIN inbox /\ inbox'[i] = inbox[i]
        BY <2>4, <2>5, <3>2
      <4> QED BY <1>1, <1>2, <4>1 DEF ToldOf
    <3> QED BY <3>1, <3>2
  <2>10. inbox' # <<>>
    BY <2>4
  <2> QED BY <1>1, <1>4, <2>4, <2>6, <2>7, <2>8, <2>9, <2>10 DEF Readers
<1>5. \/ inbox' = inbox /\ nextd' = nextd
      \/ /\ stop' = stop
         /\ \E h : /\ nextd' = H!BodyOf(h)
                   /\ inbox' = Append(inbox, [m |-> h.m, f |-> h.f, body |-> <<>>,
                                end |-> IF H!BodyOf(h) = H!NoBody THEN "done" ELSE "open"])
  BY DEF H!RecvHead
<1> QED BY <1>3, <1>4, <1>5

\* Every step of the receiver
LEMMA ReceiverReaders ==
  ASSUME Readers, H!Receiver
  PROVE  Readers'
<1>1. CASE H!Arrive \/ H!FillSize
  BY <1>1, Untouched DEF H!Arrive, H!FillSize
<1>2. CASE H!CallNext \/ H!CallFill
  BY <1>2 DEF H!CallNext, H!CallFill, H!ReadsNext, Readers, ToldOf, DropsFills
<1>3. CASE H!RecvEof \/ H!TimedOut
  BY <1>3 DEF H!RecvEof, H!TimedOut, Readers, ToldOf, DropsFills
<1> QED BY <1>1, <1>2, <1>3, FillReaders, HeadReaders DEF H!Receiver

\* payload.rs and decoder.rs: when the decoder has ended, every reader of a body has been
\* told so, but for a fixed body whose fill was dropped.
THEOREM ReadersAlwaysTold == SpecAll => []ReadersTold
<1>1. InitAll => Readers
  <2>1. ASSUME InitAll PROVE Readers
    <3>1. inbox = <<>> /\ nextd = H!NoBody /\ pc = "idle" /\ stop = "no"
      BY <2>1 DEF InitAll, H!Init
    <3>2. IsInbox(<<>>)
      BY DEF IsInbox
    <3> QED BY <3>1, <3>2 DEF Readers, H!NoBody
  <2> QED BY <2>1
<1>2. Readers /\ [NextAll]_<<part, pool, codec>> => Readers'
  <2> SUFFICES ASSUME Readers, [NextAll]_<<part, pool, codec>> PROVE Readers'
    OBVIOUS
  <2>1. CASE H!Next
    BY <2>1, SenderKeeps, Untouched, ReceiverReaders DEF H!Next
  <2>2. CASE UNCHANGED codec
    BY <2>2, Untouched DEF codec
  <2> QED BY <2>1, <2>2 DEF NextAll
<1>3. Readers => ReadersTold
  BY DEF Readers, ToldOf, DropsFills, ReadersTold, H!ReadersTold
<1> QED BY <1>1, <1>2, <1>3, PTL DEF SpecAll

=============================================================================
