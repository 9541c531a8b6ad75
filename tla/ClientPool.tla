----------------------------- MODULE ClientPool -----------------------------
(***************************************************************************)
(* monoio-http-client: Client::send_request over PooledConnector and       *)
(* ConnectionPool.  Requests are tasks of one thread that interleave at    *)
(* their awaits; each takes a connection from the pool or dials one, sends *)
(* over it, and its drop gives the connection back.  A request may be      *)
(* dropped by its caller at any await.                                     *)
(*                                                                         *)
(* The wire of an HTTP/1 connection is a queue of heads and bodies: what a *)
(* request leaves unread is found by the next one.  An HTTP/2 connection   *)
(* is shared by clones of its SendRequest; its answers find their request. *)
(***************************************************************************)
EXTENDS Naturals, Sequences, FiniteSets, SequencesExt

CONSTANTS
  Request,    \* the requests
  MaxConn,    \* bound on the connections dialled
  MaxCuts,    \* bound on the connections that break
  Dur,        \* idle_dur, and the interval of the IdleTask
  Scopes,     \* the servers, and what may go wrong: one of these is chosen at first
  None

ASSUME ClientPoolAssumption ==
  /\ MaxConn \in Nat /\ MaxCuts \in Nat /\ Dur \in Nat \ {0}
  /\ \A s \in Scopes :
       /\ \A k \in DOMAIN s.proto : s.proto[k] \in {"h1", "h2"}
       /\ s.idle \in Nat /\ s.time \in Nat
       /\ s.faults \subseteq {"cancel", "close", "dial", "cut", "retry"}

VARIABLES
  mapping,    \* mapping[k]: the idle connections of k, oldest first
  conns,      \* the connections dialled so far
  tasks,      \* tasks[r]: the PooledConnection of r and where r stands
  clock,      \* the time
  swept,      \* when the IdleTask last ran
  open,       \* FALSE when the last ConnectionPool was dropped
  scope       \* the scope of this behaviour

vars == <<mapping, conns, tasks, clock, swept, open, scope>>

\* Proto[k]: what HttpConnector makes for k; a Key is the host, the port and the version.
Proto == scope.proto
Key == DOMAIN Proto
MaxIdle == scope.idle   \* DEFAULT_KEEPALIVE_CONNS, whatever the builder was given
MaxTime == scope.time   \* bound on the clock
Faults == scope.faults

Conn == DOMAIN conns

NewConn(k) ==
  [key |-> k, up |-> TRUE, asked |-> <<>>, wire |-> <<>>,
   spoilers |-> {}, found_dead |-> FALSE]

Idle(c) == [conn |-> c, at |-> clock]

NewTask == [key |-> None, pc |-> "new", conn |-> 0, reusable |-> FALSE,
            remove_h2 |-> FALSE, close |-> FALSE, got |-> None, age |-> 0]

Holding == {"send", "head", "body"}

Init ==
  /\ scope \in Scopes
  /\ mapping = [k \in Key |-> <<>>] /\ conns = <<>>
  /\ tasks = [r \in Request |-> NewTask]
  /\ clock = 0 /\ swept = 0 /\ open = TRUE

TypeOK ==
  /\ \A k \in Key : \A i \in DOMAIN mapping[k] :
       mapping[k][i].conn \in Conn /\ mapping[k][i].at <= clock
  /\ \A r \in Request :
       /\ tasks[r].pc \in Holding \cup {"new", "dial", "ok", "err", "gone"}
       /\ tasks[r].pc \in Holding => tasks[r].conn \in Conn
  /\ \A k \in Key : \A i \in DOMAIN mapping[k] : conns[mapping[k][i].conn].key = k
  /\ ~open => \A k \in Key : mapping[k] = <<>>

-----------------------------------------------------------------------------
(* ConnectionPool *)

SharesAll(k) == TRUE

\* IdleConnection::reserve: what stays in the pool when a connection is taken.
Shares(k) == Proto[k] = "h2"

TakenAt(k) == IF Shares(k) THEN Append(Tail(mapping[k]), Idle(Head(mapping[k]).conn))
              ELSE Tail(mapping[k])

\* ConnectionPool::get
Get(r, k) ==
  /\ tasks[r].pc = "new" /\ open
  /\ IF mapping[k] = <<>>
     THEN /\ tasks' = [tasks EXCEPT ![r] = [NewTask EXCEPT !.key = k, !.pc = "dial"]]
          /\ UNCHANGED mapping
     ELSE LET idle == Head(mapping[k])
          IN  /\ mapping' = [mapping EXCEPT ![k] = TakenAt(k)]
              /\ tasks' = [tasks EXCEPT ![r] =
                   [NewTask EXCEPT !.key = k, !.pc = "send", !.conn = idle.conn,
                                   !.reusable = ~Shares(k), !.age = clock - idle.at]]
  /\ UNCHANGED <<conns, clock, swept, open, scope>>

\* PooledConnector::connect and ConnectionPool::link
Dial(r) ==
  /\ tasks[r].pc = "dial" /\ Len(conns) < MaxConn
  /\ conns' = Append(conns, NewConn(tasks[r].key))
  /\ tasks' = [tasks EXCEPT ![r].pc = "send", ![r].conn = Len(conns) + 1,
                            ![r].reusable = TRUE]
  /\ UNCHANGED <<mapping, clock, swept, open, scope>>

DialFails(r) ==
  /\ "dial" \in Faults
  /\ tasks[r].pc = "dial"
  /\ tasks' = [tasks EXCEPT ![r].pc = "err"]
  /\ UNCHANGED <<mapping, conns, clock, swept, open, scope>>

KeepsTheDead(t) == mapping[t.key]

\* What is left of the queue of t when an HTTP/2 connection is to be removed.
Kept(t) == IF t.remove_h2 THEN <<>> ELSE mapping[t.key]

Shortened(q) == IF Len(q) > MaxIdle THEN Tail(q) ELSE q

\* PooledConnection::drop
Returned(t) ==
  IF ~open \/ (~t.reusable /\ ~t.remove_h2) THEN mapping
  ELSE [mapping EXCEPT ![t.key] =
          IF t.reusable THEN Append(Shortened(Kept(t)), Idle(t.conn)) ELSE Kept(t)]

\* r ends, its PooledConnection is dropped.
Finish(r, t, pc) ==
  /\ mapping' = Returned(t)
  /\ tasks' = [tasks EXCEPT ![r] = [t EXCEPT !.pc = pc]]

\* A response that says "connection: close" is the last of its connection.
Answered(t) == [t EXCEPT !.reusable = @ /\ ~t.close]

-----------------------------------------------------------------------------
(* HttpConnection::send_request *)

C(r) == conns[tasks[r].conn]
IsH1(r) == Proto[tasks[r].key] = "h1"

Spoil(c, r) == [c EXCEPT !.spoilers = @ \cup {r}]
SetConn(r, c) == conns' = [conns EXCEPT ![tasks[r].conn] = c]

\* H1: the request is written; what is written to a dead peer may be lost or fail.
Send(r) ==
  /\ tasks[r].pc = "send" /\ IsH1(r)
  /\ SetConn(r, IF C(r).up THEN [C(r) EXCEPT !.asked = Append(@, r)] ELSE C(r))
  /\ tasks' = [tasks EXCEPT ![r].pc = "head"]
  /\ UNCHANGED <<mapping, clock, swept, open, scope>>

SendFails(r) ==
  /\ tasks[r].pc = "send" /\ IsH1(r) /\ ~C(r).up
  /\ Finish(r, tasks[r], "err")
  /\ SetConn(r, Spoil(C(r), r))
  /\ UNCHANGED <<clock, swept, open, scope>>

HasBody(part) == part # "none"

\* H1: the next thing on the wire is read as the head of the answer.
RecvHead(r) ==
  LET c == C(r)
      t == tasks[r]
      item == Head(c.wire)
  IN  /\ t.pc = "head" /\ IsH1(r) /\ c.wire # <<>>
      /\ IF item.part = "body"
         THEN Finish(r, t, "err") /\ SetConn(r, Spoil([c EXCEPT !.wire = Tail(@)], r))
         ELSE LET u == [t EXCEPT !.got = item.req, !.close = item.close]
              IN  /\ SetConn(r, [c EXCEPT !.wire = Tail(@)])
                  /\ IF HasBody(item.body)
                     THEN /\ tasks' = [tasks EXCEPT ![r] = [u EXCEPT !.pc = "body"]]
                          /\ UNCHANGED mapping
                     ELSE Finish(r, Answered(u), "ok")
      /\ UNCHANGED <<clock, swept, open, scope>>

RecvBody(r) ==
  /\ tasks[r].pc = "body" /\ IsH1(r) /\ C(r).wire # <<>>
  /\ SetConn(r, [C(r) EXCEPT !.wire = Tail(@)])
  /\ Finish(r, Answered(tasks[r]), "ok")
  /\ UNCHANGED <<clock, swept, open, scope>>

\* H1: the peer is gone.  A fixed body that is cut short is an Ok with an error in it.
RecvEof(r) ==
  LET t == tasks[r]
  IN  /\ t.pc \in {"head", "body"} /\ IsH1(r) /\ C(r).wire = <<>> /\ ~C(r).up
      /\ \/ Finish(r, t, "err")
         \/ t.pc = "body" /\ Finish(r, Answered(t), "ok")
      /\ SetConn(r, Spoil(C(r), r))
      /\ UNCHANGED <<clock, swept, open, scope>>

\* H2: ready() fails on a connection that is gone.
Ready(r) ==
  /\ tasks[r].pc = "send" /\ ~IsH1(r)
  /\ IF C(r).up
     THEN /\ SetConn(r, [C(r) EXCEPT !.asked = Append(@, r)])
          /\ tasks' = [tasks EXCEPT ![r].pc = "head"]
          /\ UNCHANGED mapping
     ELSE /\ SetConn(r, [C(r) EXCEPT !.found_dead = ~tasks[r].reusable])
          /\ Finish(r, [tasks[r] EXCEPT !.remove_h2 = TRUE], "err")
  /\ UNCHANGED <<clock, swept, open, scope>>

\* H2: the answer of r, or the end of the connection before it.
RecvResponse(r) ==
  /\ tasks[r].pc = "head" /\ ~IsH1(r)
  /\ \/ /\ \E i \in DOMAIN C(r).wire :
             C(r).wire[i].req = r /\ SetConn(r, [C(r) EXCEPT !.wire = RemoveAt(@, i)])
        /\ Finish(r, [tasks[r] EXCEPT !.got = r], "ok")
     \/ /\ ~C(r).up
        /\ Finish(r, tasks[r], "err")
        /\ UNCHANGED conns
  /\ UNCHANGED <<clock, swept, open, scope>>

\* The caller drops the future.
Cancel(r) ==
  /\ "cancel" \in Faults
  /\ tasks[r].pc \in Holding \cup {"dial"}
  /\ IF tasks[r].pc = "dial"
     THEN tasks' = [tasks EXCEPT ![r].pc = "gone"] /\ UNCHANGED <<mapping, conns>>
     ELSE /\ Finish(r, tasks[r], "gone")
          /\ SetConn(r, IF tasks[r].pc = "send" THEN C(r) ELSE Spoil(C(r), r))
  /\ UNCHANGED <<clock, swept, open, scope>>

\* The caller tries again.
Retry(r) ==
  /\ "retry" \in Faults
  /\ tasks[r].pc = "err"
  /\ tasks' = [tasks EXCEPT ![r] = NewTask]
  /\ UNCHANGED <<mapping, conns, clock, swept, open, scope>>

-----------------------------------------------------------------------------
(* The servers, the clock, the IdleTask *)

Parts(q, body, close) ==
  <<[req |-> q, part |-> "head", body |-> body, close |-> close]>>
    \o IF body = "none" THEN <<>>
       ELSE <<[req |-> q, part |-> "body", body |-> body, close |-> close]>>

\* A server answers an HTTP/1 connection in order, and is gone if it said "close".
Answer(c) ==
  /\ conns[c].up /\ conns[c].asked # <<>> /\ Proto[conns[c].key] = "h1"
  /\ \E body \in {"none", "some"}, close \in BOOLEAN :
       /\ close => "close" \in Faults
       /\ conns' = [conns EXCEPT ![c] =
            [conns[c] EXCEPT !.asked = Tail(@), !.up = ~close,
                             !.wire = @ \o Parts(Head(conns[c].asked), body, close)]]
  /\ UNCHANGED <<mapping, tasks, clock, swept, open, scope>>

AnswerH2(c) ==
  /\ conns[c].up /\ Proto[conns[c].key] = "h2"
  /\ \E i \in DOMAIN conns[c].asked :
       conns' = [conns EXCEPT ![c] =
         [conns[c] EXCEPT !.asked = RemoveAt(@, i),
                          !.wire = Append(@, [req |-> conns[c].asked[i], part |-> "head",
                                              body |-> "none", close |-> FALSE])]]
  /\ UNCHANGED <<mapping, tasks, clock, swept, open, scope>>

\* A server closes, or the connection breaks; MaxCuts bounds how often.
Cut(c) ==
  /\ "cut" \in Faults /\ conns[c].up
  /\ Cardinality({d \in Conn : ~conns[d].up}) < MaxCuts
  /\ conns' = [conns EXCEPT ![c].up = FALSE, ![c].asked = <<>>]
  /\ UNCHANGED <<mapping, tasks, clock, swept, open, scope>>

Tick ==
  /\ clock < MaxTime /\ (open => clock < swept + Dur)
  /\ clock' = clock + 1
  /\ UNCHANGED <<mapping, conns, tasks, swept, open, scope>>

Fresh(at) == clock - at <= Dur

\* IdleTask: clear_expired, retain (SelectSeq, in a form that proofs can unfold).
Unexpired(q) ==
  LET kept[i \in 0..Len(q)] ==
        IF i = 0 THEN <<>>
        ELSE IF Fresh(q[i].at) THEN Append(kept[i - 1], q[i]) ELSE kept[i - 1]
  IN  kept[Len(q)]

\* IdleTask, once per interval.
Sweep ==
  /\ open /\ clock = swept + Dur
  /\ mapping' = [k \in Key |-> Unexpired(mapping[k])]
  /\ swept' = clock
  /\ UNCHANGED <<conns, tasks, clock, open, scope>>

\* The last clone of the client is dropped, the pool with it.
DropPool ==
  /\ open /\ \A r \in Request : tasks[r].pc \notin {"new", "dial"}
  /\ open' = FALSE
  /\ mapping' = [k \in Key |-> <<>>]
  /\ UNCHANGED <<conns, tasks, clock, swept, scope>>

Run(r) ==
  \/ \E k \in Key : Get(r, k)
  \/ Dial(r) \/ DialFails(r)
  \/ Send(r) \/ SendFails(r) \/ RecvHead(r) \/ RecvBody(r) \/ RecvEof(r)
  \/ Ready(r) \/ RecvResponse(r)

Serve(c) == Answer(c) \/ AnswerH2(c)

Next ==
  \/ \E r \in Request : Run(r) \/ Cancel(r) \/ Retry(r)
  \/ \E c \in Conn : Serve(c) \/ Cut(c)
  \/ Tick \/ Sweep \/ DropPool

Spec == Init /\ [][Next]_vars

\* The executor polls every request, callers try again, servers answer.
FairSpec ==
  /\ Spec
  /\ \A r \in Request : WF_vars(Run(r)) /\ WF_vars(Retry(r))
  /\ \A c \in 1..MaxConn : WF_vars(c \in Conn /\ Serve(c))

-----------------------------------------------------------------------------
Owners(c) ==
  Cardinality({r \in Request : tasks[r].pc \in Holding /\ tasks[r].conn = c})
  + Cardinality({p \in Key \X (1..MaxConn) :
                   p[2] \in DOMAIN mapping[p[1]] /\ mapping[p[1]][p[2]].conn = c})

\* An HTTP/1 connection is used by one request or waits in the pool, never both and
\* never twice.
Exclusive == \A c \in Conn : Proto[conns[c].key] = "h1" => Owners(c) <= 1

\* The answer of another request is only ever found on a connection that some
\* request left before its answer was read.
ResponseMatches ==
  \A r \in Request :
    tasks[r].pc = "ok" /\ tasks[r].got # r => conns[tasks[r].conn].spoilers \ {r} # {}

\* A request fails only when its server is gone or an earlier request has left
\* something behind.
FailsForAReason ==
  \A r \in Request :
    tasks[r].pc = "err" /\ tasks[r].conn # 0 =>
      ~conns[tasks[r].conn].up \/ conns[tasks[r].conn].spoilers \ {r} # {}

\* The pool keeps at most one connection more than max_idle for a key.
IdleBounded == \A k \in Key : Len(mapping[k]) <= MaxIdle + 1

\* A connection that is handed out has been idle for at most two intervals.
FreshEnough == \A r \in Request : tasks[r].age <= 2 * Dur

InPool(c) == \E k \in Key : \E i \in DOMAIN mapping[k] : mapping[k][i].conn = c

\* An HTTP/2 connection from the pool that a request finds dead is not offered again.
FoundDeadIsRemoved == \A c \in Conn : conns[c].found_dead => ~InPool(c)

\* ClientGlobalConfig: max_idle_connections applies to all connections of the client.
\* Configured is what the builder was given.
Configured == 1
IdleWithinConfigured == \A k \in Key : Len(mapping[k]) <= Configured
=============================================================================
