---------------------------- MODULE H2Connection ----------------------------
(***************************************************************************)
(* h2::proto::connection with settings, ping_pong and go_away, at both     *)
(* ends: a client and a server that run this code, joined by two wires     *)
(* that keep the order of frames.                                          *)
(*                                                                         *)
(* A poll of an end goes through the steps of Connection::poll, in their   *)
(* order; in every step the codec may have no room and the poll ends       *)
(* Pending.  Streams are what the control of the connection sees of them:  *)
(* a request opens one with a single frame, a response ends it (H2Recv and *)
(* H2Send have what happens inside).  A frame has the size of the window   *)
(* its sender believes the stream to have.                                 *)
(***************************************************************************)
EXTENDS Naturals, Sequences, FiniteSets

CONSTANTS
  MaxId,      \* bound on the requests
  Default,    \* the initial window before any SETTINGS
  First,      \* First[e]: the initial window in the first SETTINGS of end e
  Scopes,     \* what may happen, and how often: one of these is chosen at first
  None

End == {"client", "server"}
Other(e) == IF e = "client" THEN "server" ELSE "client"

Id == 1..MaxId
MaxStreamId == MaxId + 1

Reason == {"NO_ERROR", "PROTOCOL_ERROR", "FLOW_CONTROL_ERROR"}
GoAway == [last : Nat, reason : Reason]
Outcome == {"ok", "ours", "theirs", "io"}

(* A scope bounds a behaviour: requests, frames the codec takes before it    *)
(* must flush, the windows an end may ask for later and how often, what may  *)
(* go wrong, and the PINGs of users.                                         *)
ASSUME H2ConnectionAssumption ==
  /\ MaxId \in Nat /\ Default \in Nat /\ First \in [End -> Nat]
  /\ None \notin Nat /\ None \notin GoAway /\ None \notin [sent : BOOLEAN]
  /\ None \notin Outcome
  /\ \A s \in Scopes :
       /\ s.requests \in 0..MaxId /\ s.room \in Nat \ {0}
       /\ s.windows \subseteq Nat /\ s.changes \in Nat /\ s.pings \in Nat
       /\ s.pinger \subseteq End
       /\ s.faults \subseteq {"frame", "apply", "io", "abrupt"}

VARIABLES
  con,        \* con[e]: state, error, settings, ping_pong and go_away of end e
  pc,         \* where the poll of e stands, "parked" between two polls
  woken,      \* the ends whose task was woken
  queue,      \* queue[e]: frames of streams that wait to be sent
  out,        \* out[e]: frames in the codec
  wire,       \* wire[e]: frames on their way from e
  streams,    \* streams[e]: the streams e counts as open
  ids,        \* last_processed_id and max_stream_id of the server's receive
              \* side, next_stream_id and max_stream_id of the client's send side
  window,     \* window[e]: how much e accepts, and how much it sends
  result,     \* result[e]: what the connection future returned
  history     \* the scope; what was processed, answered, aborted; counts

vars == <<con, pc, woken, queue, out, wire, streams, ids, window, result, history>>

Room == history.scope.room
Faults == history.scope.faults

\* A poll reads what is on the wire at each of its steps; steps of the other end
\* that do not write are the same before and after it.
Quiet(e) == pc[Other(e)] \in {"parked", "go_away", "closing", "done"}
At(e, p) == pc[e] = p /\ Quiet(e)

Frame(type, arg) == [type |-> type, arg |-> arg]

Shutdown == "shutdown"
User == "user"

NewCon(e, scope) ==
  [state |-> "Open", why |-> <<"NO_ERROR", "Library">>, error |-> None,
   local |-> <<"WaitingAck", First[e]>>, remote |-> None,
   pending_pong |-> None, pending_ping |-> None,
   user |-> IF e \in scope.pinger THEN "empty" ELSE None,
   ping_task |-> FALSE,
   close_now |-> FALSE, going_away |-> None, is_user |-> FALSE, pending |-> None,
   handles |-> e = "client"]

\* Connection::new, after the handshake has put the first SETTINGS into the codec.
Init ==
  /\ \E scope \in Scopes :
       /\ con = [e \in End |-> NewCon(e, scope)]
       /\ history = [scope |-> scope, processed |-> {}, answered |-> {}, aborted |-> {},
                     acks |-> [e \in End |-> 0], received |-> [e \in End |-> 0],
                     changes |-> 0, pings |-> 0]
  /\ pc = [e \in End |-> "parked"] /\ woken = End
  /\ queue = [e \in End |-> <<>>] /\ wire = [e \in End |-> <<>>]
  /\ out = [e \in End |-> <<Frame("settings", First[e])>>]
  /\ streams = [e \in End |-> {}]
  /\ ids = [last_processed |-> 0, recv_max |-> MaxStreamId,
            next |-> 1, send_max |-> MaxStreamId]
  /\ window = [e \in End |-> [accepts |-> First[e], sends |-> Default]]
  /\ result = [e \in End |-> None]

TypeOK ==
  /\ \A e \in End :
       /\ con[e].state \in {"Open", "Closing", "Closed"}
       /\ con[e].local[1] \in {"ToSend", "WaitingAck", "Synced"}
       /\ con[e].remote \in Nat \cup {None}
       /\ con[e].user \in {None, "empty", "pending_ping", "pending_pong",
                           "received_pong", "closed"}
       /\ pc[e] \in {"parked", "go_away", "pong", "ping", "ack", "settings", "recv",
                     "complete", "closing", "done"}
       /\ Len(out[e]) <= Room
       /\ streams[e] \subseteq Id
       /\ result[e] \in Outcome \cup {None}
       /\ (result[e] # None) = (pc[e] = "done")
  /\ woken \subseteq End

-----------------------------------------------------------------------------
(* go_away *)

GoAwayFrame(last, reason) == [last |-> last, reason |-> reason]

\* GoAway::go_away
SetGoAway(c, f) == [c EXCEPT !.going_away = f, !.pending = f]

\* GoAway::go_away_now, which does not send the same GOAWAY twice.
GoAwayNow(c, f) ==
  IF c.going_away = f THEN [c EXCEPT !.close_now = TRUE]
  ELSE SetGoAway([c EXCEPT !.close_now = TRUE], f)

ClosesForTheUser(c) == c.pending = None /\ c.close_now /\ c.is_user

ShouldCloseNow(c) == c.pending = None /\ c.close_now

ShouldCloseOnIdle(c) ==
  ~c.close_now /\ c.going_away # None /\ c.going_away.last # MaxStreamId

\* Recv::last_processed_id; a client processes nothing without push.
LastProcessed(e) == IF e = "server" THEN ids.last_processed ELSE 0

Parks(e) == pc' = [pc EXCEPT ![e] = "parked"]

Goes(e, to) == pc' = [pc EXCEPT ![e] = to]

HasRoom(e) == Len(out[e]) < Room

Buffer(e, f) == out' = [out EXCEPT ![e] = Append(@, f)]

\* dst.poll_ready: the codec has no room.
Blocked(e) ==
  /\ ~HasRoom(e)
  /\ Parks(e)
  /\ UNCHANGED <<con, woken, queue, out, wire, streams, ids, window, result, history>>

\* The frames of q that are not of a stream in gone (SelectSeq, in a form that
\* proofs can unfold).
Without(q, gone) ==
  LET kept[i \in 0..Len(q)] ==
        IF i = 0 THEN <<>>
        ELSE IF q[i].arg[1] \in gone THEN kept[i - 1] ELSE Append(kept[i - 1], q[i])
  IN  kept[Len(q)]

\* Streams::handle_error: every stream ends, what it has queued is dropped.
AbortStreams(e, gone) ==
  /\ streams' = [streams EXCEPT ![e] = @ \ gone]
  /\ queue' = [queue EXCEPT ![e] = Without(@, gone)]

\* handle_poll2_result of a connection error.
ConnectionError(e, c, reason, initiator) ==
  IF c.going_away # None /\ c.going_away.reason = reason
  THEN /\ con' = [con EXCEPT ![e] = [c EXCEPT !.state = "Closing", !.why = <<reason, initiator>>]]
       /\ Goes(e, "closing")
       /\ UNCHANGED <<queue, streams>>
  ELSE /\ con' = [con EXCEPT ![e] = GoAwayNow(c, GoAwayFrame(LastProcessed(e), reason))]
       /\ Goes(e, "go_away")
       /\ AbortStreams(e, Id)

\* poll2 returned Ok.
Finished(e, c) ==
  /\ con' = [con EXCEPT ![e] = [c EXCEPT !.state = "Closing", !.why = <<"NO_ERROR", "Library">>]]
  /\ Goes(e, "closing")
  /\ UNCHANGED <<queue, streams>>

\* poll_go_away of poll2.
PollGoAway(e) ==
  /\ At(e, "go_away")
  /\ \/ con[e].pending # None /\ Blocked(e)
     \/ LET c == [con[e] EXCEPT !.pending = None]
        IN  /\ con[e].pending # None => HasRoom(e)
            /\ out' = IF con[e].pending = None THEN out
                      ELSE [out EXCEPT ![e] = Append(@, Frame("go_away", con[e].pending))]
            /\ IF ~ShouldCloseNow(c)
               THEN /\ con' = [con EXCEPT ![e] = c] /\ Goes(e, "pong")
                    /\ UNCHANGED <<queue, streams>>
               ELSE IF c.is_user THEN Finished(e, c)
               ELSE ConnectionError(e, c, c.going_away.reason, "Library")
            /\ UNCHANGED <<woken, wire, ids, window, result, history>>

-----------------------------------------------------------------------------
(* poll_ready *)

Unchanged == UNCHANGED <<woken, queue, wire, streams, ids, result>>

SendPong(e) ==
  /\ At(e, "pong")
  /\ \/ con[e].pending_pong # None /\ Blocked(e)
     \/ /\ con[e].pending_pong # None => HasRoom(e)
        /\ out' = IF con[e].pending_pong = None THEN out
                  ELSE [out EXCEPT ![e] = Append(@, Frame("pong", con[e].pending_pong))]
        /\ con' = [con EXCEPT ![e].pending_pong = None]
        /\ Goes(e, "ping")
        /\ Unchanged /\ UNCHANGED <<window, history>>

RegistersOnce(c) == c.pending_ping = None /\ c.user = "received_pong"

\* The task is registered while there is no ping to send.
Registers(c) == c.pending_ping = None /\ c.user # None /\ c.user # "pending_ping"

PingToSend(c) ==
  IF c.pending_ping # None THEN ~c.pending_ping.sent ELSE c.user = "pending_ping"

SendPing(e) ==
  LET c == con[e]
  IN  /\ At(e, "ping")
      /\ \/ PingToSend(c) /\ Blocked(e)
         \/ /\ PingToSend(c) => HasRoom(e)
            /\ out' = IF ~PingToSend(c) THEN out
                      ELSE [out EXCEPT ![e] = Append(@, Frame("ping",
                              IF c.pending_ping # None THEN Shutdown ELSE User))]
            /\ con' = [con EXCEPT ![e] =
                 IF c.pending_ping # None THEN [c EXCEPT !.pending_ping.sent = TRUE]
                 ELSE [c EXCEPT !.user = IF @ = "pending_ping" THEN "pending_pong" ELSE @,
                                !.ping_task = @ \/ Registers(c)]]
            /\ Goes(e, "ack")
            /\ Unchanged /\ UNCHANGED <<window, history>>

\* Settings::poll_send, the part that answers: the ACK goes into the codec before
\* the settings are applied, which may fail.
SendAck(e) ==
  LET c == con[e]
  IN  /\ At(e, "ack")
      /\ \/ c.remote # None /\ Blocked(e)
         \/ /\ c.remote = None
            /\ Goes(e, "settings")
            /\ Unchanged /\ UNCHANGED <<con, out, window, history>>
         \/ /\ c.remote # None /\ HasRoom(e)
            /\ Buffer(e, Frame("ack", None))
            /\ window' = [window EXCEPT ![e].sends = c.remote]
            /\ con' = [con EXCEPT ![e].remote = None]
            /\ history' = [history EXCEPT !.acks[e] = @ + 1]
            /\ Goes(e, "settings")
            /\ Unchanged

\* apply_remote_settings fails behind the ACK; remote stays.
FailAck(e) ==
  /\ "apply" \in Faults
  /\ At(e, "ack") /\ con[e].remote # None /\ HasRoom(e)
  /\ Buffer(e, Frame("ack", None))
  /\ ConnectionError(e, con[e], "FLOW_CONTROL_ERROR", "Library")
  /\ history' = [history EXCEPT !.acks[e] = @ + 1]
  /\ UNCHANGED <<woken, wire, ids, window, result>>

\* Settings::poll_send, the part that asks.
SendSettings(e) ==
  LET c == con[e]
  IN  /\ At(e, "settings")
      /\ \/ c.local[1] = "ToSend" /\ Blocked(e)
         \/ /\ c.local[1] # "ToSend"
            /\ Goes(e, "recv")
            /\ Unchanged /\ UNCHANGED <<con, out, window, history>>
         \/ /\ c.local[1] = "ToSend" /\ HasRoom(e)
            /\ Buffer(e, Frame("settings", c.local[2]))
            /\ con' = [con EXCEPT ![e].local[1] = "WaitingAck"]
            /\ Goes(e, "recv")
            /\ Unchanged /\ UNCHANGED <<window, history>>

-----------------------------------------------------------------------------
(* recv_frame *)

\* e reads the next frame of type t.
Reads(e, t) ==
  /\ At(e, "recv") /\ wire[Other(e)] # <<>>
  /\ Head(wire[Other(e)]).type = t
  /\ wire' = [wire EXCEPT ![Other(e)] = Tail(@)]

Arg(e) == Head(wire[Other(e)]).arg

\* The codec refuses a frame, or the peer broke a rule.
Refuses(e, reason) ==
  /\ ConnectionError(e, con[e], reason, "Library")
  /\ UNCHANGED <<woken, out, ids, window, result, history>>

RecvBadFrame(e) ==
  /\ "frame" \in Faults
  /\ \E t \in {"headers", "end", "ack", "settings"} : Reads(e, t)
  /\ Refuses(e, "PROTOCOL_ERROR")

IgnoresNothing(id) == FALSE

Ignores(id) == id > ids.recv_max

RecvHeaders ==
  LET id == Arg("server")[1]
  IN  /\ Reads("server", "headers")
      /\ IF Ignores(id)
         THEN /\ Goes("server", "go_away")
              /\ UNCHANGED <<con, woken, queue, out, streams, ids, window, result, history>>
         ELSE IF Arg("server")[2] > window["server"].accepts
         THEN Refuses("server", "FLOW_CONTROL_ERROR")
         ELSE /\ ids' = [ids EXCEPT !.last_processed = id]
              /\ streams' = [streams EXCEPT !["server"] = @ \cup {id}]
              /\ history' = [history EXCEPT !.processed = @ \cup {id}]
              /\ Goes("server", "go_away")
              /\ UNCHANGED <<con, woken, queue, out, window, result>>

\* A frame of a stream that is closed is ignored.
RecvEnd ==
  LET id == Arg("client")[1]
  IN  /\ Reads("client", "end")
      /\ IF id \in streams["client"] /\ Arg("client")[2] > window["client"].accepts
         THEN Refuses("client", "FLOW_CONTROL_ERROR")
         ELSE /\ streams' = [streams EXCEPT !["client"] = @ \ {id}]
              /\ history' = [history EXCEPT !.answered = @ \cup ({id} \cap streams["client"])]
              /\ Goes("client", "go_away")
              /\ UNCHANGED <<con, woken, queue, out, ids, window, result>>

\* recv_settings
RecvSettings(e) ==
  /\ Reads(e, "settings")
  /\ con' = [con EXCEPT ![e].remote = Arg(e)]
  /\ history' = [history EXCEPT !.received[e] = @ + 1]
  /\ Goes(e, "go_away")
  /\ UNCHANGED <<woken, queue, out, streams, ids, window, result>>

RecvAck(e) ==
  /\ Reads(e, "ack")
  /\ IF con[e].local[1] # "WaitingAck"
     THEN Refuses(e, "PROTOCOL_ERROR")
     ELSE /\ window' = [window EXCEPT ![e].accepts = con[e].local[2]]
          /\ con' = [con EXCEPT ![e].local = <<"Synced", None>>]
          /\ Goes(e, "go_away")
          /\ UNCHANGED <<woken, queue, out, streams, ids, result, history>>

\* recv_ping of a PING.
RecvPing(e) ==
  /\ Reads(e, "ping")
  /\ con' = [con EXCEPT ![e].pending_pong = Arg(e)]
  /\ Goes(e, "go_away")
  /\ UNCHANGED <<woken, queue, out, streams, ids, window, result, history>>

\* recv_ping of an answer.  The answer to the PING of the graceful shutdown brings
\* the last GOAWAY.
RecvPong(e) ==
  LET c == con[e]
  IN  /\ Reads(e, "pong")
      /\ Goes(e, "go_away")
      /\ IF c.pending_ping # None /\ Arg(e) = Shutdown
         THEN /\ con' = [con EXCEPT ![e] =
                   SetGoAway([c EXCEPT !.pending_ping = None],
                             GoAwayFrame(LastProcessed(e), "NO_ERROR"))]
              /\ ids' = IF e = "server" THEN [ids EXCEPT !.recv_max = LastProcessed(e)] ELSE ids
         ELSE /\ con' = [con EXCEPT ![e].user = IF @ = "pending_pong" THEN "received_pong" ELSE @]
              /\ UNCHANGED ids
      /\ UNCHANGED <<woken, queue, out, streams, window, result, history>>

\* The streams that a GOAWAY ends, whoever opened them.
Above(last) == {id \in Id : id > last}

RecvGoAway(e) ==
  LET f == Arg(e)
  IN  /\ Reads(e, "go_away")
      /\ IF e = "client" /\ f.last > ids.send_max
         THEN Refuses(e, "PROTOCOL_ERROR")
         ELSE /\ ids' = IF e = "client" THEN [ids EXCEPT !.send_max = f.last] ELSE ids
              /\ AbortStreams(e, Above(f.last))
              /\ history' = [history EXCEPT !.aborted =
                   IF e = "client" THEN @ \cup (Above(f.last) \cap streams[e]) ELSE @]
              /\ con' = [con EXCEPT ![e].error = f]
              /\ Goes(e, "go_away")
              /\ UNCHANGED <<woken, out, window, result>>

\* The other end is gone and everything it sent was read: recv_eof.
RecvEof(e) ==
  /\ At(e, "recv") /\ wire[Other(e)] = <<>> /\ pc[Other(e)] = "done"
  /\ con' = [con EXCEPT ![e].state = "Closing", ![e].why = <<"NO_ERROR", "Library">>]
  /\ Goes(e, "closing")
  /\ AbortStreams(e, Id)
  /\ UNCHANGED <<woken, out, wire, ids, window, result, history>>

NoFrame(e) ==
  /\ At(e, "recv") /\ wire[Other(e)] = <<>> /\ pc[Other(e)] # "done"
  /\ Goes(e, "complete")
  /\ UNCHANGED <<con, woken, queue, out, wire, streams, ids, window, result, history>>

-----------------------------------------------------------------------------
(* The end of a poll *)

\* poll_complete: the frames of streams go into the codec while it has room.
Complete(e) ==
  /\ At(e, "complete") /\ queue[e] # <<>> /\ HasRoom(e)
  /\ Buffer(e, Frame(Head(queue[e]).type, <<Head(queue[e]).arg[1], window[e].sends>>))
  /\ queue' = [queue EXCEPT ![e] = Tail(@)]
  /\ UNCHANGED <<con, pc, woken, wire, streams, ids, window, result, history>>

\* The codec could not be flushed.
Flushing(e) ==
  /\ At(e, "complete") /\ out[e] # <<>>
  /\ queue[e] # <<>> => ~HasRoom(e)
  /\ Parks(e)
  /\ UNCHANGED <<con, woken, queue, out, wire, streams, ids, window, result, history>>

IdleIfBothSaySo(e) ==
  con[e].error # None /\ ShouldCloseOnIdle(con[e]) /\ streams[e] = {}

Idle(e) ==
  /\ con[e].error # None \/ ShouldCloseOnIdle(con[e])
  /\ streams[e] = {}

\* Everything is flushed: the connection closes if it is idle, or the poll ends.
Park(e) ==
  /\ At(e, "complete") /\ queue[e] = <<>> /\ out[e] = <<>>
  /\ IF Idle(e)
     THEN /\ con' = [con EXCEPT ![e] = GoAwayNow(@, GoAwayFrame(LastProcessed(e), "NO_ERROR"))]
          /\ Goes(e, "go_away")
     ELSE Parks(e) /\ UNCHANGED con
  /\ UNCHANGED <<woken, queue, out, wire, streams, ids, window, result, history>>

\* take_error: the error of the other end is what the user is told.
TakeError(c) ==
  IF c.error # None /\ c.error.reason # "NO_ERROR" THEN "theirs"
  ELSE IF c.why[1] = "NO_ERROR" THEN "ok" ELSE "ours"

\* The future has returned; its connection is dropped, with it the PING handle.
Ends(e, r) ==
  /\ result' = [result EXCEPT ![e] = r]
  /\ Goes(e, "done")

Dropped(c) == [c EXCEPT !.state = "Closed",
                        !.user = IF @ = None THEN None ELSE "closed"]

\* Closing: the codec is flushed and shut down.
Close(e) ==
  /\ At(e, "closing") /\ out[e] = <<>>
  /\ con' = [con EXCEPT ![e] = Dropped(@)]
  /\ Ends(e, TakeError(con[e]))
  /\ AbortStreams(e, Id)
  /\ UNCHANGED <<woken, out, wire, ids, window, history>>

IoError(e) ==
  /\ "io" \in Faults
  /\ Quiet(e) /\ pc[e] \notin {"parked", "done"}
  /\ con' = [con EXCEPT ![e] = Dropped(@)]
  /\ Ends(e, "io")
  /\ AbortStreams(e, Id)
  /\ out' = [out EXCEPT ![e] = <<>>]
  /\ UNCHANGED <<woken, wire, ids, window, history>>

\* The transport takes a frame; nobody reads it when the other end is gone.
Write(e) ==
  /\ out[e] # <<>>
  /\ out' = [out EXCEPT ![e] = Tail(@)]
  /\ wire' = IF pc[Other(e)] = "done" THEN wire ELSE [wire EXCEPT ![e] = Append(@, Head(out[e]))]
  /\ woken' = IF pc[e] = "parked" THEN woken \cup {e} ELSE woken
  /\ UNCHANGED <<con, pc, queue, streams, ids, window, result, history>>

\* A poll begins: the task was woken, or there is something to read.
BeginPoll(e) ==
  /\ At(e, "parked")
  /\ e \in woken \/ wire[Other(e)] # <<>> \/ pc[Other(e)] = "done"
  /\ woken' = woken \ {e}
  /\ con' = IF e = "client" /\ streams[e] = {} /\ ~con[e].handles
            THEN [con EXCEPT ![e] = GoAwayNow(@, GoAwayFrame(LastProcessed(e), "NO_ERROR"))]
            ELSE con
  /\ Goes(e, "go_away")
  /\ UNCHANGED <<queue, out, wire, streams, ids, window, result, history>>

-----------------------------------------------------------------------------
(* The users *)

\* SendRequest::send_request; there is no new stream after a GOAWAY.
SendRequest ==
  LET c == con["client"]
  IN  /\ pc["client"] = "parked" /\ c.handles
      /\ c.error = None /\ c.going_away = None
      /\ ids.next <= history.scope.requests
      /\ streams' = [streams EXCEPT !["client"] = @ \cup {ids.next}]
      /\ queue' = [queue EXCEPT !["client"] = Append(@, Frame("headers", <<ids.next, 0>>))]
      /\ ids' = [ids EXCEPT !.next = @ + 1]
      /\ woken' = woken \cup {"client"}
      /\ UNCHANGED <<con, pc, out, wire, window, result, history>>

\* The last SendRequest is dropped.
DropHandles ==
  /\ pc["client"] = "parked" /\ con["client"].handles
  /\ con' = [con EXCEPT !["client"].handles = FALSE]
  /\ woken' = woken \cup {"client"}
  /\ UNCHANGED <<pc, queue, out, wire, streams, ids, window, result, history>>

Respond(id) ==
  /\ pc["server"] = "parked" /\ id \in streams["server"]
  /\ streams' = [streams EXCEPT !["server"] = @ \ {id}]
  /\ queue' = [queue EXCEPT !["server"] = Append(@, Frame("end", <<id, 0>>))]
  /\ woken' = woken \cup {"server"}
  /\ UNCHANGED <<con, pc, out, wire, ids, window, result, history>>

MayAlwaysShutDown(c) == TRUE

MayShutDown(c) == c.going_away = None

\* go_away_gracefully
GracefulShutdown ==
  LET c == con["server"]
  IN  /\ pc["server"] = "parked" /\ MayShutDown(c)
      /\ con' = [con EXCEPT !["server"] =
                   [SetGoAway(c, GoAwayFrame(MaxStreamId, "NO_ERROR"))
                      EXCEPT !.pending_ping = [sent |-> FALSE]]]
      /\ ids' = [ids EXCEPT !.recv_max = MaxStreamId]
      /\ woken' = woken \cup {"server"}
      /\ UNCHANGED <<pc, queue, out, wire, streams, window, result, history>>

\* go_away_from_user
AbruptShutdown(reason) ==
  LET c == con["server"]
  IN  /\ "abrupt" \in Faults
      /\ pc["server"] = "parked" /\ ~c.is_user
      /\ con' = [con EXCEPT !["server"] =
                   GoAwayNow([c EXCEPT !.is_user = TRUE], GoAwayFrame(LastProcessed("server"), reason))]
      /\ AbortStreams("server", Id)
      /\ woken' = woken \cup {"server"}
      /\ UNCHANGED <<pc, out, wire, ids, window, result, history>>

MayAskAgain(c) == c.local[1] # "ToSend"

MayAsk(c) == c.local[1] = "Synced"

\* set_initial_window_size: Settings::send_settings
SetWindow(e, w) ==
  /\ pc[e] = "parked" /\ history.changes < history.scope.changes
  /\ MayAsk(con[e])
  /\ con' = [con EXCEPT ![e].local = <<"ToSend", w>>]
  /\ history' = [history EXCEPT !.changes = @ + 1]
  /\ woken' = woken \cup {e}
  /\ UNCHANGED <<pc, queue, out, wire, streams, ids, window, result>>

\* UserPings::send_ping
UserPing(e) ==
  /\ pc[e] = "parked" /\ con[e].user = "empty" /\ history.pings < history.scope.pings
  /\ con' = [con EXCEPT ![e].user = "pending_ping", ![e].ping_task = FALSE]
  /\ woken' = IF con[e].ping_task THEN woken \cup {e} ELSE woken
  /\ history' = [history EXCEPT !.pings = @ + 1]
  /\ UNCHANGED <<pc, queue, out, wire, streams, ids, window, result>>

\* UserPings::poll_pong
PollPong(e) ==
  /\ con[e].user = "received_pong"
  /\ con' = [con EXCEPT ![e].user = "empty"]
  /\ UNCHANGED <<pc, woken, queue, out, wire, streams, ids, window, result, history>>

-----------------------------------------------------------------------------
Step(e) ==
  \/ BeginPoll(e)
  \/ PollGoAway(e) \/ SendPong(e) \/ SendPing(e) \/ SendAck(e) \/ SendSettings(e)
  \/ RecvSettings(e) \/ RecvAck(e) \/ RecvPing(e) \/ RecvPong(e) \/ RecvGoAway(e)
  \/ e = "server" /\ RecvHeaders
  \/ e = "client" /\ RecvEnd
  \/ RecvEof(e) \/ NoFrame(e)
  \/ Complete(e) \/ Flushing(e) \/ Park(e) \/ Close(e)

Fault(e) == RecvBadFrame(e) \/ FailAck(e) \/ IoError(e)

Use ==
  \/ SendRequest \/ DropHandles \/ GracefulShutdown
  \/ \E id \in Id : Respond(id)
  \/ \E reason \in {"NO_ERROR", "PROTOCOL_ERROR"} : AbruptShutdown(reason)
  \/ \E e \in End : UserPing(e) \/ PollPong(e) \/ \E w \in history.scope.windows : SetWindow(e, w)

Next ==
  \/ \E e \in End : Step(e) \/ Fault(e) \/ Write(e)
  \/ Use

Spec == Init /\ [][Next]_vars

\* The executors poll what was woken, the transport takes frames, and the server
\* answers its requests.  Fairness is strong because Quiet, which is of the model
\* and not of the code, may come and go.
FairSpec ==
  /\ Spec
  /\ \A e \in End : SF_vars(Step(e)) /\ WF_vars(Write(e))
  /\ WF_vars(\E id \in Id : Respond(id))

-----------------------------------------------------------------------------
\* The assertions of the code: one received SETTINGS and one received PING are
\* dealt with before the next frame is read, no second shutdown PING is sent, and
\* the identifiers of the GOAWAY frames never grow.
Asserts ==
  \A e \in End :
    /\ pc[e] = "recv" => con[e].remote = None /\ con[e].pending_pong = None
    /\ con[e].going_away = None => con[e].pending_ping = None
    /\ con[e].going_away # None =>
         \/ LastProcessed(e) <= con[e].going_away.last
         \/ result[e] # None

GoAwayNeverRises ==
  [][\A e \in End :
       con[e].going_away # None => con'[e].going_away.last <= con[e].going_away.last]_vars

\* Nobody acknowledges SETTINGS twice, also when applying them fails after the
\* ACK was written.
OneAckEach == \A e \in End : history.acks[e] <= history.received[e]

\* When no frame is damaged and no write fails, nobody accuses the other: each
\* end applies a changed window at the same place in the stream of frames.
NoFalseAlarm == Faults = {} => \A e \in End : result[e] \in {None, "ok"}

\* A request the client gives up because of a GOAWAY was not processed, so it may
\* be sent again elsewhere.
AbortedNotProcessed == history.aborted \cap history.processed = {}

\* Unless the server is told to stop at once, a client that is told that all is well
\* has lost no request: each was answered, or given up because of a GOAWAY.
NoRequestLost ==
  Faults = {} /\ result["client"] = "ok" =>
    \A id \in Id : id < ids.next => id \in history.answered \cup history.aborted

\* A connection that ends on its own account has announced it: no GOAWAY is left
\* behind.
GoAwayAnnounced == \A e \in End : pc[e] = "closing" => con[e].pending = None

\* A graceful shutdown ends, and ends well at both ends.
ShutdownEnds ==
  con["server"].going_away # None ~> \A e \in End : result[e] # None

\* A PING of the user is answered, or the user is told that the connection is gone.
Pinging(e) == con[e].user \in {"pending_ping", "pending_pong"}
PingAnswered == []<>(\A e \in End : ~Pinging(e))

\* settings.rs, ping_pong.rs and go_away.rs: their assertions hold, and SETTINGS are
\* acknowledged once each, also when applying them fails behind the ACK.
AnsweredInStep == TypeOK /\ Asserts /\ OneAckEach

\* go_away.rs: what the client is told of its requests when the server goes away is
\* true: those given up were not processed, and no other is lost.
RequestsAccounted == AbortedNotProcessed /\ NoRequestLost

\* go_away.rs: the identifiers of the GOAWAY frames never grow, and none is left
\* unsent when the connection closes.
GoAwayOrderly == GoAwayNeverRises /\ []GoAwayAnnounced
=============================================================================
