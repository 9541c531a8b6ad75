--------------------------- MODULE MCH2Connection ---------------------------
(***************************************************************************)
(* Model checking of H2Connection: the scopes, each of which lets one kind *)
(* of trouble happen often enough.                                         *)
(***************************************************************************)
EXTENDS H2Connection

\* Both ends start with the same window; or the server with a smaller one.
Same == [e \in End |-> Default]
Smaller == [e \in End |-> IF e = "server" THEN Default - 1 ELSE Default]

Quietly == [requests |-> 1, room |-> 2, windows |-> {}, changes |-> 0, faults |-> {},
            pinger |-> {}, pings |-> 0]
Changing   == [Quietly EXCEPT !.windows = {1, 3}, !.changes = 2]
Requesting == [Quietly EXCEPT !.requests = 2]
Failing    == [Quietly EXCEPT !.faults = {"frame", "apply", "io", "abrupt"}]
PingPong   == [Quietly EXCEPT !.room = 1, !.pinger = {"client"}, !.pings = 1]

Disturbed  == {Changing, Requesting, Failing}
Undisturbed == {PingPong}
=============================================================================
