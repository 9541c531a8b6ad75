--------------------------- MODULE H2FlowControl ---------------------------
(***************************************************************************)
(* One flow-control window (proto/streams/flow_control.rs): window_size is *)
(* the window the peer knows about, available the window this side knows   *)
(* about.  Both may be negative.                                           *)
(***************************************************************************)
EXTENDS Integers

FlowControl == [window_size : Int, available : Int]

NewFlow(n) == [window_size |-> n, available |-> n]

\* Window::as_size
AsSize(w) == IF w < 0 THEN 0 ELSE w

\* The increment of the WINDOW_UPDATE frame to send, 0 when none is due.
UnclaimedCapacity(f) ==
  LET unclaimed == f.available - f.window_size
  IN IF f.window_size >= f.available \/ unclaimed < f.window_size \div 2
     THEN 0 ELSE unclaimed

HasUnavailable(f) == f.window_size >= 0 /\ f.window_size > f.available

ClaimCapacity(f, n)  == [f EXCEPT !.available = @ - n]
AssignCapacity(f, n) == [f EXCEPT !.available = @ + n]
IncWindow(f, n)      == [f EXCEPT !.window_size = @ + n]
DecSendWindow(f, n)  == [f EXCEPT !.window_size = @ - n]

DecRecvWindow(f, n) ==
  [window_size |-> f.window_size - n, available |-> f.available - n]

SendData(f, n) ==
  [window_size |-> f.window_size - n, available |-> f.available - n]
============================================================================
