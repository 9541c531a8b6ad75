------------------------------ MODULE MCHttp1 -------------------------------
(***************************************************************************)
(* Model checking of ClientPool and H1Codec, side by side: each behaviour  *)
(* is one of them.  Their scopes, and what is checked in all of these.     *)
(***************************************************************************)
EXTENDS ClientPool, TLC

CONSTANTS k, l, Exchanges

VARIABLES
  part,                                                       \* which one
  buf, ops, flight, log, wire, down, src, nextd, len, pc,     \* H1Codec
  inbox, stop, written, exchange, spoilt

pool  == vars
codec == <<buf, ops, flight, log, wire, down, src, nextd, len, pc, inbox, stop, written,
           exchange, spoilt>>

H == INSTANCE H1Codec WITH
       MaxMsgs <- 2, MaxSize <- 2, Boundary <- 2, Scopes <- Exchanges, scope <- exchange

InitAll ==
  /\ part \in {"pool", "codec"} /\ Init /\ H!Init
  /\ part = "pool" => exchange = CHOOSE e \in Exchanges : TRUE
  /\ part = "codec" => scope = CHOOSE s \in Scopes : TRUE

NextAll ==
  \/ part = "pool" /\ Next /\ UNCHANGED <<part, codec>>
  \/ part = "codec" /\ H!Next /\ UNCHANGED <<part, pool>>

SpecAll == InitAll /\ [][NextAll]_<<part, pool, codec>>

-----------------------------------------------------------------------------
(* ClientPool.                                                               *)

Quietly == [proto |-> k :> "h1", idle |-> 1, time |-> 0, faults |-> {}]

\* Requests of two hosts that are dropped at an await, and servers that close.
Crossing == [Quietly EXCEPT !.proto = k :> "h1" @@ l :> "h1", !.idle = 0,
                            !.faults = {"cancel", "close", "cut", "dial"}]

\* Connections that are shared break.
Sharing == [Quietly EXCEPT !.proto = k :> "h2", !.faults = {"cut", "cancel", "dial", "retry"}]

\* Connections grow old in the pool.
Ageing == [Quietly EXCEPT !.time = 7]

AllPools == {Crossing, Sharing, Ageing}
Configuring == {[Quietly EXCEPT !.idle = 2]}

-----------------------------------------------------------------------------
(* H1Codec.                                                                  *)

Plainly == [mode |-> "channel", chunks |-> 1, faults |-> {}]

\* A server whose bodies fail at their source, and whose fills are dropped.
Serving == [Plainly EXCEPT !.chunks = 2,
                           !.faults = {"timeout", "bodyerr", "dropfill", "dropnext"}]

\* A client that reads payloads from a connection that breaks.
Asking == [mode |-> "direct", chunks |-> 1, faults |-> {"dropsend", "break", "emptychunk"}]

AllExchanges == {Serving, Asking}
Selecting == {[Plainly EXCEPT !.faults = {"dropfill"}]}

-----------------------------------------------------------------------------
Symmetry == Permutations(Request)

\* HttpConnection and PooledConnection: a request has its connection to itself, gets
\* the answer to itself, and fails only for a reason.
RequestsServed == TypeOK /\ Exclusive /\ ResponseMatches /\ FailsForAReason

\* ConnectionPool: what it keeps is bounded, not too old and not known to be dead.
PoolKept == IdleBounded /\ FreshEnough /\ FoundDeadIsRemoved

\* GenericEncoder and the decoders: what was written, and what was handed out, are the
\* messages sent, in order and none invented, unless a call was given up; a body that
\* its reader sees end is the body that was sent.
MessagesInOrder ==
  part = "codec" => H!TypeOK /\ H!WrittenInOrder /\ H!NothingInvented /\ H!BodiesWhole

\* decoder.rs, payload.rs: when the connection is over the reader of a body has been
\* told so.
ReadersTold == part = "codec" => H!ReadersTold

\* The statement of the documentation that Selecting refutes.
SelectIsFine == part = "codec" => H!SelectIsFine
=============================================================================
