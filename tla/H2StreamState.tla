--------------------------- MODULE H2StreamState ---------------------------
(***************************************************************************)
(* The state of one HTTP/2 stream (proto/streams/state.rs): the values of  *)
(* Inner, and each method of State as an operator on such a value.  A      *)
(* method that may fail is a guard (CanX) and the value it assigns on      *)
(* success (X); on failure the code leaves the state as it was.            *)
(*                                                                         *)
(* An Error cause keeps only what is_local() distinguishes: "LocalError"   *)
(* is a reset or GOAWAY of this side or an I/O error, "RemoteError" a      *)
(* reset or GOAWAY of the peer.                                            *)
(***************************************************************************)

Peers  == {"AwaitingHeaders", "Streaming"}
Causes == {"EndStream", "LocalError", "RemoteError", "ScheduledLibraryReset"}

\* Every value has the same four fields; "-" fills those its Inner has not.
Value(inner, local, remote, cause) ==
  [inner |-> inner, local |-> local, remote |-> remote, cause |-> cause]

Idle                == Value("Idle", "-", "-", "-")
ReservedLocal       == Value("ReservedLocal", "-", "-", "-")
ReservedRemote      == Value("ReservedRemote", "-", "-", "-")
Open(local, remote) == Value("Open", local, remote, "-")
HalfClosedLocal(p)  == Value("HalfClosedLocal", "-", p, "-")
HalfClosedRemote(p) == Value("HalfClosedRemote", p, "-", "-")
Closed(cause)       == Value("Closed", "-", "-", cause)

State == {Idle, ReservedLocal, ReservedRemote}
           \cup {Open(l, r) : l \in Peers, r \in Peers}
           \cup {HalfClosedLocal(p) : p \in Peers}
           \cup {HalfClosedRemote(p) : p \in Peers}
           \cup {Closed(c) : c \in Causes}

----------------------------------------------------------------------------
(* Queries.                                                                *)

IsClosed(s) == s.inner = "Closed"

IsIdle(s) == s.inner = "Idle"

IsScheduledReset(s) == s.cause = "ScheduledLibraryReset"

IsLocalReset(s) == s.cause \in {"LocalError", "ScheduledLibraryReset"}

IsReset(s) == IsClosed(s) /\ s.cause # "EndStream"

IsSendStreaming(s) ==
  s.inner \in {"Open", "HalfClosedRemote"} /\ s.local = "Streaming"

StreamingUnlessHalfClosed(s) ==
  s.inner \notin {"Idle", "ReservedLocal", "ReservedRemote", "HalfClosedRemote"}
IsRecvStreaming(s) ==
  s.inner \in {"Open", "HalfClosedLocal"} /\ s.remote = "Streaming"

IsRecvHeaders(s) ==
  \/ s.inner \in {"Idle", "ReservedRemote"}
  \/ s.inner \in {"Open", "HalfClosedLocal"} /\ s.remote = "AwaitingHeaders"

IsRecvClosed(s) == s.inner \in {"Closed", "HalfClosedRemote", "ReservedLocal"}

IsSendClosed(s) == s.inner \in {"Closed", "HalfClosedLocal", "ReservedRemote"}

----------------------------------------------------------------------------
(* Transitions.                                                            *)

CanSendOpen(s) ==
  \/ s.inner \in {"Idle", "ReservedLocal"}
  \/ s.inner \in {"Open", "HalfClosedRemote"} /\ s.local = "AwaitingHeaders"

SendOpen(s, eos) ==
  CASE s.inner = "Idle" -> IF eos THEN HalfClosedLocal("AwaitingHeaders")
                                  ELSE Open("Streaming", "AwaitingHeaders")
    [] s.inner = "Open" -> IF eos THEN HalfClosedLocal(s.remote)
                                  ELSE Open("Streaming", s.remote)
    [] OTHER            -> IF eos THEN Closed("EndStream")
                                  ELSE HalfClosedRemote("Streaming")

\* HEADERS of the peer.  An informational (1xx) block leaves the receive half
\* waiting for the final one.
CanRecvOpen(s) == IsRecvHeaders(s)

RecvOpen(s, eos, informational) ==
  LET remote == IF informational THEN "AwaitingHeaders" ELSE "Streaming"
  IN CASE s.inner = "Idle" ->
            IF eos THEN HalfClosedRemote("AwaitingHeaders")
                   ELSE Open("AwaitingHeaders", remote)
       [] s.inner = "Open" ->
            IF eos THEN HalfClosedRemote(s.local) ELSE Open(s.local, remote)
       [] s.inner = "ReservedRemote" ->
            IF eos THEN Closed("EndStream")
            ELSE IF informational THEN ReservedRemote
            ELSE HalfClosedLocal("Streaming")
       [] OTHER ->
            IF eos THEN Closed("EndStream") ELSE HalfClosedLocal(remote)

CanRecvClose(s) == s.inner \in {"Open", "HalfClosedLocal"}

RecvClose(s) == IF s.inner = "Open" THEN HalfClosedRemote(s.local)
                                    ELSE Closed("EndStream")

\* The code panics in every other state.
CanSendClose(s) == s.inner \in {"Open", "HalfClosedRemote"}

SendClose(s) == IF s.inner = "Open" THEN HalfClosedLocal(s.remote)
                                    ELSE Closed("EndStream")

\* RST_STREAM of the peer; queued: the stream is in the send queue.
RecvReset(s, queued) ==
  IF IsClosed(s) /\ ~queued THEN s ELSE Closed("RemoteError")

\* A connection error, and the end of the connection.
HandleError(s, cause) == IF IsClosed(s) THEN s ELSE Closed(cause)

RecvEof(s) == HandleError(s, "LocalError")

SetReset == Closed("LocalError")

SetScheduledReset == Closed("ScheduledLibraryReset")
============================================================================
