------------------------------ MODULE MCH2Send ------------------------------
(***************************************************************************)
(* Model checking of H2Send: the scopes, what is checked in all of them,   *)
(* and what comments and documentation of the code say of the send side    *)
(* that the code does not do.                                              *)
(***************************************************************************)
EXTENDS H2Send

Plain == [last |-> 2, remote |-> {}, sizes |-> {2}, frames |-> 1,
          reservations |-> {}, windows |-> {2}, buffer |-> 2, limits |-> {2},
          goaways |-> {}, uses |-> {}]

\* Two streams share the window of the connection.
Sharing   == [Plain EXCEPT !.sizes = {0, 2}]
Resetting == [Plain EXCEPT !.uses = {"reset"}]
Dropping  == [Plain EXCEPT !.uses = {"drop"}]
GoingAway == [Plain EXCEPT !.goaways = {0, 1}, !.uses = {"fail"}]
\* They wait for each other's place among the concurrent streams.
Limited   == [Plain EXCEPT !.limits = {1}, !.uses = {"reset", "wait"}]
\* One stream, more of it: capacity reserved, trailers, changing settings.
Trailing  == [Plain EXCEPT !.last = 1, !.sizes = {0, 1, 2}, !.frames = 2,
                           !.reservations = {0, 1}, !.buffer = 1,
                           !.uses = {"trailers"}]
Changing  == [Plain EXCEPT !.last = 1, !.windows = {1, 2}, !.limits = {0, 1},
                           !.uses = {"settings"}]
\* A server and a pushed stream.
Pushing   == [Plain EXCEPT !.remote = {1}, !.limits = {0, 1}, !.uses = {"drop"}]

\* Alone, with little of everything: what is buffered is written in the end.
Flushing == {[Plain EXCEPT !.sizes = {1}, !.windows = {1}]}

All == {Sharing, Resetting, Dropping, GoingAway, Limited, Trailing, Changing, Pushing}

\* Prioritize: the capacity of the connection, what its streams were assigned and what
\* they have buffered stay in step, through every path that moves some of it.
CapacityInStep ==
  /\ TypeOK /\ AssignedAsRequested /\ BufferedIsQueued
  /\ DropsUnreserved => CapacityAddsUp /\ ConnectionCovers

\* Prioritize: no path leaves capacity idle, or a stream that could be served waiting.
NobodyOverlooked == NoIdleCapacity /\ SendableIsScheduled /\ NoLostWake

\* send.rs, counts.rs: what the peer sees of each stream is in order, and of all of them
\* within its limit.
PeerIsRespected == FramesInOrder /\ LimitRespected

\* Stream::notify_capacity: every growth is announced, and reaches the producer.
ProducersTold == []ProducerNotStranded /\ GrowthIsAnnounced

\* Counts::transition_after: streams leave the slab when they are done, and
\* none is unlinked under a loop that visits another.
SlabInStep == []ReleasedIsRemoved /\ AssignUnlinksNothing

-----------------------------------------------------------------------------
(* Statements of the documentation that TLC refutes, each with the scope    *)
(* that shows it.                                                           *)

\* prioritize.rs, assign_connection_capacity and the debug_assert of pop_frame: the
\* window of the connection covers what is sent (ConnectionCovers).
Reserving == {[Dropping EXCEPT !.reservations = {2}]}

\* prioritize.rs: "we need to ensure that lower-numbered streams are sent
\* headers before higher-numbered ones".
Crowded == {[Plain EXCEPT !.last = 3, !.sizes = {}, !.limits = {1}, !.uses = {"drop"}]}
OpenedInOrder ==
  [][\A k \in StreamId :
       wire[k] = "idle" /\ wire'[k] # "idle"
         => \A j \in StreamId : j > k => wire[j] = "idle"]_vars

\* A connection that gets capacity back sends with it (NoLostWake), and a closed
\* stream is freed whatever queue it was in (ReleasedIsRemoved).
Lowering == {[Plain EXCEPT !.sizes = {1}, !.reservations = {0, 1}]}
Evicting == {[Plain EXCEPT !.uses = {"reset", "drop"}]}

\* prioritize.rs, pop_frame: find_mut of the promised stream is unwrapped.
Promising == {[Plain EXCEPT !.remote = {1}, !.sizes = {}, !.uses = {"drop"}]}
PromisedIsKnown ==
  \A k \in StreamId :
    Turn(k) /\ streams[k].pending_send # <<>> /\ First(k).type = "push"
      => First(k).child \in ids
=============================================================================
