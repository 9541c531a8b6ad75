------------------------------ MODULE MCH2Recv ------------------------------
(***************************************************************************)
(* Model checking of H2Recv: symmetry, and what a comment of the code says *)
(* that the code does not do.                                              *)
(***************************************************************************)
EXTENDS H2Recv, TLC

Symmetry == Permutations(Keys)

-----------------------------------------------------------------------------
(* Statements of the documentation that TLC refutes.                        *)

\* counts.rs: num_reset_streams is the "Current number of pending locally
\* reset streams".
NumResetExact == num_reset_streams = Cardinality(Awaiting)
=============================================================================
