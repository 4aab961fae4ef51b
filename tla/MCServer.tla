------------------------------ MODULE MCServer ------------------------------
(***************************************************************************)
(* Small instances of Server for TLC.                                      *)
(***************************************************************************)
EXTENDS Server, TLC

\* Request goroutines are interchangeable; for the runs without liveness.
Symmetry == Permutations(Requests)

=============================================================================
