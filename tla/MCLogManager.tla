---------------------------- MODULE MCLogManager ----------------------------
(***************************************************************************)
(* Small instances of LogManager for TLC.                                  *)
(***************************************************************************)
EXTENDS LogManager, TLC

\* Callers and handlers are interchangeable; for the runs without liveness.
Symmetry == Permutations(Callers) \cup Permutations(Handlers)

=============================================================================
