---------------------------- MODULE MCFileService ----------------------------
(***************************************************************************)
(* Small instances of FileService for TLC.                                 *)
(***************************************************************************)
EXTENDS FileService, TLC

\* The members of these sets are interchangeable; for the runs without
\* liveness.
Symmetry == Permutations(Users) \cup Permutations(Threads)
                \cup Permutations(FileIds)

=============================================================================
