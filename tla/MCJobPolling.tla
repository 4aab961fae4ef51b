---------------------------- MODULE MCJobPolling ----------------------------
(***************************************************************************)
(* Small instances of JobPolling for TLC.                                  *)
(***************************************************************************)
EXTENDS JobPolling, TLC

\* The members of these sets are interchangeable.
Symmetry == Permutations(Emails) \cup Permutations(Passwords)
                \cup Permutations(UserIds) \cup Permutations(Threads)
                \cup Permutations(JobIds) \cup Permutations(ContainerIds)

=============================================================================
