------------------------- MODULE MCContainerService -------------------------
(***************************************************************************)
(* Small instances of ContainerService for TLC.                            *)
(***************************************************************************)
EXTENDS ContainerService, TLC

\* The members of these sets are interchangeable.  Used by the runs that
\* check no liveness.
Symmetry == Permutations(Users) \cup Permutations(Names)
                \cup Permutations(Threads)
                \cup Permutations(JobIds) \cup Permutations(ContainerIds)
                \cup Permutations(DockerIds)

=============================================================================
