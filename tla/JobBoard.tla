------------------------------ MODULE JobBoard ------------------------------
(***************************************************************************)
(* What a client that polls GET /jobs/{id} may observe of the jobs table,  *)
(* whatever the goroutines, the database and the Docker daemon do: a job   *)
(* is submitted pending, may be seen running, and settles at most once.    *)
(* A successful job names a container that no other job names; a failed    *)
(* job names none.  The job's user never changes.                          *)
(*                                                                         *)
(* This is an abstract specification: it models no code.  ContainerService *)
(* is shown to implement it.                                               *)
(***************************************************************************)

CONSTANTS Users, JobIds, ContainerIds,
          Absent      \* a row that is not in the table, a column left empty

VARIABLE jobs

JobStatus == {"pending", "running", "success", "failed"}

JobRow == [user : Users, status : JobStatus,
           containerID : ContainerIds \cup {Absent}]

Settled == {"success", "failed"}

Named == {jobs[j].containerID : j \in {k \in JobIds : jobs[k] # Absent}}

-----------------------------------------------------------------------------

Init == jobs = [j \in JobIds |-> Absent]

Submit(j, u) ==
    /\ jobs[j] = Absent
    /\ jobs' = [jobs EXCEPT ![j] = [user |-> u, status |-> "pending",
                                    containerID |-> Absent]]

Begin(j) ==
    /\ jobs[j] # Absent
    /\ jobs[j].status = "pending"
    /\ jobs' = [jobs EXCEPT ![j].status = "running"]

\* A job whose "running" update was lost settles straight from "pending".
Succeed(j, c) ==
    /\ jobs[j] # Absent
    /\ jobs[j].status \notin Settled
    /\ c \notin Named
    /\ jobs' = [jobs EXCEPT ![j].status = "success", ![j].containerID = c]

Fail(j) ==
    /\ jobs[j] # Absent
    /\ jobs[j].status \notin Settled
    /\ jobs' = [jobs EXCEPT ![j].status = "failed"]

Next ==
    \E j \in JobIds :
        \/ \E u \in Users : Submit(j, u)
        \/ Begin(j)
        \/ \E c \in ContainerIds : Succeed(j, c)
        \/ Fail(j)

Spec == Init /\ [][Next]_jobs

=============================================================================
