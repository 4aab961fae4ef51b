-------------------------- MODULE ContainerService --------------------------
(***************************************************************************)
(* internal/usecase/container: the containers of every user, kept in two   *)
(* stores that share no transaction - the containers table in PostgreSQL   *)
(* and the Docker daemon - and the asynchronous jobs that create them.     *)
(*                                                                         *)
(* A request that starts, stops or deletes a container runs on a thread of *)
(* its own and takes three separate calls: read the row, call Docker,      *)
(* write the row back.  A create request only inserts a job row and spawns *)
(* a goroutine; the goroutine marks the job running, creates the Docker    *)
(* container, saves the row (removing the Docker container again when that *)
(* fails) and records how the job ended.  One action stands for one call   *)
(* to a store together with the local code up to the next call, so every   *)
(* interleaving of threads, goroutines, failing calls and crashes between  *)
(* two calls is a behaviour.                                               *)
(*                                                                         *)
(* Read-only requests (List, Get, GET /jobs/{id}) and requests turned away *)
(* before any call that writes (bad JSON, 401, 403, 404, a failed read)    *)
(* change nothing here and are stuttering steps.                           *)
(***************************************************************************)
EXTENDS Naturals, FiniteSets

CONSTANTS
    Users,          \* authenticated user IDs
    Names,          \* container names a request may ask for
    Threads,        \* goroutines net/http may run requests on at once
    JobIds, ContainerIds,   \* UUIDs (uuid.NewString never repeats one)
    DockerIds,      \* container IDs the Docker daemon may assign
    Absent,         \* no row, no container, no goroutine, an empty column
    FaultModes,     \* the ways an external call may fail, see Call
    MaxFaults,      \* bound on failing calls
    MaxCrashes      \* bound on crashes of the process


ContainerStatus == {"created", "running", "exited"}   \* the values ever stored

Container == [user : Users, dockerID : DockerIds, status : ContainerStatus]

JobStatus == {"pending", "running", "success", "failed"}

Job == [user : Users, status : JobStatus,
        containerID : ContainerIds \cup {Absent}]

DockerContainer == [name : Names, state : ContainerStatus \cup {"removed"}]

\* A goroutine in runCreateJob: its next call, its own copy of the job, and
\* its arguments and locals.
Worker == [pc : {"mark", "create", "save", "rollback", "record"},
           job : Job, name : Names, dockerID : DockerIds \cup {Absent}]

\* A request past getOwned: its next call and the row it read.
Request == [pc : {"runtime", "repo"}, op : {"start", "stop", "delete"},
            user : Users, id : ContainerIds, c : Container]

ASSUME ModesAssumption == FaultModes \subseteq {"refused", "unanswered"}

ASSUME BoundsAssumption == MaxFaults \in Nat /\ MaxCrashes \in Nat

ASSUME AbsentAssumption ==
    Absent \notin ContainerIds \cup DockerIds \cup Container \cup Job
                    \cup DockerContainer \cup Worker \cup Request

VARIABLES
    rows,       \* the containers table
    jobs,       \* the jobs table
    docker,     \* the Docker daemon
    worker,     \* the goroutine running each job
    thread,     \* the request on each thread
    faults, crashes,    \* how many calls failed, how often the process died
    \* History, kept for the properties only:
    minted,     \* the entity.Container each UUID was first minted for
    acked,      \* containers whose DELETE was answered 204
    raced       \* containers two requests were ever working on at once

vars == <<rows, jobs, docker, worker, thread, faults, crashes,
          minted, acked, raced>>

-----------------------------------------------------------------------------
(* Calls to PostgreSQL and to Docker.                                      *)

\* How a call ends: done and answered, refused without effect, or done while
\* the caller gets an error (the connection broke before the answer).
Outcomes == {"ok"} \cup FaultModes

Call(o) ==
    \/ o = "ok" /\ UNCHANGED faults
    \/ o \in FaultModes /\ faults < MaxFaults /\ faults' = faults + 1

Applied(o) == o # "refused"

\* INSERT, or gorm's Save: update the row, and insert it when there is none.
Upsert(table, k, row, o) == IF Applied(o) THEN [table EXCEPT ![k] = row]
                                          ELSE table

Exists(d) == docker[d] # Absent /\ docker[d].state # "removed"

NameTaken(n) == \E d \in DockerIds : Exists(d) /\ docker[d].name = n

\* Starting a running container and stopping a stopped one succeed; without
\* Force, removing a running container is refused.
DockerAccepts(op, d) ==
    Exists(d) /\ (op = "delete" => docker[d].state # "running")

StateAfter(op, state) ==
    CASE op = "start" -> "running"
      [] op = "stop" -> IF state = "running" THEN "exited" ELSE state
      [] op = "delete" -> "removed"

DockerCall(op, d, o) ==
    /\ Call(o)
    /\ docker' = IF Applied(o) /\ DockerAccepts(op, d)
                 THEN [docker EXCEPT ![d].state = StateAfter(op, @)]
                 ELSE docker

\* The container exits by itself; nothing in this program is told.
ContainerExits(d) ==
    /\ Exists(d)
    /\ docker[d].state = "running"
    /\ docker' = [docker EXCEPT ![d].state = "exited"]
    /\ UNCHANGED <<rows, jobs, worker, thread, faults, crashes,
                   minted, acked, raced>>

-----------------------------------------------------------------------------
(* Creating a container: the request and the goroutine it leaves behind.   *)

NewJob(u) == [user |-> u, status |-> "pending", containerID |-> Absent]

\* CreateAsync: no goroutine when the job cannot be saved.
CreateAsync(u, n) ==
    /\ \E j \in JobIds, o \in Outcomes :
        /\ jobs[j] = Absent
        /\ Call(o)
        /\ jobs' = Upsert(jobs, j, NewJob(u), o)
        /\ worker' = IF o = "ok"
                     THEN [worker EXCEPT ![j] =
                            [pc |-> "mark", job |-> NewJob(u),
                             name |-> n, dockerID |-> Absent]]
                     ELSE worker
    /\ UNCHANGED <<rows, docker, thread, crashes, minted, acked, raced>>

At(j, pc) == worker[j] # Absent /\ worker[j].pc = pc

\* runCreateJob's first update; its failure is only logged.
MarkRunning(j) ==
    /\ At(j, "mark")
    /\ LET job == [worker[j].job EXCEPT !.status = "running"]
       IN  /\ \E o \in Outcomes : /\ Call(o)
                                  /\ jobs' = Upsert(jobs, j, job, o)
           /\ worker' = [worker EXCEPT ![j].pc = "create", ![j].job = job]
    /\ UNCHANGED <<rows, docker, thread, crashes, minted, acked, raced>>

\* Mutant: the error is dropped, and the job never leaves "running".
FailedSilently(j) == [worker EXCEPT ![j].pc = "record"]

\* Create returned an error.
Failed(j) == [worker EXCEPT ![j].pc = "record", ![j].job.status = "failed"]

\* Mutant: a create that finds its name taken adopts the container it finds.
AdoptOnConflict(j) ==
    [worker EXCEPT ![j].pc = "save",
                   ![j].dockerID = CHOOSE d \in DockerIds :
                        Exists(d) /\ docker[d].name = worker[j].name]

\* Mutant: the error of runtime.Create is ignored.
IgnoreConflict(j) == [worker EXCEPT ![j].pc = "save"]

OnConflict(j) == Failed(j)

\* runtime.Create: pull the image, create the container.  Docker refuses a
\* name that another container has, whoever owns it.
RuntimeCreate(j) ==
    /\ At(j, "create")
    /\ \/ /\ NameTaken(worker[j].name)
          /\ worker' = OnConflict(j)
          /\ UNCHANGED <<docker, faults>>
       \/ \E d \in DockerIds, o \in Outcomes :
          /\ ~NameTaken(worker[j].name)
          /\ docker[d] = Absent
          /\ Call(o)
          /\ docker' = Upsert(docker, d, [name |-> worker[j].name,
                                          state |-> "created"], o)
          /\ worker' = IF o = "ok"
                       THEN [worker EXCEPT ![j].pc = "save",
                                           ![j].dockerID = d]
                       ELSE Failed(j)
    /\ UNCHANGED <<rows, jobs, thread, crashes, minted, acked, raced>>

NewContainer(u, d) == [user |-> u, dockerID |-> d, status |-> "created"]

\* Mutant: Create returns the container although it could not be saved.
SwallowSaveError(j) ==
    [worker EXCEPT ![j].pc = "record", ![j].job.status = "success"]

\* Before the error is returned the Docker container is removed again.
SaveFailed(j) == [worker EXCEPT ![j].pc = "rollback"]

\* Mutant: the job does not say which container it created.
SucceededUnnamed(j, c) ==
    [worker EXCEPT ![j].pc = "record", ![j].job.status = "success"]

Succeeded(j, c) ==
    [worker EXCEPT ![j].pc = "record", ![j].job.status = "success",
                   ![j].job.containerID = c]

\* repo.Save of the new container under a fresh UUID.
SaveContainer(j) ==
    /\ At(j, "save")
    /\ \E c \in ContainerIds, o \in Outcomes :
        LET row == NewContainer(worker[j].job.user, worker[j].dockerID)
        IN  /\ minted[c] = Absent
            /\ Call(o)
            /\ minted' = [minted EXCEPT ![c] = row]
            /\ rows' = Upsert(rows, c, row, o)
            /\ worker' = IF o = "ok" THEN Succeeded(j, c) ELSE SaveFailed(j)
    /\ UNCHANGED <<jobs, docker, thread, crashes, acked, raced>>

\* The compensating runtime.Remove; its failure is only logged.
Rollback(j) ==
    /\ At(j, "rollback")
    /\ \E o \in Outcomes : DockerCall("delete", worker[j].dockerID, o)
    /\ worker' = Failed(j)
    /\ UNCHANGED <<rows, jobs, thread, crashes, minted, acked, raced>>

\* Mutant: the goroutine runs the job once more.
RunAgain(j) == [worker EXCEPT ![j].pc = "mark"]

Finished(j) == [worker EXCEPT ![j] = Absent]

\* runCreateJob's last update, logged when it fails; then wg.Done.
RecordFinal(j) ==
    /\ At(j, "record")
    /\ \E o \in Outcomes : /\ Call(o)
                           /\ jobs' = Upsert(jobs, j, worker[j].job, o)
    /\ worker' = Finished(j)
    /\ UNCHANGED <<rows, docker, thread, crashes, minted, acked, raced>>

-----------------------------------------------------------------------------
(* Start, Stop and Delete.                                                 *)

WorkingOn(t, c) == thread[t] # Absent /\ thread[t].id = c

\* Mutant: the owner of the row is not compared with the caller.
OwnedByAnyone(u, c) == rows[c] # Absent

Owned(u, c) == rows[c] # Absent /\ rows[c].user = u

\* getOwned: the row is read once, and its owner compared with the caller.
GetOwned(t, u, op, c) ==
    /\ thread[t] = Absent
    /\ Owned(u, c)
    /\ thread' = [thread EXCEPT ![t] = [pc |-> "runtime", op |-> op,
                                        user |-> u, id |-> c, c |-> rows[c]]]
    /\ raced' = raced \cup {k \in {c} : \E s \in Threads : WorkingOn(s, k)}
    /\ UNCHANGED <<rows, jobs, docker, worker, faults, crashes, minted, acked>>

\* Mutant: Start forgets to set the status.
StatusNotSet == [start |-> "created", stop |-> "exited"]

StatusAfter == [start |-> "running", stop |-> "exited"]

\* Mutant: Delete drops the row even if Docker refused to remove.
DeletesAnyway(op, d, o) ==
    op = "delete" \/ (o = "ok" /\ DockerAccepts(op, d))

Succeeds(op, d, o) == o = "ok" /\ DockerAccepts(op, d)

\* runtime.Start, Stop or Remove; an error ends the request.
Runtime(t) ==
    /\ thread[t] # Absent
    /\ thread[t].pc = "runtime"
    /\ LET op == thread[t].op
           d == thread[t].c.dockerID
       IN  \E o \in Outcomes :
            /\ DockerCall(op, d, o)
            /\ thread' =
                IF Succeeds(op, d, o)
                THEN [thread EXCEPT ![t].pc = "repo",
                        ![t].c.status = IF op = "delete" THEN @
                                                         ELSE StatusAfter[op]]
                ELSE [thread EXCEPT ![t] = Absent]
    /\ UNCHANGED <<rows, jobs, worker, crashes, minted, acked, raced>>

\* repo.Update of Start and Stop: the whole entity read by getOwned goes back,
\* and gorm's Save inserts it when the row is gone.
UpdateRow(t) ==
    /\ thread[t] # Absent
    /\ thread[t].pc = "repo"
    /\ thread[t].op \in {"start", "stop"}
    /\ \E o \in Outcomes :
        /\ Call(o)
        /\ rows' = Upsert(rows, thread[t].id, thread[t].c, o)
    /\ thread' = [thread EXCEPT ![t] = Absent]
    /\ UNCHANGED <<jobs, docker, worker, crashes, minted, acked, raced>>

\* repo.Delete; deleting no row is not an error.
DeleteRow(t) ==
    /\ thread[t] # Absent
    /\ thread[t].pc = "repo"
    /\ thread[t].op = "delete"
    /\ \E o \in Outcomes :
        /\ Call(o)
        /\ rows' = Upsert(rows, thread[t].id, Absent, o)
        /\ acked' = acked \cup {c \in {thread[t].id} : o = "ok"}
    /\ thread' = [thread EXCEPT ![t] = Absent]
    /\ UNCHANGED <<jobs, docker, worker, crashes, minted, raced>>

-----------------------------------------------------------------------------

\* The process dies and main starts it again: both stores keep what they had,
\* every goroutine is gone, and nothing at start-up looks for what they left.
CrashRestart ==
    /\ crashes < MaxCrashes
    /\ crashes' = crashes + 1
    /\ worker' = [j \in JobIds |-> Absent]
    /\ thread' = [t \in Threads |-> Absent]
    /\ UNCHANGED <<rows, jobs, docker, faults, minted, acked, raced>>

Init ==
    /\ rows = [c \in ContainerIds |-> Absent]
    /\ jobs = [j \in JobIds |-> Absent]
    /\ docker = [d \in DockerIds |-> Absent]
    /\ worker = [j \in JobIds |-> Absent]
    /\ thread = [t \in Threads |-> Absent]
    /\ faults = 0
    /\ crashes = 0
    /\ minted = [c \in ContainerIds |-> Absent]
    /\ acked = {}
    /\ raced = {}

\* The goroutine of job j takes its next step.
RunCreateJob(j) ==
    MarkRunning(j) \/ RuntimeCreate(j) \/ SaveContainer(j)
        \/ Rollback(j) \/ RecordFinal(j)

\* The request on thread t takes its next step.
Serve(t) == Runtime(t) \/ UpdateRow(t) \/ DeleteRow(t)

Next ==
    \/ \E u \in Users, n \in Names : CreateAsync(u, n)
    \/ \E j \in JobIds : RunCreateJob(j)
    \/ \E t \in Threads, u \in Users, c \in ContainerIds,
          op \in {"start", "stop", "delete"} : GetOwned(t, u, op, c)
    \/ \E t \in Threads : Serve(t)
    \/ \E d \in DockerIds : ContainerExits(d)
    \/ CrashRestart

Spec == Init /\ [][Next]_vars

\* Goroutines are scheduled, and the calls they make return one way or the
\* other; clients owe nothing.  The code sets no deadline on a Docker call,
\* so that one returns is an assumption about the daemon.
FairSpec ==
    /\ Spec
    /\ \A j \in JobIds : WF_vars(RunCreateJob(j))
    /\ \A t \in Threads : WF_vars(Serve(t))

\* In addition the owner of each container keeps sending DELETE.
RetrySpec ==
    /\ FairSpec
    /\ \A c \in ContainerIds :
        SF_vars(\E t \in Threads, u \in Users : GetOwned(t, u, "delete", c))

-----------------------------------------------------------------------------
(* Safety.                                                                 *)

\* Types: no row, in the table or in a request's hands, lacks its owner, its
\* Docker ID or a known status, whatever Create's calls returned.
TypeOK ==
    /\ rows \in [ContainerIds -> Container \cup {Absent}]
    /\ jobs \in [JobIds -> Job \cup {Absent}]
    /\ docker \in [DockerIds -> DockerContainer \cup {Absent}]
    /\ worker \in [JobIds -> Worker \cup {Absent}]
    /\ thread \in [Threads -> Request \cup {Absent}]
    /\ faults \in 0..MaxFaults
    /\ crashes \in 0..MaxCrashes
    /\ minted \in [ContainerIds -> Container \cup {Absent}]
    /\ acked \subseteq ContainerIds
    /\ raced \subseteq ContainerIds

SameIdentity(c, row) == /\ minted[c] # Absent
                        /\ row.user = minted[c].user
                        /\ row.dockerID = minted[c].dockerID

\* A row, and the copy of it a request holds across its calls, keep the owner
\* and the Docker ID that Create gave the container, however stale the copy
\* is and even when Update re-inserts a deleted row; a request past getOwned
\* works for that owner; and no two containers share a Docker ID, so the
\* UNIQUE constraint on docker_id never makes a Save fail.
IdentityStable ==
    /\ \A c \in ContainerIds : rows[c] # Absent => SameIdentity(c, rows[c])
    /\ \A t \in Threads : thread[t] # Absent =>
        /\ SameIdentity(thread[t].id, thread[t].c)
        /\ thread[t].user = thread[t].c.user
    /\ \A b, c \in ContainerIds :
        /\ minted[b] # Absent /\ minted[c] # Absent
        /\ minted[b].dockerID = minted[c].dockerID
        => b = c

\* A container in Docker that no row names and no goroutine is going to save
\* or remove: nobody can see it or delete it through this program.
Orphan(d) ==
    /\ Exists(d)
    /\ \A c \in ContainerIds : rows[c] # Absent => rows[c].dockerID # d
    /\ \A j \in JobIds : At(j, "save") \/ At(j, "rollback")
                            => worker[j].dockerID # d

\* Create's compensating Remove does its work: it takes a crash, two failing
\* calls, or one call done but never answered to leave an orphan behind.
NoOrphanWithoutDoubleFault ==
    (\E d \in DockerIds : Orphan(d)) =>
        \/ crashes > 0
        \/ faults >= 2
        \/ faults >= 1 /\ "unanswered" \in FaultModes

\* DELETE answered 204 only once the Docker container is gone, and for good,
\* whatever other requests, failures and crashes surround it.
AckedDeleteRemoved ==
    \A c \in acked : /\ minted[c] # Absent
                     /\ docker[minted[c].dockerID].state = "removed"

\* The job names a container minted for the job's own user, whose row is
\* there unless its Docker container was removed.
Delivered(job) ==
    /\ job.containerID \in ContainerIds
    /\ minted[job.containerID] # Absent
    /\ minted[job.containerID].user = job.user
    /\ \/ rows[job.containerID] # Absent
       \/ docker[minted[job.containerID].dockerID].state = "removed"

\* A job that reads "success" delivered a container, whatever requests,
\* failures and crashes followed.
SuccessDelivered ==
    \A j \in JobIds :
        jobs[j] # Absent /\ jobs[j].status = "success" => Delivered(jobs[j])

NoFailures == faults = 0 /\ crashes = 0

\* When nothing fails, every row a user can list was reported by one of the
\* user's jobs, or is about to be by the goroutine that saved it.
EveryRowReported ==
    NoFailures => \A c \in ContainerIds : rows[c] # Absent =>
        \E j \in JobIds :
            \/ jobs[j] # Absent /\ jobs[j].containerID = c
                                /\ jobs[j].user = rows[c].user
            \/ worker[j] # Absent /\ worker[j].job.containerID = c
                                  /\ worker[j].job.user = rows[c].user

\* Requests on the same container are the only ones that need mutual
\* exclusion: when nothing fails, a container that no two requests worked on
\* at once, and that no request is about to write, has a row that agrees with
\* Docker - the container exists, and only runs if the row says "running".
SerializedRowsAgree ==
    NoFailures => \A c \in ContainerIds \ raced :
        /\ rows[c] # Absent
        /\ \A t \in Threads : ~(WorkingOn(t, c) /\ thread[t].pc = "repo")
        => /\ Exists(rows[c].dockerID)
           /\ docker[rows[c].dockerID].state = "running"
                => rows[c].status = "running"

\* The kinds of step that may change container c, or d behind it.
RequestStep(c) == \E t \in Threads : /\ WorkingOn(t, c)
                                     /\ thread[t].user = minted[c].user
                                     /\ thread'[t] # thread[t]

RollbackStep(c) == \E j \in JobIds : /\ At(j, "rollback")
                                     /\ worker[j].job.user = minted[c].user
                                     /\ worker'[j] # worker[j]

ExitStep(d) == docker[d].state = "running" /\ docker'[d].state = "exited"

OwnerStep(c) ==
    /\ rows'[c] # rows[c] => RequestStep(c)
    /\ LET d == minted[c].dockerID
       IN  docker'[d] # docker[d] =>
            RequestStep(c) \/ RollbackStep(c) \/ ExitStep(d)

\* A step that changes a user's row, or the Docker container behind it, is a
\* step of a request or a create job of that user, or the container exiting.
OnlyOwnerActs ==
    [][\A c \in ContainerIds : minted[c] # Absent => OwnerStep(c)]_vars

Board == INSTANCE JobBoard

\* What polling clients see of the jobs table is a job board: runCreateJob
\* moves its job from pending towards success or failed, never back and never
\* twice, and no container is reported by two jobs.
BoardSpec == Board!Spec

-----------------------------------------------------------------------------
(* What makes the invariants above inductive.                              *)

\* A UUID is minted for a container Docker has, or had.
MintedInDocker ==
    \A c \in ContainerIds :
        minted[c] # Absent => docker[minted[c].dockerID] # Absent

\* A goroutine about to save or remove a container has the ID of a container
\* Docker gave to it alone, and that no UUID was minted for before Save.
Holds(j, d) == (At(j, "save") \/ At(j, "rollback")) /\ worker[j].dockerID = d

WorkersHoldFresh ==
    \A j \in JobIds :
        /\ \A d \in DockerIds \cup {Absent} :
            Holds(j, d) => /\ d \in DockerIds
                           /\ docker[d] # Absent
                           /\ \A k \in JobIds : Holds(k, d) => k = j
        /\ \A c \in ContainerIds :
            minted[c] # Absent /\ Holds(j, minted[c].dockerID)
                => /\ At(j, "rollback")
                   /\ minted[c].user = worker[j].job.user

\* A DELETE on its way to the table has removed the Docker container.
DeletersRemoved ==
    \A t \in Threads :
        thread[t] # Absent /\ thread[t].pc = "repo" /\ thread[t].op = "delete"
            => docker[thread[t].c.dockerID].state = "removed"

\* A goroutine's copy of the job and its row in the table: the row is there,
\* unsettled, and of the same user; the copy is settled when Create returned.
Tracks(j) ==
    /\ jobs[j] # Absent
    /\ jobs[j].user = worker[j].job.user
    /\ jobs[j].status \in {"pending", "running"}
    /\ jobs[j].containerID = Absent
    /\ At(j, "mark") => jobs[j].status = "pending"
    /\ worker[j].job.status = "success" =>
        At(j, "record") /\ Delivered(worker[j].job)
    /\ worker[j].job.status # "success" => worker[j].job.containerID = Absent
    /\ At(j, "record") => worker[j].job.status \in {"success", "failed"}

WorkersTrackJobs == \A j \in JobIds : worker[j] # Absent => Tracks(j)

\* No two jobs name the same container, in the table or on their way to it.
Naming(j, c) == \/ jobs[j] # Absent /\ jobs[j].containerID = c
                \/ worker[j] # Absent /\ worker[j].job.containerID = c

NamedOnce ==
    \A c \in ContainerIds, j \in JobIds : Naming(j, c) =>
        /\ minted[c] # Absent
        /\ \A k \in JobIds : Naming(k, c) => k = j

\* The inductive invariant: what every handler and goroutine of this service
\* relies on between two of its calls, and re-establishes with each.
IInv == /\ TypeOK
        /\ IdentityStable
        /\ MintedInDocker
        /\ WorkersHoldFresh
        /\ DeletersRemoved
        /\ AckedDeleteRemoved
        /\ WorkersTrackJobs
        /\ SuccessDelivered
        /\ NamedOnce

-----------------------------------------------------------------------------
(* Liveness.                                                               *)

\* Every goroutine CreateAsync spawned ends, whatever its calls return, so
\* Wait() at shutdown returns once no more are spawned.
WorkersDrain == \A j \in JobIds : worker[j] # Absent ~> worker[j] = Absent

IsSettled(j) == jobs[j] # Absent /\ jobs[j].status \in {"success", "failed"}

\* A job in the table settles, unless a call fails or the process dies.
JobsSettleUnlessFault ==
    \A j \in JobIds : jobs[j] # Absent ~> IsSettled(j) \/ ~NoFailures

-----------------------------------------------------------------------------
(* What the documentation says and the code does not do.                   *)

\* container_handler.go:210, on DELETE: "Remove a container (from Docker and
\* the database)".  Once it was answered 204 the row should stay away.
DeletedStaysDeleted == \A c \in acked : rows[c] = Absent

\* The same sentence, for a DELETE whose database call failed after Docker
\* had removed the container: sending it again should remove the row.
DeleteConverges ==
    \A c \in ContainerIds :
        /\ rows[c] # Absent
        /\ ~Exists(rows[c].dockerID)
        ~> rows[c] = Absent

\* README.md:7: "Every user's containers and files are isolated from each
\* other".  A name should only be refused because of the user's own container.
CreateRefusedByOwnContainers ==
    [][\A j \in JobIds : At(j, "create") /\ UNCHANGED <<docker, faults, crashes>>
            /\ worker'[j] = Failed(j)[j]
        => \A d \in DockerIds :
            Exists(d) /\ docker[d].name = worker[j].name =>
                \/ \E c \in ContainerIds : /\ minted[c] # Absent
                                           /\ minted[c].dockerID = d
                                           /\ minted[c].user = worker[j].job.user
                \/ \E k \in JobIds : /\ worker[k] # Absent
                                     /\ worker[k].dockerID = d
                                     /\ worker[k].job.user = worker[j].job.user
      ]_vars

=============================================================================
