------------------------ MODULE ContainerFaultProofs ------------------------
(***************************************************************************)
(* Proofs about what failing calls cost ContainerService, and about what   *)
(* holds as long as none fails, for every value of the constants.  They    *)
(* rest on the inductive invariant of ContainerServiceProofs and add to it *)
(* what the goroutines and requests know when few calls have failed.       *)
(***************************************************************************)
EXTENDS ContainerServiceProofs

-----------------------------------------------------------------------------
(* Which step changes what.                                                *)

\* Failures are only ever counted up.
LEMMA CountsGrow ==
    ASSUME TypeOK, [Next]_vars
    PROVE  /\ faults \in Nat /\ faults' \in Nat /\ faults' >= faults
           /\ crashes \in Nat /\ crashes' \in Nat /\ crashes' >= crashes
<1>1. faults \in Nat /\ crashes \in Nat
  BY BoundsAssumption DEF TypeOK
<1>2. \/ crashes' = crashes
      \/ crashes' = crashes + 1
  BY DEF Next, RunCreateJob, Serve, CreateAsync, MarkRunning, RuntimeCreate,
         SaveContainer, Rollback, RecordFinal, GetOwned, Runtime, UpdateRow,
         DeleteRow, ContainerExits, CrashRestart, vars
<1>3. \/ faults' = faults
      \/ faults' = faults + 1
  BY DEF Next, RunCreateJob, Serve, CreateAsync, MarkRunning, RuntimeCreate,
         SaveContainer, Rollback, RecordFinal, GetOwned, Runtime, UpdateRow,
         DeleteRow, ContainerExits, CrashRestart, vars, Call, DockerCall
<1>4. QED
  BY <1>1, <1>2, <1>3

\* A container Docker has is changed by a request that works on it, by the
\* goroutine that takes it back, or by itself.
LEMMA DockerSteps ==
    ASSUME TypeOK, HoldersHaveID, [Next]_vars, NEW d \in DockerIds,
           docker[d] # Absent, docker'[d] # docker[d]
    PROVE  \/ \E t \in Threads : Runtime(t) /\ thread[t].c.dockerID = d
           \/ \E j \in JobIds : Rollback(j) /\ worker[j].dockerID = d
           \/ ContainerExits(d)
<1>1. ASSUME NEW op \in {"start", "stop", "delete"}, NEW e \in DockerIds,
             NEW o \in Outcomes, DockerCall(op, e, o)
      PROVE  e = d
  BY <1>1, DockerCallType
<1>2. ASSUME NEW j \in JobIds, RuntimeCreate(j)
      PROVE  FALSE
  BY <1>2 DEF RuntimeCreate, Upsert, TypeOK
<1>3. ASSUME NEW j \in JobIds, Rollback(j)
      PROVE  worker[j].dockerID = d
  BY <1>1, <1>3 DEF Rollback, HoldersHaveID
<1>4. ASSUME NEW t \in Threads, Runtime(t)
      PROVE  thread[t].c.dockerID = d
  <2>1. /\ thread[t].op \in {"start", "stop", "delete"}
        /\ thread[t].c.dockerID \in DockerIds
    BY <1>4 DEF Runtime, TypeOK, Request, Container
  <2>2. QED
    BY <1>1, <1>4, <2>1 DEF Runtime
<1>5. ASSUME NEW e \in DockerIds, ContainerExits(e)
      PROVE  e = d
  BY <1>5 DEF ContainerExits, TypeOK
<1>6. QED
  BY <1>2, <1>3, <1>4, <1>5
  DEF Next, RunCreateJob, Serve, CreateAsync, MarkRunning, SaveContainer,
      RecordFinal, GetOwned, UpdateRow, DeleteRow, CrashRestart, vars

\* A row is written by Start and Stop, deleted by Delete, or saved by Create.
LEMMA RowSteps ==
    ASSUME TypeOK, [Next]_vars, NEW c \in ContainerIds, rows'[c] # rows[c]
    PROVE  \/ \E t \in Threads : /\ UpdateRow(t)
                                 /\ thread[t].id = c
                                 /\ rows'[c] = thread[t].c
           \/ \E t \in Threads : /\ DeleteRow(t)
                                 /\ thread[t].id = c
                                 /\ rows'[c] = Absent
           \/ \E j \in JobIds :
                /\ SaveContainer(j)
                /\ minted[c] = Absent
                /\ rows'[c] = NewContainer(worker[j].job.user,
                                           worker[j].dockerID)
<1>1. ASSUME NEW t \in Threads, UpdateRow(t)
      PROVE  thread[t].id = c /\ rows'[c] = thread[t].c
  BY <1>1 DEF UpdateRow, Upsert, TypeOK
<1>2. ASSUME NEW t \in Threads, DeleteRow(t)
      PROVE  thread[t].id = c /\ rows'[c] = Absent
  BY <1>2 DEF DeleteRow, Upsert, TypeOK
<1>3. ASSUME NEW j \in JobIds, SaveContainer(j)
      PROVE  /\ minted[c] = Absent
             /\ rows'[c] = NewContainer(worker[j].job.user, worker[j].dockerID)
  BY <1>3 DEF SaveContainer, Upsert, TypeOK
<1>4. QED
  BY <1>1, <1>2, <1>3
  DEF Next, RunCreateJob, Serve, CreateAsync, MarkRunning, RuntimeCreate,
      Rollback, RecordFinal, GetOwned, Runtime, ContainerExits, CrashRestart,
      vars

\* A goroutine is moved by its own step, or lost in a crash.
LEMMA WorkerSteps ==
    ASSUME TypeOK, [Next]_vars, NEW j \in JobIds, worker[j] # Absent,
           worker'[j] # worker[j], jobs[j] # Absent
    PROVE  RunCreateJob(j) \/ CrashRestart
<1>1. ASSUME NEW u \in Users, NEW n \in Names, CreateAsync(u, n)
      PROVE  FALSE
  BY <1>1 DEF CreateAsync, TypeOK
<1>2. ASSUME NEW k \in JobIds, RunCreateJob(k)
      PROVE  k = j
  BY <1>2
  DEF RunCreateJob, MarkRunning, RuntimeCreate, OnConflict, Failed,
      SaveContainer, Succeeded, SaveFailed, Rollback, RecordFinal, Finished,
      TypeOK
<1>3. QED
  BY <1>1, <1>2
  DEF Next, Serve, GetOwned, Runtime, UpdateRow, DeleteRow, ContainerExits,
      vars

\* A request is begun by getOwned and moved by its own step.
LEMMA ThreadSteps ==
    ASSUME TypeOK, [Next]_vars, NEW t \in Threads,
           thread'[t] # thread[t], thread'[t] # Absent
    PROVE  \/ Runtime(t)
           \/ \E u \in Users, c \in ContainerIds,
                 op \in {"start", "stop", "delete"} : GetOwned(t, u, op, c)
<1>1. ASSUME NEW s \in Threads, NEW u \in Users, NEW c \in ContainerIds,
             NEW op \in {"start", "stop", "delete"}, GetOwned(s, u, op, c)
      PROVE  s = t
  BY <1>1 DEF GetOwned, TypeOK
<1>2. ASSUME NEW s \in Threads, Runtime(s)
      PROVE  s = t
  BY <1>2 DEF Runtime, TypeOK
<1>3. ASSUME NEW s \in Threads, UpdateRow(s) \/ DeleteRow(s)
      PROVE  FALSE
  BY <1>3 DEF UpdateRow, DeleteRow, TypeOK
<1>4. ~CrashRestart
  BY DEF CrashRestart
<1>5. QED
  BY <1>1, <1>2, <1>3, <1>4
  DEF Next, RunCreateJob, Serve, CreateAsync, MarkRunning, RuntimeCreate,
      SaveContainer, Rollback, RecordFinal, ContainerExits, vars

-----------------------------------------------------------------------------
(* Create's compensating Remove.                                           *)

\* What it takes to leave an orphan behind.
DoubleFault == \/ crashes > 0
               \/ faults >= 2
               \/ faults >= 1 /\ "unanswered" \in FaultModes

Holding(j) == At(j, "save") \/ At(j, "rollback")

\* Until its row is saved nobody else touches the container a goroutine holds:
\* no row and no request names it, and it was never started.  A goroutine
\* rolls back because a call has failed already.
HeldUntouched ==
    \A j \in JobIds :
        /\ At(j, "rollback") => faults >= 1
        /\ ~DoubleFault /\ Holding(j) =>
            LET d == worker[j].dockerID
            IN  /\ docker[d].state = "created"
                /\ \A c \in ContainerIds :
                    rows[c] # Absent => rows[c].dockerID # d
                /\ \A t \in Threads :
                    thread[t] # Absent => thread[t].c.dockerID # d

\* A double fault is never forgotten.
LEMMA DoubleFaultStays ==
    ASSUME TypeOK, [Next]_vars, DoubleFault
    PROVE  DoubleFault'
BY CountsGrow DEF DoubleFault

\* A call that failed without a double fault was the first to fail, and had no
\* effect.
LEMMA FirstFault ==
    ASSUME TypeOK, NEW o \in Outcomes, Call(o), ~DoubleFault', o # "ok"
    PROVE  o = "refused" /\ faults = 0 /\ faults' = 1
BY BoundsAssumption, ModesAssumption DEF TypeOK, Call, Outcomes, DoubleFault

\* A goroutine that holds a container has the ID of one Docker knows, and a
\* job in the table.
LEMMA HeldInDocker ==
    ASSUME IInv, NEW j \in JobIds, Holding(j)
    PROVE  /\ worker[j] \in Worker
           /\ worker[j] # Absent
           /\ jobs[j] # Absent
           /\ worker[j].dockerID \in DockerIds
           /\ docker[worker[j].dockerID] # Absent
           /\ \A k \in JobIds :
                Holding(k) /\ worker[k].dockerID = worker[j].dockerID => k = j
<1>1. worker[j] \in Worker /\ worker[j] # Absent /\ jobs[j] # Absent
  BY DEF Holding, At, IInv, TypeOK, WorkersTrackJobs, Tracks
<1>2. Holds(j, worker[j].dockerID)
  BY DEF Holding, Holds
<1>3. worker[j].dockerID \in DockerIds \cup {Absent}
  BY <1>1 DEF Worker
<1>4. QED
  BY <1>1, <1>2, <1>3 DEF IInv, WorkersHoldFresh, Holding, Holds

\* A row names a container Docker has, or had.
LEMMA RowInDocker ==
    ASSUME IInv, NEW c \in ContainerIds, rows[c] # Absent
    PROVE  /\ minted[c] # Absent
           /\ rows[c].dockerID = minted[c].dockerID
           /\ rows[c].user = minted[c].user
           /\ rows[c].dockerID \in DockerIds
           /\ docker[rows[c].dockerID] # Absent
BY DEF IInv, IdentityStable, SameIdentity, MintedInDocker, TypeOK, Container

\* The row Create saves names the container it holds.
LEMMA SavedRow ==
    ASSUME IInv, NEW j \in JobIds, At(j, "save")
    PROVE  LET row == NewContainer(worker[j].job.user, worker[j].dockerID)
           IN  /\ row \in Container
               /\ row # Absent
               /\ row.dockerID = worker[j].dockerID
               /\ row.user = worker[j].job.user
               /\ row.status = "created"
<1>1. NewContainer(worker[j].job.user, worker[j].dockerID) \in Container
  BY NewContainerType, FreshHaveID DEF IInv
<1>2. QED
  BY <1>1, AbsentAssumption DEF NewContainer

\* The container held by a goroutine that stays where it is stays untouched:
\* every step that could touch it needs a row or a request that names it.
LEMMA HeldStaysUntouched ==
    ASSUME IInv, HeldUntouched, [Next]_vars, ~DoubleFault',
           NEW j \in JobIds, Holding(j), worker'[j] = worker[j]
    PROVE  LET d == worker[j].dockerID
           IN  /\ docker'[d].state = "created"
               /\ \A c \in ContainerIds :
                    rows'[c] # Absent => rows'[c].dockerID # d
               /\ \A t \in Threads :
                    thread'[t] # Absent => thread'[t].c.dockerID # d
<1> DEFINE d == worker[j].dockerID
<1>1. /\ docker[d].state = "created"
      /\ \A c \in ContainerIds : rows[c] # Absent => rows[c].dockerID # d
      /\ \A t \in Threads : thread[t] # Absent => thread[t].c.dockerID # d
  BY DoubleFaultStays DEF HeldUntouched, IInv
<1>2. /\ TypeOK /\ HoldersHaveID /\ d \in DockerIds /\ docker[d] # Absent
      /\ worker[j] \in Worker
      /\ \A k \in JobIds : Holding(k) /\ worker[k].dockerID = d => k = j
  BY HeldInDocker, FreshHaveID DEF IInv
<1>3. ASSUME SaveContainer(j) \/ Rollback(j)
      PROVE  FALSE
  BY <1>2, <1>3
  DEF SaveContainer, Rollback, Succeeded, SaveFailed, Failed, At, Worker,
      TypeOK
<1>4. docker'[d] = docker[d]
  <2> SUFFICES ASSUME docker'[d] # docker[d] PROVE FALSE
    OBVIOUS
  <2>1. ASSUME NEW t \in Threads, Runtime(t), thread[t].c.dockerID = d
        PROVE  FALSE
    BY <1>1, <2>1 DEF Runtime
  <2>2. ASSUME NEW k \in JobIds, Rollback(k), worker[k].dockerID = d
        PROVE  FALSE
    BY <1>2, <1>3, <2>2 DEF Rollback, Holding
  <2>3. ~ContainerExits(d)
    BY <1>1 DEF ContainerExits
  <2>4. QED
    BY <1>2, <2>1, <2>2, <2>3, DockerSteps
<1>5. ASSUME NEW c \in ContainerIds, rows'[c] # Absent, rows'[c].dockerID = d
      PROVE  FALSE
  <2>1. rows'[c] # rows[c]
    BY <1>1, <1>5
  <2>2. ASSUME NEW t \in Threads, UpdateRow(t), rows'[c] = thread[t].c
        PROVE  FALSE
    BY <1>1, <1>5, <2>2 DEF UpdateRow
  <2>3. ASSUME NEW k \in JobIds, SaveContainer(k),
               rows'[c] = NewContainer(worker[k].job.user, worker[k].dockerID)
        PROVE  FALSE
    <3>1. At(k, "save") /\ worker[k].dockerID = d
      BY <1>5, <2>3, SavedRow DEF SaveContainer
    <3>2. k = j
      BY <1>2, <3>1 DEF Holding
    <3>3. QED
      BY <1>3, <2>3, <3>2
  <2>4. QED
    BY <1>2, <1>5, <2>1, <2>2, <2>3, RowSteps
<1>6. ASSUME NEW t \in Threads, thread'[t] # Absent,
             thread'[t].c.dockerID = d
      PROVE  FALSE
  <2>1. thread'[t] # thread[t]
    BY <1>1, <1>6
  <2>2. ASSUME Runtime(t)
        PROVE  FALSE
    <3>1. thread[t] \in Request /\ thread[t] # Absent
      BY <1>2, <2>2 DEF Runtime, TypeOK
    <3>2. thread'[t].c.dockerID = thread[t].c.dockerID
      BY <1>2, <1>6, <2>2, <3>1 DEF Runtime, TypeOK, Request, Container
    <3>3. QED
      BY <1>1, <1>6, <3>1, <3>2
  <2>3. ASSUME NEW u \in Users, NEW c \in ContainerIds,
               NEW op \in {"start", "stop", "delete"}, GetOwned(t, u, op, c)
        PROVE  FALSE
    BY <1>1, <1>2, <1>6, <2>3 DEF GetOwned, Owned, TypeOK
  <2>4. QED
    BY <1>2, <1>6, <2>1, <2>2, <2>3, ThreadSteps
<1>7. QED
  BY <1>1, <1>4, <1>5, <1>6

\* A goroutine takes hold of a container by creating it, under an ID nobody
\* knows, and starts to roll back when it could not be saved.
LEMMA HeldBeginsUntouched ==
    ASSUME IInv, HeldUntouched, [Next]_vars,
           NEW j \in JobIds, Holding(j)', worker'[j] # worker[j]
    PROVE  /\ At(j, "rollback")' => faults' >= 1
           /\ ~DoubleFault' =>
                LET d == worker'[j].dockerID
                IN  /\ docker'[d].state = "created"
                    /\ \A c \in ContainerIds :
                        rows'[c] # Absent => rows'[c].dockerID # d
                    /\ \A t \in Threads :
                        thread'[t] # Absent => thread'[t].c.dockerID # d
<1> DEFINE d == worker'[j].dockerID
<1>1. TypeOK
  BY DEF IInv
<1>2. \/ worker[j] # Absent /\ jobs[j] # Absent
      \/ worker[j] = Absent
  BY DEF IInv, WorkersTrackJobs, Tracks
<1>3. RuntimeCreate(j) \/ SaveContainer(j)
  <2>1. ASSUME NEW u \in Users, NEW n \in Names, CreateAsync(u, n)
        PROVE  FALSE
    BY <1>1, <2>1 DEF CreateAsync, Holding, At, TypeOK
  <2>2. ASSUME NEW k \in JobIds, RunCreateJob(k)
        PROVE  k = j
    BY <1>1, <2>2
    DEF RunCreateJob, MarkRunning, RuntimeCreate, OnConflict, Failed,
        SaveContainer, Succeeded, SaveFailed, Rollback, RecordFinal, Finished,
        TypeOK
  <2>3. ASSUME MarkRunning(j) \/ Rollback(j) \/ RecordFinal(j)
        PROVE  FALSE
    BY <1>1, <2>3
    DEF MarkRunning, Failed, Rollback, RecordFinal, Finished, Holding, At,
        TypeOK, Worker
  <2>4. ~CrashRestart
    BY DEF CrashRestart, Holding, At
  <2>5. QED
    BY <2>1, <2>2, <2>3, <2>4
    DEF Next, RunCreateJob, Serve, GetOwned, Runtime, UpdateRow, DeleteRow,
        ContainerExits, vars
<1>4. CASE RuntimeCreate(j)
  <2>1. worker[j] \in Worker
    BY <1>1, <1>4 DEF RuntimeCreate, At, TypeOK
  <2>2. worker' # Failed(j)
    BY <1>1, <2>1 DEF Failed, Holding, At, TypeOK, Worker
  <2>3. PICK e \in DockerIds :
          /\ docker[e] = Absent
          /\ docker' = [docker EXCEPT ![e] = [name |-> worker[j].name,
                                              state |-> "created"]]
          /\ worker' = [worker EXCEPT ![j].pc = "save", ![j].dockerID = e]
    BY <1>4, <2>2 DEF RuntimeCreate, OnConflict, Upsert, Applied
  <2>4. d = e /\ worker'[j].pc = "save" /\ docker'[d].state = "created"
    BY <1>1, <2>1, <2>3 DEF TypeOK, Worker
  <2>5. rows' = rows /\ thread' = thread
    BY <1>4 DEF RuntimeCreate
  <2>6. \A c \in ContainerIds : rows[c] # Absent => rows[c].dockerID # d
    BY <2>3, <2>4, RowInDocker
  <2>7. \A t \in Threads : thread[t] # Absent => thread[t].c.dockerID # d
    BY <2>3, <2>4, RequestInDocker DEF IInv
  <2>8. QED
    BY <2>4, <2>5, <2>6, <2>7 DEF At
<1>5. CASE SaveContainer(j)
  <2>1. worker[j] \in Worker /\ At(j, "save") /\ Holding(j)
    BY <1>1, <1>5 DEF SaveContainer, Holding, At, TypeOK
  <2>2. PICK c \in ContainerIds, o \in Outcomes :
          /\ Call(o)
          /\ rows' = Upsert(rows, c, NewContainer(worker[j].job.user,
                                                  worker[j].dockerID), o)
          /\ worker' = IF o = "ok" THEN Succeeded(j, c) ELSE SaveFailed(j)
    BY <1>5 DEF SaveContainer
  <2>3. o # "ok"
    BY <1>1, <2>1, <2>2 DEF Succeeded, Holding, At, TypeOK, Worker
  <2>4. d = worker[j].dockerID
    BY <1>1, <2>1, <2>2, <2>3 DEF SaveFailed, TypeOK, Worker
  <2>5. faults' >= 1
    BY <1>1, <2>2, <2>3, BoundsAssumption DEF Call, TypeOK
  <2>6. ASSUME ~DoubleFault'
        PROVE  rows' = rows /\ ~DoubleFault
    BY <1>1, <2>2, <2>3, <2>6, FirstFault, DoubleFaultStays
    DEF Upsert, Applied
  <2>7. docker' = docker /\ thread' = thread
    BY <1>5 DEF SaveContainer
  <2>8. QED
    BY <2>1, <2>4, <2>5, <2>6, <2>7 DEF HeldUntouched
<1>6. QED
  BY <1>3, <1>4, <1>5

\* Every step leaves alone what a goroutine holds.
LEMMA NextHeldUntouched ==
    ASSUME IInv, HeldUntouched, [Next]_vars
    PROVE  HeldUntouched'
<1> SUFFICES ASSUME NEW j \in JobIds
             PROVE  /\ At(j, "rollback")' => faults' >= 1
                    /\ ~DoubleFault' /\ Holding(j)' =>
                        LET d == worker'[j].dockerID
                        IN  /\ docker'[d].state = "created"
                            /\ \A c \in ContainerIds :
                                rows'[c] # Absent => rows'[c].dockerID # d
                            /\ \A t \in Threads :
                                thread'[t] # Absent =>
                                    thread'[t].c.dockerID # d
  BY DEF HeldUntouched
<1>1. CASE worker'[j] = worker[j]
  <2>1. At(j, "rollback")' => faults' >= 1
    BY <1>1, CountsGrow DEF HeldUntouched, At, IInv
  <2>2. Holding(j)' => Holding(j)
    BY <1>1 DEF Holding, At
  <2>3. QED
    BY <1>1, <2>1, <2>2, HeldStaysUntouched
<1>2. CASE worker'[j] # worker[j]
  BY <1>2, HeldBeginsUntouched DEF Holding
<1>3. QED
  BY <1>1, <1>2

\* A container gets no orphan without a double fault: it is born in the hands
\* of a goroutine, which passes it on to its row or removes it, and the row
\* outlives it.
LEMMA NextNoOrphan ==
    ASSUME IInv, IInv', HeldUntouched, NoOrphanWithoutDoubleFault, [Next]_vars
    PROVE  NoOrphanWithoutDoubleFault'
<1> SUFFICES ASSUME NEW d \in DockerIds, Orphan(d)', ~DoubleFault'
             PROVE  FALSE
  BY DEF NoOrphanWithoutDoubleFault, DoubleFault
<1>1. TypeOK /\ HoldersHaveID /\ ~DoubleFault /\ ~Orphan(d)
  BY FreshHaveID, DoubleFaultStays
  DEF IInv, NoOrphanWithoutDoubleFault, DoubleFault
<1>2. /\ docker'[d] # Absent
      /\ docker'[d].state # "removed"
      /\ \A c \in ContainerIds : rows'[c] # Absent => rows'[c].dockerID # d
      /\ \A j \in JobIds : Holding(j)' => worker'[j].dockerID # d
  BY DEF Orphan, Exists, Holding
<1>3. CASE docker[d] = Absent
  <2>1. ASSUME NEW op \in {"start", "stop", "delete"}, NEW e \in DockerIds,
               NEW o \in Outcomes, DockerCall(op, e, o)
        PROVE  FALSE
    BY <1>1, <1>2, <1>3, <2>1, DockerCallType DEF Exists
  <2>2. ASSUME NEW j \in JobIds, RuntimeCreate(j)
        PROVE  FALSE
    <3>1. PICK e \in DockerIds, o \in Outcomes :
            /\ Call(o)
            /\ docker' = Upsert(docker, e, [name |-> worker[j].name,
                                            state |-> "created"], o)
            /\ worker' = IF o = "ok"
                         THEN [worker EXCEPT ![j].pc = "save",
                                             ![j].dockerID = e]
                         ELSE Failed(j)
      BY <1>2, <1>3, <2>2 DEF RuntimeCreate
    <3>2. Applied(o) /\ e = d
      BY <1>1, <1>2, <1>3, <3>1 DEF Upsert, TypeOK
    <3>3. o = "ok"
      BY <1>1, <3>1, <3>2, FirstFault DEF Applied
    <3>4. worker'[j].pc = "save" /\ worker'[j].dockerID = d
          /\ worker'[j] # Absent
      <4>1. worker[j] \in Worker
        BY <1>1, <2>2 DEF RuntimeCreate, At, TypeOK
      <4>2. worker'[j] \in Worker
        BY <1>1, <3>1, <3>3, <4>1 DEF TypeOK, Worker
      <4>3. QED
        BY <1>1, <3>1, <3>2, <3>3, <4>1, <4>2, AbsentAssumption
        DEF TypeOK, Worker
    <3>5. QED
      BY <1>2, <3>4 DEF Holding, At
  <2>3. ASSUME NEW j \in JobIds, Rollback(j)
        PROVE  FALSE
    BY <1>1, <2>1, <2>3 DEF Rollback, HoldersHaveID
  <2>4. ASSUME NEW t \in Threads, Runtime(t)
        PROVE  FALSE
    <3>1. /\ thread[t].op \in {"start", "stop", "delete"}
          /\ thread[t].c.dockerID \in DockerIds
      BY <1>1, <2>4 DEF Runtime, TypeOK, Request, Container
    <3>2. QED
      BY <2>1, <2>4, <3>1 DEF Runtime
  <2>5. ASSUME NEW e \in DockerIds, ContainerExits(e)
        PROVE  FALSE
    BY <1>1, <1>2, <1>3, <2>5 DEF ContainerExits, Exists, TypeOK
  <2>6. QED
    BY <1>2, <1>3, <2>2, <2>3, <2>4, <2>5
    DEF Next, RunCreateJob, Serve, CreateAsync, MarkRunning, SaveContainer,
        RecordFinal, GetOwned, UpdateRow, DeleteRow, CrashRestart, vars
<1>4. CASE docker[d] # Absent
  <2>1. Exists(d)
    BY <1>1, <1>2, <1>4, DockerMonotone DEF Exists
  <2>2. ASSUME NEW c \in ContainerIds, rows[c] # Absent, rows[c].dockerID = d
        PROVE  FALSE
    <3>1. rows'[c] # rows[c]
      BY <1>2, <2>2
    <3>2. minted[c] # Absent /\ minted[c].dockerID = d
      BY <2>2, RowInDocker
    <3>3. ASSUME NEW t \in Threads, UpdateRow(t), thread[t].id = c,
                 rows'[c] = thread[t].c
          PROVE  FALSE
      <4>1. thread[t] \in Request /\ thread[t].c # Absent
        BY <1>1, <3>3, AbsentAssumption DEF UpdateRow, TypeOK, Request
      <4>2. thread[t].c.dockerID = d
        BY <3>2, <3>3, RequestInDocker DEF UpdateRow, IInv
      <4>3. QED
        BY <1>2, <3>3, <4>1, <4>2
    <3>4. ASSUME NEW t \in Threads, DeleteRow(t), thread[t].id = c
          PROVE  FALSE
      <4>1. thread[t].c.dockerID = d
        BY <3>2, <3>4, RequestInDocker DEF DeleteRow, IInv
      <4>2. QED
        BY <2>1, <3>4, <4>1 DEF DeleteRow, IInv, DeletersRemoved, Exists
    <3>5. QED
      BY <1>1, <3>1, <3>2, <3>3, <3>4, RowSteps
  <2>3. ASSUME NEW j \in JobIds, Holding(j), worker[j].dockerID = d
        PROVE  FALSE
    <3>1. worker'[j] # worker[j]
      BY <1>2, <2>3 DEF Holding, At
    <3>2. worker[j] \in Worker /\ worker[j] # Absent /\ jobs[j] # Absent
      BY <2>3, HeldInDocker
    <3>3. ASSUME SaveContainer(j)
          PROVE  FALSE
      <4> DEFINE row == NewContainer(worker[j].job.user, worker[j].dockerID)
      <4>1. PICK c \in ContainerIds, o \in Outcomes :
              /\ rows' = Upsert(rows, c, row, o)
              /\ worker' = IF o = "ok" THEN Succeeded(j, c) ELSE SaveFailed(j)
        BY <3>3 DEF SaveContainer
      <4>2. row # Absent /\ row.dockerID = d
        BY <2>3, <3>3, SavedRow DEF SaveContainer
      <4>3. CASE o = "ok"
        <5>1. rows'[c] = row
          BY <1>1, <4>1, <4>3 DEF Upsert, Applied, TypeOK
        <5>2. QED
          BY <1>2, <4>2, <5>1
      <4>4. CASE o # "ok"
        <5>1. worker'[j].pc = "rollback" /\ worker'[j].dockerID = d
          BY <1>1, <2>3, <3>2, <4>1, <4>4 DEF SaveFailed, TypeOK, Worker
        <5>2. worker'[j] # Absent
          <6>1. worker'[j] = [worker[j] EXCEPT !.pc = "rollback"]
            BY <1>1, <4>1, <4>4 DEF SaveFailed, TypeOK
          <6>2. worker'[j] \in Worker
            BY <3>2, <6>1 DEF Worker
          <6>3. QED
            BY <6>2, AbsentAssumption
        <5>3. QED
          BY <1>2, <5>1, <5>2 DEF Holding, At
      <4>5. QED
        BY <4>3, <4>4
    <3>4. ASSUME Rollback(j)
          PROVE  FALSE
      <4>1. PICK o \in Outcomes : DockerCall("delete", d, o)
        BY <2>3, <3>4 DEF Rollback
      <4>2. faults >= 1 /\ docker[d].state = "created"
        BY <1>1, <2>3, <3>4 DEF Rollback, HeldUntouched
      <4>3. o = "ok"
        BY <1>1, <4>1, <4>2, FirstFault DEF DockerCall
      <4>4. Succeeds("delete", d, o)
        BY <2>1, <4>2, <4>3 DEF Succeeds, DockerAccepts
      <4>5. QED
        BY <1>1, <1>2, <4>1, <4>4, RemoveRemoves
    <3>5. ASSUME MarkRunning(j) \/ RuntimeCreate(j) \/ RecordFinal(j)
          PROVE  FALSE
      BY <2>3, <3>5 DEF MarkRunning, RuntimeCreate, RecordFinal, Holding, At
    <3>6. ASSUME CrashRestart
          PROVE  FALSE
      BY <1>1, <3>6, CountsGrow DEF CrashRestart, DoubleFault, TypeOK
    <3>7. QED
      BY <1>1, <3>1, <3>2, <3>3, <3>4, <3>5, <3>6, WorkerSteps
      DEF RunCreateJob
  <2>4. QED
    BY <1>1, <2>1, <2>2, <2>3 DEF Orphan, Holding
<1>5. QED
  BY <1>3, <1>4

\* It takes a crash, two failing calls, or one call done but never answered to
\* leave a container in Docker that no row names and no goroutine will remove.
THEOREM RollbackWorks == Spec => []NoOrphanWithoutDoubleFault
<1>1. Init => HeldUntouched /\ NoOrphanWithoutDoubleFault
  BY DEF Init, HeldUntouched, Holding, At, NoOrphanWithoutDoubleFault, Orphan,
         Exists
<1>2. /\ IInv /\ IInv' /\ HeldUntouched /\ NoOrphanWithoutDoubleFault
      /\ [Next]_vars
      => HeldUntouched' /\ NoOrphanWithoutDoubleFault'
  BY NextHeldUntouched, NextNoOrphan
<1>3. QED
  BY <1>1, <1>2, Invariance, PTL DEF Spec

-----------------------------------------------------------------------------
(* As long as nothing fails: what jobs report.                             *)

\* No failure is ever undone, and a call that did not fail was answered.
LEMMA StillNoFailures ==
    ASSUME TypeOK, [Next]_vars, NoFailures'
    PROVE  NoFailures /\ \A o \in Outcomes : Call(o) => o = "ok"
<1>1. NoFailures
  BY CountsGrow DEF NoFailures
<1>2. ASSUME NEW o \in Outcomes, Call(o)
      PROVE  o = "ok"
  BY <1>2, CountsGrow DEF NoFailures, Call, Outcomes
<1>3. QED
  BY <1>1, <1>2

\* Job j, in the table or in its goroutine's hands, names container c and its
\* owner.
Reports(j, c) ==
    \/ jobs[j] # Absent /\ jobs[j].containerID = c
                        /\ jobs[j].user = minted[c].user
    \/ worker[j] # Absent /\ worker[j].job.containerID = c
                          /\ worker[j].job.user = minted[c].user

\* Stronger than EveryRowReported, for a deleted row may be written again.
MintedReported ==
    NoFailures => \A c \in ContainerIds : minted[c] # Absent =>
                    \E j \in JobIds : Reports(j, c)

\* A job goes on naming the container it named.
LEMMA ReportStays ==
    ASSUME IInv, IInv', [Next]_vars, NoFailures',
           NEW j \in JobIds, NEW c \in ContainerIds,
           minted[c] # Absent, Reports(j, c)
    PROVE  Reports(j, c)'
<1>1. /\ TypeOK
      /\ minted'[c] = minted[c]
      /\ c # Absent
      /\ crashes' = 0
  BY MintedOnce, AbsentAssumption DEF IInv, NoFailures
<1>2. CASE jobs[j] # Absent /\ jobs[j].containerID = c
                            /\ jobs[j].user = minted[c].user
  <2>1. worker[j] = Absent
    BY <1>1, <1>2 DEF IInv, WorkersTrackJobs, Tracks
  <2>2. jobs'[j] = jobs[j]
    <3>1. ASSUME NEW u \in Users, NEW n \in Names, CreateAsync(u, n)
          PROVE  jobs'[j] = jobs[j]
      BY <1>1, <1>2, <3>1 DEF CreateAsync, Upsert, TypeOK
    <3>2. ASSUME NEW k \in JobIds, MarkRunning(k) \/ RecordFinal(k)
          PROVE  jobs'[j] = jobs[j]
      BY <1>1, <2>1, <3>2 DEF MarkRunning, RecordFinal, At, Upsert, TypeOK
    <3>3. QED
      BY <3>1, <3>2
      DEF Next, RunCreateJob, Serve, RuntimeCreate, SaveContainer, Rollback,
          GetOwned, Runtime, UpdateRow, DeleteRow, ContainerExits,
          CrashRestart, vars
  <2>3. QED
    BY <1>1, <1>2, <2>2 DEF Reports
<1>3. CASE worker[j] # Absent /\ worker[j].job.containerID = c
                              /\ worker[j].job.user = minted[c].user
  <2>1. At(j, "record") /\ jobs[j] # Absent /\ worker[j] \in Worker
    BY <1>1, <1>3 DEF IInv, WorkersTrackJobs, Tracks, TypeOK
  <2>2. CASE worker'[j] = worker[j]
    BY <1>1, <1>3, <2>2 DEF Reports
  <2>3. CASE RecordFinal(j)
    <3>1. PICK o \in Outcomes :
            Call(o) /\ jobs' = Upsert(jobs, j, worker[j].job, o)
      BY <2>3 DEF RecordFinal
    <3>2. jobs'[j] = worker[j].job /\ worker[j].job # Absent
      BY <1>1, <2>1, <3>1, StillNoFailures, AbsentAssumption
      DEF Upsert, Applied, TypeOK, Worker
    <3>3. QED
      BY <1>1, <1>3, <3>2 DEF Reports
  <2>4. ASSUME \/ MarkRunning(j) \/ RuntimeCreate(j) \/ SaveContainer(j)
               \/ Rollback(j)
        PROVE  FALSE
    BY <2>1, <2>4
    DEF MarkRunning, RuntimeCreate, SaveContainer, Rollback, At
  <2>5. ~CrashRestart
    BY <1>1, CountsGrow DEF CrashRestart
  <2>6. QED
    BY <1>1, <1>3, <2>1, <2>2, <2>3, <2>4, <2>5, WorkerSteps DEF RunCreateJob
<1>4. QED
  BY <1>2, <1>3 DEF Reports

\* A goroutine that saved a container names it from then on.
LEMMA NextMintedReported ==
    ASSUME IInv, IInv', MintedReported, [Next]_vars
    PROVE  MintedReported'
<1> SUFFICES ASSUME NoFailures', NEW c \in ContainerIds, minted'[c] # Absent
             PROVE  \E j \in JobIds : Reports(j, c)'
  BY DEF MintedReported
<1>1. TypeOK /\ NoFailures
  BY StillNoFailures DEF IInv
<1>2. CASE minted[c] # Absent
  BY <1>1, <1>2, ReportStays DEF MintedReported
<1>3. CASE minted[c] = Absent
  <2>1. PICK j \in JobIds : SaveContainer(j)
    BY <1>3
    DEF Next, RunCreateJob, Serve, CreateAsync, MarkRunning, RuntimeCreate,
        Rollback, RecordFinal, GetOwned, Runtime, UpdateRow, DeleteRow,
        ContainerExits, CrashRestart, vars
  <2>2. PICK b \in ContainerIds, o \in Outcomes :
          /\ Call(o)
          /\ minted' = [minted EXCEPT ![b] =
                NewContainer(worker[j].job.user, worker[j].dockerID)]
          /\ worker' = IF o = "ok" THEN Succeeded(j, b) ELSE SaveFailed(j)
    BY <2>1 DEF SaveContainer
  <2>3. b = c /\ o = "ok"
    BY <1>1, <1>3, <2>2, StillNoFailures DEF TypeOK
  <2>4. worker[j] \in Worker
    BY <1>1, <2>1 DEF SaveContainer, At, TypeOK
  <2> DEFINE job == [worker[j].job EXCEPT !.status = "success",
                                          !.containerID = c]
  <2>5. job \in Job /\ job.containerID = c /\ job.user = worker[j].job.user
    BY <2>4 DEF Worker, Job, JobStatus
  <2>6. worker'[j] = [worker[j] EXCEPT !.pc = "record", !.job = job]
    BY <1>1, <2>2, <2>3, <2>4 DEF Succeeded, TypeOK, Worker, Job
  <2>7. worker'[j] # Absent /\ worker'[j].job = job
    <3>1. worker'[j] \in Worker /\ worker'[j].job = job
      BY <2>4, <2>5, <2>6 DEF Worker
    <3>2. QED
      BY <3>1, AbsentAssumption
  <2>8. minted'[c].user = worker[j].job.user
    BY <1>1, <2>2, <2>3 DEF TypeOK, NewContainer
  <2>9. QED
    BY <2>5, <2>7, <2>8 DEF Reports
<1>4. QED
  BY <1>2, <1>3

\* When nothing fails, every row was reported by a job of its owner, or is
\* about to be by the goroutine that saved it.
THEOREM RowsAreReported == Spec => []EveryRowReported
<1>1. Init => MintedReported
  BY DEF Init, MintedReported
<1>2. IInv /\ IInv' /\ MintedReported /\ [Next]_vars => MintedReported'
  BY NextMintedReported
<1>3. IInv /\ MintedReported => EveryRowReported
  <2> SUFFICES ASSUME IInv, MintedReported, NoFailures,
                      NEW c \in ContainerIds, rows[c] # Absent
               PROVE  \E j \in JobIds :
                        \/ /\ jobs[j] # Absent
                           /\ jobs[j].containerID = c
                           /\ jobs[j].user = rows[c].user
                        \/ /\ worker[j] # Absent
                           /\ worker[j].job.containerID = c
                           /\ worker[j].job.user = rows[c].user
    BY DEF EveryRowReported
  <2>1. minted[c] # Absent /\ rows[c].user = minted[c].user
    BY RowInDocker
  <2>2. QED
    BY <2>1 DEF MintedReported, Reports
<1>4. QED
  BY <1>1, <1>2, <1>3, Invariance, PTL DEF Spec

-----------------------------------------------------------------------------
(* As long as nothing fails: rows and Docker agree.                        *)

Agrees(row) == /\ Exists(row.dockerID)
               /\ docker[row.dockerID].state = "running"
                    => row.status = "running"

\* A request is about to write the row of container c.
Writing(t, c) == WorkingOn(t, c) /\ thread[t].pc = "repo"

\* The one request at work on container c still has the row as it is until
\* Docker answered, and from then on one that agrees with Docker again.
Serialized(c) ==
    /\ \A s, t \in Threads : WorkingOn(s, c) /\ WorkingOn(t, c) => s = t
    /\ \A t \in Threads :
        /\ WorkingOn(t, c) /\ thread[t].pc = "runtime" => rows[c] = thread[t].c
        /\ Writing(t, c) /\ thread[t].op # "delete" => Agrees(thread[t].c)
    /\ rows[c] # Absent /\ (\A t \in Threads : ~Writing(t, c))
        => Agrees(rows[c])

SerializedUnlessRaced ==
    NoFailures => \A c \in ContainerIds \ raced : Serialized(c)

\* A step that leaves the row of a container and the requests on it alone, and
\* does at most stop the container in Docker.
LEMMA SerializedFrame ==
    ASSUME IInv, NEW c \in ContainerIds, Serialized(c),
           rows'[c] = rows[c],
           \A t \in Threads : WorkingOn(t, c) \/ WorkingOn(t, c)'
                                => thread'[t] = thread[t],
           \A d \in DockerIds :
                minted[c] # Absent /\ minted[c].dockerID = d /\ Exists(d)
                    => \/ docker'[d] = docker[d]
                       \/ Exists(d)' /\ docker'[d].state # "running"
    PROVE  Serialized(c)'
<1>1. ASSUME NEW row \in Container, SameIdentity(c, row), Agrees(row)
      PROVE  Agrees(row)'
  <2>1. /\ row.dockerID \in DockerIds
        /\ minted[c] # Absent
        /\ minted[c].dockerID = row.dockerID
        /\ Exists(row.dockerID)
    BY <1>1 DEF Container, SameIdentity, Agrees
  <2>2. \/ docker'[row.dockerID] = docker[row.dockerID]
        \/ /\ Exists(row.dockerID)'
           /\ docker'[row.dockerID].state # "running"
    BY <2>1
  <2>3. QED
    BY <1>1, <2>2 DEF Agrees, Exists
<1>2. \A t \in Threads : /\ WorkingOn(t, c)' <=> WorkingOn(t, c)
                         /\ Writing(t, c)' <=> Writing(t, c)
  BY DEF WorkingOn, Writing
<1>3. \A s, t \in Threads :
        WorkingOn(s, c)' /\ WorkingOn(t, c)' => s = t
  BY <1>2 DEF Serialized
<1>4. ASSUME NEW t \in Threads, WorkingOn(t, c)'
      PROVE  /\ thread'[t].pc = "runtime" => rows'[c] = thread'[t].c
             /\ Writing(t, c)' /\ thread'[t].op # "delete"
                    => Agrees(thread[t].c)'
  <2>1. WorkingOn(t, c) /\ thread'[t] = thread[t]
    BY <1>2, <1>4
  <2>2. thread[t].c \in Container /\ SameIdentity(c, thread[t].c)
    BY <2>1 DEF IInv, TypeOK, Request, IdentityStable, WorkingOn
  <2>3. Writing(t, c)' /\ thread'[t].op # "delete" => Agrees(thread[t].c)
    BY <1>2, <2>1 DEF Serialized
  <2>4. ASSUME Agrees(thread[t].c)
        PROVE  Agrees(thread[t].c)'
    <3>1. PICK row \in Container : row = thread[t].c /\ row = thread'[t].c
      BY <2>1, <2>2
    <3>2. Agrees(row)'
      BY <1>1, <2>2, <2>4, <3>1 DEF Agrees
    <3>3. QED
      BY <3>1, <3>2 DEF Agrees, Exists
  <2>5. QED
    BY <2>1, <2>3, <2>4 DEF Serialized
<1>5. ASSUME rows'[c] # Absent, \A t \in Threads : ~Writing(t, c)'
      PROVE  Agrees(rows[c])'
  <2>1. rows[c] # Absent /\ rows[c] \in Container
    BY <1>5 DEF IInv, TypeOK
  <2>2. SameIdentity(c, rows[c]) /\ Agrees(rows[c])
    BY <1>2, <1>5, <2>1 DEF Serialized, IInv, IdentityStable
  <2>3. PICK row \in Container : row = rows[c] /\ row = rows'[c]
    BY <2>1
  <2>4. Agrees(row)'
    BY <1>1, <2>2, <2>3 DEF Agrees
  <2>5. QED
    BY <2>3, <2>4 DEF Agrees, Exists
<1>6. \A t \in Threads : Writing(t, c)' => WorkingOn(t, c)'
  BY DEF Writing
<1>7. QED
  BY <1>3, <1>4, <1>5, <1>6 DEF Serialized

\* A request read the row, and nobody else is at work on the container.
LEMMA SerializedByGetOwned ==
    ASSUME IInv, IInv', [Next]_vars, NEW t \in Threads, NEW u \in Users,
           NEW b \in ContainerIds, NEW op \in {"start", "stop", "delete"},
           GetOwned(t, u, op, b),
           NEW c \in ContainerIds \ raced', Serialized(c)
    PROVE  Serialized(c)'
<1>1. /\ TypeOK
      /\ thread[t] = Absent
      /\ thread'[t].id = b /\ thread'[t].pc = "runtime"
      /\ thread'[t].c = rows[b]
      /\ \A s \in Threads \ {t} : thread'[s] = thread[s]
      /\ rows' = rows /\ docker' = docker /\ minted' = minted
  BY DEF GetOwned, IInv, TypeOK
<1>2. CASE b # c
  BY <1>1, <1>2, SerializedFrame DEF WorkingOn
<1>3. CASE b = c
  <2>1. \A s \in Threads : ~WorkingOn(s, c)
    BY <1>3 DEF GetOwned
  <2>2. \A s \in Threads : WorkingOn(s, c)' => s = t
    BY <1>1, <2>1 DEF WorkingOn
  <2>3. \A s \in Threads : ~Writing(s, c) /\ ~Writing(s, c)'
    BY <1>1, <2>1, <2>2 DEF Writing
  <2>4. rows[c] # Absent => Agrees(rows[c])
    BY <2>3 DEF Serialized
  <2>5. rows'[c] # Absent => Agrees(rows[c])'
    BY <1>1, <2>4 DEF Agrees, Exists
  <2>6. QED
    BY <1>1, <1>3, <2>2, <2>3, <2>5 DEF Serialized
<1>4. QED
  BY <1>2, <1>3

\* Docker did what a request asked for, and the request's copy of the row says
\* so; or it refused, and nothing has changed.
LEMMA SerializedByRuntime ==
    ASSUME IInv, [Next]_vars, NoFailures', NEW t \in Threads, Runtime(t),
           NEW c \in ContainerIds, Serialized(c)
    PROVE  Serialized(c)'
<1> DEFINE op == thread[t].op
           d == thread[t].c.dockerID
<1>1. /\ TypeOK
      /\ thread[t] \in Request /\ thread[t] # Absent /\ thread[t].pc = "runtime"
      /\ op \in {"start", "stop", "delete"} /\ thread[t].c \in Container
      /\ d \in DockerIds
      /\ rows' = rows /\ minted' = minted
  BY DEF Runtime, IInv, TypeOK, Request, Container
<1>2. /\ DockerCall(op, d, "ok")
      /\ thread' =
            IF Succeeds(op, d, "ok")
            THEN [thread EXCEPT ![t].pc = "repo",
                    ![t].c.status = IF op = "delete" THEN @
                                                     ELSE StatusAfter[op]]
            ELSE [thread EXCEPT ![t] = Absent]
  <2>1. PICK o \in Outcomes :
          /\ DockerCall(op, d, o)
          /\ thread' =
                IF Succeeds(op, d, o)
                THEN [thread EXCEPT ![t].pc = "repo",
                        ![t].c.status = IF op = "delete" THEN @
                                                         ELSE StatusAfter[op]]
                ELSE [thread EXCEPT ![t] = Absent]
    BY DEF Runtime
  <2>2. o = "ok"
    BY <1>1, <2>1, StillNoFailures DEF DockerCall
  <2>3. QED
    BY <2>1, <2>2
<1>3. \A s \in Threads \ {t} : thread'[s] = thread[s]
  BY <1>1, <1>2 DEF TypeOK
<1>4. /\ minted[thread[t].id] # Absent
      /\ minted[thread[t].id].dockerID = d
      /\ thread[t].id \in ContainerIds
  BY <1>1, RequestInDocker DEF IInv
<1>5. thread'[t] # Absent => thread'[t].id = thread[t].id
  BY <1>1, <1>2 DEF TypeOK, Request
<1>6. CASE thread[t].id # c
  <2>1. minted[c] # Absent => minted[c].dockerID # d
    BY <1>4, <1>6 DEF IInv, IdentityStable
  <2>2. \A e \in DockerIds \ {d} : docker'[e] = docker[e]
    BY <1>1, <1>2, DockerCallType DEF Outcomes
  <2>3. \A s \in Threads : s # t \/ (~WorkingOn(s, c) /\ ~WorkingOn(s, c)')
    BY <1>5, <1>6 DEF WorkingOn
  <2>4. QED
    BY <1>1, <1>3, <2>1, <2>2, <2>3, SerializedFrame
<1>7. CASE thread[t].id = c
  <2>1. WorkingOn(t, c) /\ \A s \in Threads : WorkingOn(s, c) => s = t
    BY <1>1, <1>7 DEF WorkingOn, Serialized
  <2>2. \A s \in Threads : ~Writing(s, c)
    BY <1>1, <2>1 DEF Writing
  <2>3. rows[c] = thread[t].c /\ rows[c] # Absent
    BY <1>1, <2>1, AbsentAssumption DEF Serialized
  <2>4. Exists(d) /\ (docker[d].state = "running"
                        => thread[t].c.status = "running")
    BY <2>2, <2>3 DEF Serialized, Agrees
  <2>5. \A s \in Threads : WorkingOn(s, c)' => s = t
    BY <1>3, <2>1 DEF WorkingOn
  <2>6. CASE ~Succeeds(op, d, "ok")
    <3>1. thread'[t] = Absent /\ docker' = docker
      BY <1>1, <1>2, <2>6 DEF TypeOK, Succeeds, DockerCall
    <3>2. \A s \in Threads : ~WorkingOn(s, c)'
      BY <2>5, <3>1 DEF WorkingOn
    <3>3. Agrees(rows[c])'
      BY <1>1, <2>3, <2>4, <3>1 DEF Agrees, Exists
    <3>4. QED
      BY <3>2, <3>3 DEF Serialized, Writing
  <2>7. CASE Succeeds(op, d, "ok")
    <3>1. /\ thread'[t].pc = "repo"
          /\ thread'[t].op = op
          /\ thread'[t].id = c
          /\ thread'[t].c.dockerID = d
          /\ op # "delete" => thread'[t].c.status = StatusAfter[op]
      BY <1>1, <1>2, <1>7, <2>7 DEF TypeOK, Request, Container
    <3>2. thread'[t] # Absent
      <4> DEFINE status == IF op = "delete" THEN thread[t].c.status
                                            ELSE StatusAfter[op]
                 row == [thread[t].c EXCEPT !.status = status]
      <4>1. status \in ContainerStatus
        BY <1>1 DEF Container, StatusAfter, ContainerStatus
      <4>2. row \in Container
        BY <1>1, <4>1 DEF Container
      <4>3. thread'[t] = [thread[t] EXCEPT !.pc = "repo", !.c = row]
        BY <1>1, <1>2, <2>7 DEF TypeOK, Request, Container
      <4>4. thread'[t] \in Request
        BY <1>1, <4>2, <4>3 DEF Request
      <4>5. QED
        BY <4>4, AbsentAssumption
    <3>3. Writing(t, c)'
      BY <3>1, <3>2 DEF Writing, WorkingOn
    <3>4. docker[d] \in DockerContainer
      BY <1>1, <2>4 DEF TypeOK, Exists
    <3>5. docker' = [docker EXCEPT ![d].state = StateAfter(op, @)]
      BY <1>2, <2>7 DEF DockerCall, Succeeds, Applied
    <3>6. docker'[d] = [docker[d] EXCEPT !.state = StateAfter(op, @)]
      BY <1>1, <3>5 DEF TypeOK
    <3>7. docker'[d].state = StateAfter(op, docker[d].state)
      BY <3>4, <3>6 DEF DockerContainer
    <3>8. docker'[d] # Absent
      BY <1>1, <1>2, <2>4, DockerCallType, AbsentAssumption
      DEF Outcomes, Exists
    <3>9. ASSUME op # "delete"
          PROVE  Agrees(thread[t].c)'
      <4>1. CASE op = "start"
        BY <3>1, <3>7, <3>8, <4>1 DEF Agrees, Exists, StateAfter, StatusAfter
      <4>2. CASE op = "stop"
        BY <2>4, <3>1, <3>7, <3>8, <4>2 DEF Agrees, Exists, StateAfter
      <4>3. QED
        BY <1>1, <3>9, <4>1, <4>2
    <3>10. QED
      BY <2>5, <3>1, <3>3, <3>9 DEF Serialized, Writing
  <2>8. QED
    BY <2>6, <2>7
<1>8. QED
  BY <1>6, <1>7

\* The only request at work on a container writes its row, or deletes it.
LEMMA SerializedByWrite ==
    ASSUME IInv, [Next]_vars, NEW t \in Threads, UpdateRow(t) \/ DeleteRow(t),
           NEW c \in ContainerIds, Serialized(c), NoFailures'
    PROVE  Serialized(c)'
<1>1. /\ TypeOK
      /\ thread[t] \in Request /\ thread[t] # Absent /\ thread[t].pc = "repo"
      /\ thread[t].id \in ContainerIds
      /\ thread' = [thread EXCEPT ![t] = Absent]
      /\ docker' = docker /\ minted' = minted
  BY DEF UpdateRow, DeleteRow, IInv, TypeOK, Request
<1>2. thread'[t] = Absent /\ \A s \in Threads \ {t} : thread'[s] = thread[s]
  BY <1>1 DEF TypeOK
<1>3. CASE thread[t].id # c
  <2>1. rows'[c] = rows[c]
    BY <1>1, <1>3 DEF UpdateRow, DeleteRow, Upsert, TypeOK
  <2>2. \A s \in Threads : WorkingOn(s, c) \/ WorkingOn(s, c)' => s # t
    BY <1>2, <1>3 DEF WorkingOn
  <2>3. QED
    BY <1>1, <1>2, <2>1, <2>2, SerializedFrame
<1>4. CASE thread[t].id = c
  <2>1. /\ WorkingOn(t, c) /\ Writing(t, c)
        /\ \A s \in Threads : WorkingOn(s, c) => s = t
    BY <1>1, <1>4 DEF WorkingOn, Writing, Serialized
  <2>2. \A s \in Threads : ~WorkingOn(s, c)'
    BY <1>2, <2>1 DEF WorkingOn
  <2>3. rows'[c] # Absent => Agrees(rows[c])'
    <3>1. CASE UpdateRow(t)
      <4>1. PICK o \in Outcomes :
              Call(o) /\ rows' = Upsert(rows, thread[t].id, thread[t].c, o)
        BY <3>1 DEF UpdateRow
      <4>2. rows'[c] = thread[t].c
        BY <1>1, <1>4, <4>1, StillNoFailures DEF Upsert, Applied, TypeOK
      <4>3. Agrees(thread[t].c)
        BY <2>1, <3>1 DEF UpdateRow, Serialized
      <4>4. QED
        BY <1>1, <4>2, <4>3 DEF Agrees, Exists
    <3>2. CASE DeleteRow(t)
      <4>1. PICK o \in Outcomes :
              Call(o) /\ rows' = Upsert(rows, thread[t].id, Absent, o)
        BY <3>2 DEF DeleteRow
      <4>2. rows'[c] = Absent
        BY <1>1, <1>4, <4>1, StillNoFailures DEF Upsert, Applied, TypeOK
      <4>3. QED
        BY <4>2
    <3>3. QED
      BY <3>1, <3>2
  <2>4. QED
    BY <2>2, <2>3 DEF Serialized, Writing
<1>5. QED
  BY <1>3, <1>4

\* A container is saved as Docker created it, and before its row is there no
\* request can work on it.
LEMMA SerializedBySave ==
    ASSUME IInv, HeldUntouched, [Next]_vars, NoFailures',
           NEW j \in JobIds, SaveContainer(j),
           NEW c \in ContainerIds, Serialized(c)
    PROVE  Serialized(c)'
<1> DEFINE row == NewContainer(worker[j].job.user, worker[j].dockerID)
<1>1. PICK b \in ContainerIds, o \in Outcomes :
        /\ minted[b] = Absent
        /\ Call(o)
        /\ minted' = [minted EXCEPT ![b] = row]
        /\ rows' = Upsert(rows, b, row, o)
        /\ docker' = docker /\ thread' = thread
  BY DEF SaveContainer
<1>2. TypeOK /\ o = "ok"
  BY <1>1, StillNoFailures DEF IInv
<1>3. CASE b # c
  <2>1. rows'[c] = rows[c]
    BY <1>1, <1>2, <1>3 DEF Upsert, TypeOK
  <2>2. QED
    BY <1>1, <2>1, SerializedFrame
<1>4. CASE b = c
  <2>1. \A t \in Threads : ~WorkingOn(t, c) /\ ~WorkingOn(t, c)'
    BY <1>1, <1>4, RequestInDocker DEF WorkingOn, IInv
  <2>2. rows'[c] = row
    BY <1>1, <1>2, <1>4 DEF Upsert, Applied, TypeOK
  <2>3. /\ row.dockerID = worker[j].dockerID
        /\ docker[worker[j].dockerID] # Absent
    BY SavedRow, HeldInDocker DEF SaveContainer, Holding
  <2>4. docker[worker[j].dockerID].state = "created"
    <3>1. ~DoubleFault
      BY StillNoFailures, <1>2 DEF NoFailures, DoubleFault
    <3>2. QED
      BY <3>1 DEF HeldUntouched, SaveContainer, Holding
  <2>5. Agrees(rows[c])'
    BY <1>1, <2>2, <2>3, <2>4 DEF Agrees, Exists
  <2>6. QED
    BY <2>1, <2>5 DEF Serialized, Writing
<1>5. QED
  BY <1>3, <1>4

\* Every step keeps the rows nobody raced for in agreement with Docker.
LEMMA NextSerialized ==
    ASSUME IInv, IInv', HeldUntouched, SerializedUnlessRaced, [Next]_vars
    PROVE  SerializedUnlessRaced'
<1> SUFFICES ASSUME NoFailures', NEW c \in ContainerIds \ raced'
             PROVE  Serialized(c)'
  BY DEF SerializedUnlessRaced
<1>1. TypeOK /\ HoldersHaveID /\ NoFailures
  BY StillNoFailures, FreshHaveID DEF IInv
<1>2. raced \subseteq raced'
  BY DEF Next, RunCreateJob, Serve, CreateAsync, MarkRunning, RuntimeCreate,
         SaveContainer, Rollback, RecordFinal, GetOwned, Runtime, UpdateRow,
         DeleteRow, ContainerExits, CrashRestart, vars
<1>3. Serialized(c)
  BY <1>1, <1>2 DEF SerializedUnlessRaced
<1>4. ASSUME NEW j \in JobIds, SaveContainer(j)
      PROVE  Serialized(c)'
  BY <1>3, <1>4, SerializedBySave
<1>5. ASSUME NEW j \in JobIds, Rollback(j)
      PROVE  FALSE
  BY <1>1, <1>5 DEF Rollback, HeldUntouched, NoFailures
<1>6. ASSUME NEW t \in Threads, NEW u \in Users, NEW b \in ContainerIds,
             NEW op \in {"start", "stop", "delete"}, GetOwned(t, u, op, b)
      PROVE  Serialized(c)'
  BY <1>3, <1>6, SerializedByGetOwned
<1>7. ASSUME NEW t \in Threads, Serve(t)
      PROVE  Serialized(c)'
  BY <1>3, <1>7, SerializedByRuntime, SerializedByWrite DEF Serve
<1>8. ASSUME NEW d \in DockerIds, ContainerExits(d)
      PROVE  Serialized(c)'
  <2>1. /\ rows' = rows /\ thread' = thread
        /\ docker' = [docker EXCEPT ![d].state = "exited"]
        /\ docker[d] \in DockerContainer
    BY <1>1, <1>8 DEF ContainerExits, Exists, TypeOK
  <2>2. docker'[d].state = "exited" /\ docker'[d] # Absent
    BY <1>1, <1>8, <2>1, DockerMonotone
    DEF ContainerExits, Exists, TypeOK, DockerContainer
  <2>3. \A e \in DockerIds \ {d} : docker'[e] = docker[e]
    BY <1>1, <2>1 DEF TypeOK
  <2>4. QED
    BY <1>3, <2>1, <2>2, <2>3, SerializedFrame DEF Exists
<1>9. CASE CrashRestart
  BY <1>1, <1>9, CountsGrow DEF CrashRestart, NoFailures
<1>10. CASE UNCHANGED <<rows, thread>> /\ \A d \in DockerIds :
                docker[d] # Absent => docker'[d] = docker[d]
  BY <1>3, <1>10, SerializedFrame DEF Exists
<1>11. ASSUME NEW j \in JobIds, RuntimeCreate(j)
       PROVE  Serialized(c)'
  BY <1>1, <1>10, <1>11 DEF RuntimeCreate, Upsert, TypeOK
<1>12. QED
  BY <1>4, <1>5, <1>6, <1>7, <1>8, <1>9, <1>10, <1>11
  DEF Next, RunCreateJob, CreateAsync, MarkRunning, RecordFinal, vars

\* When nothing fails, a container no two requests worked on at once has a row
\* that agrees with Docker, except while a request is about to write it.
THEOREM UnracedRowsAgree == Spec => []SerializedRowsAgree
<1>1. Init => HeldUntouched /\ SerializedUnlessRaced
  BY DEF Init, HeldUntouched, Holding, At, SerializedUnlessRaced, Serialized,
         WorkingOn, Writing
<1>2. /\ IInv /\ IInv' /\ HeldUntouched /\ SerializedUnlessRaced /\ [Next]_vars
      => HeldUntouched' /\ SerializedUnlessRaced'
  BY NextHeldUntouched, NextSerialized
<1>3. SerializedUnlessRaced => SerializedRowsAgree
  BY DEF SerializedUnlessRaced, Serialized, Writing, Agrees,
         SerializedRowsAgree
<1>4. QED
  BY <1>1, <1>2, <1>3, Invariance, PTL DEF Spec

=============================================================================
