----------------------- MODULE ContainerServiceProofs -----------------------
(***************************************************************************)
(* Proofs about ContainerService for every set of users, names, threads,   *)
(* jobs, containers and Docker IDs, and every number of failing calls and  *)
(* crashes.                                                                *)
(***************************************************************************)
EXTENDS ContainerService, TLAPS

-----------------------------------------------------------------------------
(* Helpers.                                                                *)

\* A failing call is counted and never exceeds the bound.
LEMMA CallType ==
    ASSUME faults \in 0..MaxFaults, NEW o \in Outcomes, Call(o)
    PROVE  faults' \in 0..MaxFaults
BY BoundsAssumption DEF Call, Outcomes

\* A start, a stop or a removal changes at most the container it names, which
\* exists, and what the Docker daemon stores keeps its type.
LEMMA DockerCallType ==
    ASSUME TypeOK, NEW op \in {"start", "stop", "delete"},
           NEW d \in DockerIds, NEW o \in Outcomes, DockerCall(op, d, o)
    PROVE  /\ docker' \in [DockerIds -> DockerContainer \cup {Absent}]
           /\ faults' \in 0..MaxFaults
           /\ \/ docker' = docker
              \/ /\ Exists(d)
                 /\ docker'[d] \in DockerContainer
                 /\ \A e \in DockerIds \ {d} : docker'[e] = docker[e]
<1>1. faults' \in 0..MaxFaults
  BY CallType DEF DockerCall, TypeOK
<1>2. CASE Applied(o) /\ DockerAccepts(op, d)
  <2>1. docker[d] \in DockerContainer
    BY <1>2 DEF TypeOK, DockerAccepts, Exists
  <2>2. StateAfter(op, docker[d].state) \in ContainerStatus \cup {"removed"}
    BY <2>1 DEF StateAfter, ContainerStatus, DockerContainer
  <2>3. QED
    BY <1>1, <1>2, <2>1, <2>2
    DEF DockerCall, DockerAccepts, TypeOK, DockerContainer
<1>3. CASE ~(Applied(o) /\ DockerAccepts(op, d))
  BY <1>1, <1>3 DEF DockerCall, TypeOK
<1>4. QED
  BY <1>2, <1>3

-----------------------------------------------------------------------------
(* Types.                                                                  *)

\* A goroutine between runtime.Create and the end of Create has an ID from
\* Docker.  Without it the type of the row it saves is not inductive.
HoldersHaveID ==
    \A j \in JobIds : At(j, "save") \/ At(j, "rollback")
                        => worker[j].dockerID \in DockerIds

\* The row that Create saves.
LEMMA NewContainerType ==
    ASSUME TypeOK, HoldersHaveID, NEW j \in JobIds, At(j, "save")
    PROVE  NewContainer(worker[j].job.user, worker[j].dockerID) \in Container
<1>1. worker[j] \in Worker /\ worker[j].dockerID \in DockerIds
  BY DEF TypeOK, HoldersHaveID, At
<1>2. QED
  BY <1>1 DEF NewContainer, Container, ContainerStatus, Worker, Job

\* Before main serves anything the stores are empty, so the types hold.
LEMMA InitTypes == Init => TypeOK /\ HoldersHaveID
BY BoundsAssumption DEF Init, TypeOK, HoldersHaveID, At

\* Every step of every request, goroutine and crash keeps the types.
LEMMA NextTypeOK == TypeOK /\ HoldersHaveID /\ [Next]_vars => TypeOK'
<1> SUFFICES ASSUME TypeOK, HoldersHaveID, [Next]_vars PROVE TypeOK'
  OBVIOUS
<1>1. ASSUME NEW u \in Users, NEW n \in Names, CreateAsync(u, n)
      PROVE  TypeOK'
  <2>1. PICK j \in JobIds, o \in Outcomes :
          /\ Call(o)
          /\ jobs' = Upsert(jobs, j, NewJob(u), o)
          /\ worker' = IF o = "ok"
                       THEN [worker EXCEPT ![j] =
                              [pc |-> "mark", job |-> NewJob(u),
                               name |-> n, dockerID |-> Absent]]
                       ELSE worker
    BY <1>1 DEF CreateAsync
  <2>2. NewJob(u) \in Job
    BY DEF NewJob, Job, JobStatus
  <2>3. jobs' \in [JobIds -> Job \cup {Absent}]
    BY <2>1, <2>2 DEF TypeOK, Upsert
  <2>4. [pc |-> "mark", job |-> NewJob(u), name |-> n, dockerID |-> Absent]
          \in Worker
    BY <2>2 DEF Worker
  <2>5. worker' \in [JobIds -> Worker \cup {Absent}]
    BY <2>1, <2>4 DEF TypeOK
  <2>6. faults' \in 0..MaxFaults
    BY <2>1, CallType DEF TypeOK
  <2>7. QED
    BY <1>1, <2>3, <2>5, <2>6 DEF CreateAsync, TypeOK
<1>2. ASSUME NEW j \in JobIds, MarkRunning(j)
      PROVE  TypeOK'
  <2> DEFINE job == [worker[j].job EXCEPT !.status = "running"]
  <2>1. worker[j] \in Worker
    BY <1>2 DEF MarkRunning, At, TypeOK
  <2>2. job \in Job
    BY <2>1 DEF Worker, Job, JobStatus
  <2>3. PICK o \in Outcomes : Call(o) /\ jobs' = Upsert(jobs, j, job, o)
    BY <1>2 DEF MarkRunning
  <2>4. jobs' \in [JobIds -> Job \cup {Absent}]
    BY <2>2, <2>3 DEF TypeOK, Upsert
  <2>5. worker' \in [JobIds -> Worker \cup {Absent}]
    BY <1>2, <2>1, <2>2 DEF MarkRunning, TypeOK, Worker
  <2>6. faults' \in 0..MaxFaults
    BY <2>3, CallType DEF TypeOK
  <2>7. QED
    BY <1>2, <2>4, <2>5, <2>6 DEF MarkRunning, TypeOK
<1>3. ASSUME NEW j \in JobIds, RuntimeCreate(j)
      PROVE  TypeOK'
  <2>1. worker[j] \in Worker
    BY <1>3 DEF RuntimeCreate, At, TypeOK
  <2>2. Failed(j) \in [JobIds -> Worker \cup {Absent}]
    BY <2>1 DEF Failed, TypeOK, Worker, Job, JobStatus
  <2>3. CASE NameTaken(worker[j].name)
    BY <1>3, <2>2, <2>3 DEF RuntimeCreate, OnConflict, TypeOK
  <2>4. CASE ~NameTaken(worker[j].name)
    <3>1. PICK d \in DockerIds, o \in Outcomes :
            /\ Call(o)
            /\ docker' = Upsert(docker, d, [name |-> worker[j].name,
                                            state |-> "created"], o)
            /\ worker' = IF o = "ok"
                         THEN [worker EXCEPT ![j].pc = "save",
                                             ![j].dockerID = d]
                         ELSE Failed(j)
      BY <1>3, <2>4 DEF RuntimeCreate
    <3>2. docker' \in [DockerIds -> DockerContainer \cup {Absent}]
      BY <2>1, <3>1
      DEF Upsert, TypeOK, DockerContainer, ContainerStatus, Worker
    <3>3. worker' \in [JobIds -> Worker \cup {Absent}]
      BY <2>1, <2>2, <3>1 DEF TypeOK, Worker
    <3>4. faults' \in 0..MaxFaults
      BY <3>1, CallType DEF TypeOK
    <3>5. QED
      BY <1>3, <3>2, <3>3, <3>4 DEF RuntimeCreate, TypeOK
  <2>5. QED
    BY <2>3, <2>4
<1>4. ASSUME NEW j \in JobIds, SaveContainer(j)
      PROVE  TypeOK'
  <2>1. worker[j] \in Worker
    BY <1>4 DEF SaveContainer, At, TypeOK
  <2> DEFINE row == NewContainer(worker[j].job.user, worker[j].dockerID)
  <2>2. row \in Container
    BY <1>4, NewContainerType DEF SaveContainer
  <2>3. PICK c \in ContainerIds, o \in Outcomes :
          /\ Call(o)
          /\ minted' = [minted EXCEPT ![c] = row]
          /\ rows' = Upsert(rows, c, row, o)
          /\ worker' = IF o = "ok" THEN Succeeded(j, c) ELSE SaveFailed(j)
    BY <1>4 DEF SaveContainer
  <2>4. /\ minted' \in [ContainerIds -> Container \cup {Absent}]
        /\ rows' \in [ContainerIds -> Container \cup {Absent}]
    BY <2>2, <2>3 DEF TypeOK, Upsert
  <2>5. worker' \in [JobIds -> Worker \cup {Absent}]
    BY <2>1, <2>3
    DEF Succeeded, SaveFailed, TypeOK, Worker, Job, JobStatus
  <2>6. QED
    BY <1>4, <2>3, <2>4, <2>5, CallType DEF SaveContainer, TypeOK
<1>5. ASSUME NEW j \in JobIds, Rollback(j)
      PROVE  TypeOK'
  <2>1. worker[j] \in Worker /\ worker[j].dockerID \in DockerIds
    BY <1>5 DEF Rollback, At, TypeOK, HoldersHaveID
  <2>2. PICK o \in Outcomes : DockerCall("delete", worker[j].dockerID, o)
    BY <1>5 DEF Rollback
  <2>3. /\ docker' \in [DockerIds -> DockerContainer \cup {Absent}]
        /\ faults' \in 0..MaxFaults
    BY <2>1, <2>2, DockerCallType
  <2>4. worker' \in [JobIds -> Worker \cup {Absent}]
    BY <1>5, <2>1 DEF Rollback, Failed, TypeOK, Worker, Job, JobStatus
  <2>5. QED
    BY <1>5, <2>3, <2>4 DEF Rollback, TypeOK
<1>6. ASSUME NEW j \in JobIds, RecordFinal(j)
      PROVE  TypeOK'
  <2>1. worker[j] \in Worker
    BY <1>6 DEF RecordFinal, At, TypeOK
  <2>2. PICK o \in Outcomes :
          Call(o) /\ jobs' = Upsert(jobs, j, worker[j].job, o)
    BY <1>6 DEF RecordFinal
  <2>3. jobs' \in [JobIds -> Job \cup {Absent}]
    BY <2>1, <2>2 DEF TypeOK, Upsert, Worker
  <2>4. worker' \in [JobIds -> Worker \cup {Absent}]
    BY <1>6 DEF RecordFinal, Finished, TypeOK
  <2>5. QED
    BY <1>6, <2>2, <2>3, <2>4, CallType DEF RecordFinal, TypeOK
<1>7. ASSUME NEW t \in Threads, NEW u \in Users, NEW c \in ContainerIds,
             NEW op \in {"start", "stop", "delete"}, GetOwned(t, u, op, c)
      PROVE  TypeOK'
  <2>1. [pc |-> "runtime", op |-> op, user |-> u, id |-> c, c |-> rows[c]]
          \in Request
    BY <1>7 DEF GetOwned, Owned, TypeOK, Request
  <2>2. thread' \in [Threads -> Request \cup {Absent}]
    BY <1>7, <2>1 DEF GetOwned, TypeOK
  <2>3. raced' \subseteq ContainerIds
    BY <1>7 DEF GetOwned, TypeOK
  <2>4. QED
    BY <1>7, <2>2, <2>3 DEF GetOwned, TypeOK
<1>8. ASSUME NEW t \in Threads, Runtime(t)
      PROVE  TypeOK'
  <2> DEFINE op == thread[t].op
             d == thread[t].c.dockerID
  <2>1. thread[t] \in Request
    BY <1>8 DEF Runtime, TypeOK
  <2>2. op \in {"start", "stop", "delete"} /\ d \in DockerIds
    BY <2>1 DEF Request, Container
  <2>3. PICK o \in Outcomes :
          /\ DockerCall(op, d, o)
          /\ thread' =
                IF Succeeds(op, d, o)
                THEN [thread EXCEPT ![t].pc = "repo",
                        ![t].c.status = IF op = "delete" THEN @
                                                         ELSE StatusAfter[op]]
                ELSE [thread EXCEPT ![t] = Absent]
    BY <1>8 DEF Runtime
  <2>4. op # "delete" => StatusAfter[op] \in ContainerStatus
    BY <2>2 DEF StatusAfter, ContainerStatus
  <2>5. thread' \in [Threads -> Request \cup {Absent}]
    BY <2>1, <2>3, <2>4 DEF TypeOK, Request, Container
  <2>6. /\ docker' \in [DockerIds -> DockerContainer \cup {Absent}]
        /\ faults' \in 0..MaxFaults
    BY <2>2, <2>3, DockerCallType
  <2>7. QED
    BY <1>8, <2>5, <2>6 DEF Runtime, TypeOK
<1>9. ASSUME NEW t \in Threads, UpdateRow(t)
      PROVE  TypeOK'
  <2>1. thread[t] \in Request
    BY <1>9 DEF UpdateRow, TypeOK
  <2>2. PICK o \in Outcomes :
          Call(o) /\ rows' = Upsert(rows, thread[t].id, thread[t].c, o)
    BY <1>9 DEF UpdateRow
  <2>3. rows' \in [ContainerIds -> Container \cup {Absent}]
    BY <2>1, <2>2 DEF TypeOK, Upsert, Request
  <2>4. thread' \in [Threads -> Request \cup {Absent}]
    BY <1>9 DEF UpdateRow, TypeOK
  <2>5. QED
    BY <1>9, <2>2, <2>3, <2>4, CallType DEF UpdateRow, TypeOK
<1>10. ASSUME NEW t \in Threads, DeleteRow(t)
       PROVE  TypeOK'
  <2>1. thread[t] \in Request
    BY <1>10 DEF DeleteRow, TypeOK
  <2>2. PICK o \in Outcomes :
          /\ Call(o)
          /\ rows' = Upsert(rows, thread[t].id, Absent, o)
          /\ acked' = acked \cup {c \in {thread[t].id} : o = "ok"}
    BY <1>10 DEF DeleteRow
  <2>3. rows' \in [ContainerIds -> Container \cup {Absent}]
    BY <2>1, <2>2 DEF TypeOK, Upsert, Request
  <2>4. thread' \in [Threads -> Request \cup {Absent}]
    BY <1>10 DEF DeleteRow, TypeOK
  <2>5. acked' \subseteq ContainerIds
    BY <2>1, <2>2 DEF TypeOK, Request
  <2>6. QED
    BY <1>10, <2>2, <2>3, <2>4, <2>5, CallType DEF DeleteRow, TypeOK
<1>11. ASSUME NEW d \in DockerIds, ContainerExits(d)
       PROVE  TypeOK'
  <2>1. docker[d] \in DockerContainer
    BY <1>11 DEF ContainerExits, Exists, TypeOK
  <2>2. docker' \in [DockerIds -> DockerContainer \cup {Absent}]
    BY <1>11, <2>1
    DEF ContainerExits, TypeOK, DockerContainer, ContainerStatus
  <2>3. QED
    BY <1>11, <2>2 DEF ContainerExits, TypeOK
<1>12. CASE CrashRestart
  BY <1>12, BoundsAssumption DEF CrashRestart, TypeOK
<1>13. CASE UNCHANGED vars
  BY <1>13 DEF vars, TypeOK
<1>14. QED
  BY <1>1, <1>2, <1>3, <1>4, <1>5, <1>6, <1>7, <1>8, <1>9, <1>10, <1>11,
     <1>12, <1>13
  DEF Next, RunCreateJob, Serve

\* Only RuntimeCreate sends a goroutine to save or roll back, and it has an
\* ID by then.
LEMMA NextHoldersHaveID ==
    TypeOK /\ HoldersHaveID /\ [Next]_vars => HoldersHaveID'
<1> SUFFICES ASSUME TypeOK, HoldersHaveID, [Next]_vars PROVE HoldersHaveID'
  OBVIOUS
<1>1. CASE UNCHANGED worker
  BY <1>1 DEF HoldersHaveID, At
<1>2. ASSUME NEW u \in Users, NEW n \in Names, CreateAsync(u, n)
      PROVE  HoldersHaveID'
  BY <1>2 DEF CreateAsync, HoldersHaveID, At, TypeOK
<1>3. ASSUME NEW j \in JobIds, RunCreateJob(j)
      PROVE  HoldersHaveID'
  <2>1. CASE MarkRunning(j)
    BY <2>1 DEF MarkRunning, HoldersHaveID, At, TypeOK, Worker
  <2>2. CASE RuntimeCreate(j)
    BY <2>2 DEF RuntimeCreate, OnConflict, Failed, HoldersHaveID, At, TypeOK,
                Worker
  <2>3. CASE SaveContainer(j)
    BY <2>3 DEF SaveContainer, Succeeded, SaveFailed, HoldersHaveID, At,
                TypeOK, Worker
  <2>4. CASE Rollback(j)
    BY <2>4 DEF Rollback, Failed, HoldersHaveID, At, TypeOK, Worker
  <2>5. CASE RecordFinal(j)
    BY <2>5 DEF RecordFinal, Finished, HoldersHaveID, At, TypeOK
  <2>6. QED
    BY <1>3, <2>1, <2>2, <2>3, <2>4, <2>5 DEF RunCreateJob
<1>4. CASE CrashRestart
  BY <1>4 DEF CrashRestart, HoldersHaveID, At
<1>5. QED
  BY <1>1, <1>2, <1>3, <1>4
  DEF Next, Serve, Runtime, UpdateRow, DeleteRow, GetOwned, ContainerExits,
      vars

\* Every reachable state has its type.
THEOREM TypeCorrect == Spec => []TypeOK
<1>1. Spec => [](TypeOK /\ HoldersHaveID)
  BY InitTypes, NextTypeOK, NextHoldersHaveID, PTL DEF Spec
<1>2. QED
  BY <1>1, PTL

-----------------------------------------------------------------------------
(* What never happens to the two stores.                                   *)

\* A container Docker was asked to create stays known, and once it is removed
\* nothing brings it back.
LEMMA DockerMonotone ==
    ASSUME TypeOK, HoldersHaveID, [Next]_vars, NEW d \in DockerIds,
           docker[d] # Absent
    PROVE  /\ docker'[d] # Absent
           /\ docker[d].state = "removed" => docker'[d] = docker[d]
<1>1. CASE UNCHANGED docker
  BY <1>1
<1>2. ASSUME NEW op \in {"start", "stop", "delete"}, NEW e \in DockerIds,
             NEW o \in Outcomes, DockerCall(op, e, o)
      PROVE  /\ docker'[d] # Absent
             /\ docker[d].state = "removed" => docker'[d] = docker[d]
  BY <1>2, DockerCallType, AbsentAssumption DEF Exists
<1>3. ASSUME NEW j \in JobIds, RuntimeCreate(j)
      PROVE  docker'[d] = docker[d]
  BY <1>3 DEF RuntimeCreate, Upsert, TypeOK
<1>4. ASSUME NEW j \in JobIds, Rollback(j)
      PROVE  /\ docker'[d] # Absent
             /\ docker[d].state = "removed" => docker'[d] = docker[d]
  BY <1>2, <1>4 DEF Rollback, HoldersHaveID
<1>5. ASSUME NEW t \in Threads, Runtime(t)
      PROVE  /\ docker'[d] # Absent
             /\ docker[d].state = "removed" => docker'[d] = docker[d]
  <2>1. thread[t] \in Request
    BY <1>5 DEF Runtime, TypeOK
  <2>2. PICK o \in Outcomes :
          DockerCall(thread[t].op, thread[t].c.dockerID, o)
    BY <1>5 DEF Runtime
  <2>3. /\ thread[t].op \in {"start", "stop", "delete"}
        /\ thread[t].c.dockerID \in DockerIds
    BY <2>1 DEF Request, Container
  <2>4. QED
    BY <1>2, <2>2, <2>3
<1>6. ASSUME NEW e \in DockerIds, ContainerExits(e)
      PROVE  /\ docker'[d] # Absent
             /\ docker[d].state = "removed" => docker'[d] = docker[d]
  <2>1. docker[e] \in DockerContainer
    BY <1>6 DEF ContainerExits, Exists, TypeOK
  <2>2. [docker[e] EXCEPT !.state = "exited"] \in DockerContainer
    BY <2>1 DEF DockerContainer, ContainerStatus
  <2>3. QED
    BY <1>6, <2>2, AbsentAssumption DEF ContainerExits, Exists, TypeOK
<1>7. QED
  BY <1>1, <1>2, <1>3, <1>4, <1>5, <1>6
  DEF Next, RunCreateJob, Serve, CreateAsync, MarkRunning, SaveContainer,
      RecordFinal, GetOwned, UpdateRow, DeleteRow, CrashRestart, vars

\* A UUID keeps the container it was minted for.
LEMMA MintedOnce ==
    ASSUME TypeOK, [Next]_vars, NEW c \in ContainerIds, minted[c] # Absent
    PROVE  minted'[c] = minted[c]
BY DEF Next, RunCreateJob, Serve, CreateAsync, MarkRunning, RuntimeCreate,
       SaveContainer, Rollback, RecordFinal, GetOwned, Runtime, UpdateRow,
       DeleteRow, ContainerExits, CrashRestart, vars, TypeOK

-----------------------------------------------------------------------------
(* Identity: whose a container is, and which one Docker knows it by.       *)

\* HoldersHaveID is part of what WorkersHoldFresh says.
LEMMA FreshHaveID == TypeOK /\ WorkersHoldFresh => HoldersHaveID
BY DEF TypeOK, Worker, WorkersHoldFresh, Holds, HoldersHaveID, At

\* The ID a goroutine saves is no other container's.
LEMMA SavesFresh ==
    ASSUME TypeOK, WorkersHoldFresh, NEW j \in JobIds, At(j, "save"),
           NEW c \in ContainerIds, minted[c] # Absent
    PROVE  minted[c].dockerID # worker[j].dockerID
BY DEF TypeOK, WorkersHoldFresh, Holds, At

\* Create gives a row its identity; Start and Stop write back what they read,
\* and no step changes it.
LEMMA NextIdentityStable ==
    ASSUME TypeOK, TypeOK', WorkersHoldFresh, IdentityStable, [Next]_vars
    PROVE  IdentityStable'
<1>1. CASE UNCHANGED <<rows, thread, minted>>
  BY <1>1 DEF IdentityStable, SameIdentity
<1>2. ASSUME NEW j \in JobIds, SaveContainer(j)
      PROVE  IdentityStable'
  <2> DEFINE row == NewContainer(worker[j].job.user, worker[j].dockerID)
  <2>1. PICK c \in ContainerIds, o \in Outcomes :
          /\ minted[c] = Absent
          /\ minted' = [minted EXCEPT ![c] = row]
          /\ rows' = Upsert(rows, c, row, o)
          /\ thread' = thread
    BY <1>2 DEF SaveContainer
  <2>2. At(j, "save")
    BY <1>2 DEF SaveContainer
  <2>3. /\ minted'[c] = row
        /\ minted'[c] # Absent
        /\ row.user = worker[j].job.user
        /\ row.dockerID = worker[j].dockerID
    <3>1. row \in Container
      BY <2>2, NewContainerType, FreshHaveID
    <3>2. QED
      BY <2>1, <3>1, AbsentAssumption DEF TypeOK, NewContainer
  <2>4. \A b \in ContainerIds \ {c} : minted'[b] = minted[b]
    BY <2>1 DEF TypeOK
  <2>5. ASSUME NEW b \in ContainerIds, rows'[b] # Absent
        PROVE  SameIdentity(b, rows[b])'
    <3>1. rows'[b] = rows[b] \/ (b = c /\ rows'[b] = row)
      BY <2>1 DEF Upsert, TypeOK
    <3>2. CASE b = c /\ rows'[b] = row
      BY <2>3, <3>2 DEF SameIdentity
    <3>3. CASE rows'[b] = rows[b]
      <4>1. b # c
        BY <2>1, <2>5, <3>3 DEF IdentityStable, SameIdentity
      <4>2. QED
        BY <2>4, <2>5, <3>3, <4>1 DEF IdentityStable, SameIdentity
    <3>4. QED
      BY <3>1, <3>2, <3>3
  <2>6. ASSUME NEW t \in Threads, thread'[t] # Absent
        PROVE  /\ SameIdentity(thread[t].id, thread[t].c)'
               /\ thread'[t].user = thread'[t].c.user
    <3>1. thread[t] \in Request
      BY <2>1, <2>6 DEF TypeOK
    <3>2. QED
      BY <2>1, <2>4, <2>6, <3>1 DEF IdentityStable, SameIdentity, Request
  <2>7. ASSUME NEW a \in ContainerIds, NEW b \in ContainerIds,
               minted'[a] # Absent, minted'[b] # Absent,
               minted'[a].dockerID = minted'[b].dockerID
        PROVE  a = b
    BY <2>2, <2>3, <2>4, <2>7, SavesFresh DEF IdentityStable
  <2>8. QED
    BY <2>5, <2>6, <2>7 DEF IdentityStable
<1>3. ASSUME NEW t \in Threads, NEW u \in Users, NEW c \in ContainerIds,
             NEW op \in {"start", "stop", "delete"}, GetOwned(t, u, op, c)
      PROVE  IdentityStable'
  BY <1>3 DEF GetOwned, Owned, IdentityStable, SameIdentity, TypeOK
<1>4. ASSUME NEW t \in Threads, Runtime(t)
      PROVE  IdentityStable'
  <2>1. thread[t] \in Request
    BY <1>4 DEF Runtime, TypeOK
  <2>2. \/ thread'[t] = Absent
        \/ /\ thread'[t].id = thread[t].id
           /\ thread'[t].user = thread[t].user
           /\ thread'[t].c.user = thread[t].c.user
           /\ thread'[t].c.dockerID = thread[t].c.dockerID
    BY <1>4, <2>1 DEF Runtime, TypeOK, Request, Container
  <2>3. \A s \in Threads \ {t} : thread'[s] = thread[s]
    BY <1>4 DEF Runtime, TypeOK
  <2>4. thread[t] # Absent /\ rows' = rows /\ minted' = minted
    BY <1>4 DEF Runtime
  <2>5. QED
    BY <2>2, <2>3, <2>4 DEF IdentityStable, SameIdentity
<1>5. ASSUME NEW t \in Threads, UpdateRow(t)
      PROVE  IdentityStable'
  <2>1. thread[t] \in Request
    BY <1>5 DEF UpdateRow, TypeOK
  <2>2. QED
    BY <1>5, <2>1
    DEF UpdateRow, Upsert, IdentityStable, SameIdentity, TypeOK, Request
<1>6. ASSUME NEW t \in Threads, DeleteRow(t)
      PROVE  IdentityStable'
  <2>1. thread[t] \in Request
    BY <1>6 DEF DeleteRow, TypeOK
  <2>2. QED
    BY <1>6, <2>1
    DEF DeleteRow, Upsert, IdentityStable, SameIdentity, TypeOK, Request
<1>7. CASE CrashRestart
  BY <1>7 DEF CrashRestart, IdentityStable, SameIdentity
<1>8. QED
  BY <1>1, <1>2, <1>3, <1>4, <1>5, <1>6, <1>7
  DEF Next, RunCreateJob, Serve, CreateAsync, MarkRunning, RuntimeCreate,
      Rollback, RecordFinal, ContainerExits, vars

\* SaveContainer mints UUIDs only for containers Docker created, and Docker
\* forgets none.
LEMMA NextMintedInDocker ==
    ASSUME TypeOK, WorkersHoldFresh, MintedInDocker, [Next]_vars
    PROVE  MintedInDocker'
<1>1. SUFFICES ASSUME NEW c \in ContainerIds, minted'[c] # Absent
               PROVE  docker'[minted'[c].dockerID] # Absent
  BY DEF MintedInDocker
<1>2. CASE minted[c] # Absent
  <2>1. minted'[c] = minted[c] /\ minted[c].dockerID \in DockerIds
    BY <1>2, MintedOnce DEF TypeOK, Container
  <2>2. QED
    BY <1>2, <2>1, DockerMonotone, FreshHaveID DEF MintedInDocker
<1>3. CASE minted[c] = Absent
  <2>1. PICK j \in JobIds : SaveContainer(j)
    BY <1>1, <1>3
    DEF Next, RunCreateJob, Serve, CreateAsync, MarkRunning, RuntimeCreate,
        Rollback, RecordFinal, GetOwned, Runtime, UpdateRow, DeleteRow,
        ContainerExits, CrashRestart, vars
  <2>2. /\ minted'[c].dockerID = worker[j].dockerID
        /\ docker' = docker
    BY <1>1, <1>3, <2>1 DEF SaveContainer, NewContainer, TypeOK
  <2>3. docker[worker[j].dockerID] # Absent
    BY <2>1 DEF SaveContainer, WorkersHoldFresh, Holds, At, TypeOK, Worker
  <2>4. QED
    BY <2>2, <2>3
<1>4. QED
  BY <1>2, <1>3

\* RuntimeCreate hands a goroutine an ID Docker never gave before, and only
\* SaveContainer mints a UUID for it, on the way out or to the rollback.
LEMMA NextWorkersHoldFresh ==
    ASSUME TypeOK, TypeOK', WorkersHoldFresh, MintedInDocker, [Next]_vars
    PROVE  WorkersHoldFresh'
<1>1. HoldersHaveID
  BY FreshHaveID
<1>2. ASSUME UNCHANGED minted,
             \A j \in JobIds : (At(j, "save") \/ At(j, "rollback"))'
                                    => worker'[j] = worker[j]
      PROVE  WorkersHoldFresh'
  <2>1. \A j \in JobIds, d \in DockerIds \cup {Absent} :
            Holds(j, d)' => Holds(j, d)
    BY <1>2 DEF Holds, At
  <2>2. \A j \in JobIds, d \in DockerIds \cup {Absent} :
            Holds(j, d)' => d \in DockerIds /\ docker'[d] # Absent
    BY <1>1, <2>1, DockerMonotone DEF WorkersHoldFresh
  <2>3. ASSUME NEW j \in JobIds, NEW c \in ContainerIds,
               minted'[c] # Absent, Holds(j, minted[c].dockerID)'
        PROVE  At(j, "rollback")' /\ minted'[c].user = worker'[j].job.user
    BY <1>2, <2>1, <2>3 DEF WorkersHoldFresh, Holds, At, TypeOK, Container
  <2>4. QED
    BY <2>1, <2>2, <2>3 DEF WorkersHoldFresh
<1>3. ASSUME NEW u \in Users, NEW n \in Names, CreateAsync(u, n)
      PROVE  WorkersHoldFresh'
  BY <1>2, <1>3 DEF CreateAsync, At, TypeOK
<1>4. ASSUME NEW j \in JobIds, MarkRunning(j)
      PROVE  WorkersHoldFresh'
  BY <1>2, <1>4 DEF MarkRunning, At, TypeOK, Worker
<1>5. ASSUME NEW j \in JobIds, RuntimeCreate(j)
      PROVE  WorkersHoldFresh'
  <2>1. worker[j] \in Worker /\ \A d \in DockerIds \cup {Absent} : ~Holds(j, d)
    BY <1>5 DEF RuntimeCreate, At, Holds, TypeOK
  <2>2. CASE worker' = Failed(j)
    BY <1>2, <1>5, <2>1, <2>2 DEF RuntimeCreate, Failed, At, TypeOK, Worker
  <2>3. CASE worker' # Failed(j)
    <3>1. PICK d \in DockerIds :
            /\ docker[d] = Absent
            /\ docker' = [docker EXCEPT ![d] = [name |-> worker[j].name,
                                                state |-> "created"]]
            /\ worker' = [worker EXCEPT ![j].pc = "save", ![j].dockerID = d]
            /\ minted' = minted
      BY <1>5, <2>3 DEF RuntimeCreate, OnConflict, Upsert, Applied
    <3>2. /\ worker'[j].pc = "save"
          /\ worker'[j].dockerID = d
          /\ \A k \in JobIds \ {j} : worker'[k] = worker[k]
      BY <2>1, <3>1 DEF TypeOK, Worker
    <3>3. docker'[d] # Absent
      <4>1. [name |-> worker[j].name, state |-> "created"] \in DockerContainer
        BY <2>1 DEF DockerContainer, ContainerStatus, Worker
      <4>2. QED
        BY <3>1, <4>1, AbsentAssumption DEF TypeOK
    <3>4. \A k \in JobIds, e \in DockerIds \cup {Absent} :
            Holds(k, e)' => (k = j /\ e = d) \/ (k # j /\ e # d /\ Holds(k, e))
      <4> TAKE k \in JobIds, e \in DockerIds \cup {Absent}
      <4>1. CASE k = j
        BY <3>2, <4>1 DEF Holds
      <4>2. CASE k # j
        <5>1. Holds(k, e)' => Holds(k, e)
          BY <3>2, <4>2 DEF Holds, At
        <5>2. Holds(k, e) => e # d
          BY <3>1 DEF WorkersHoldFresh
        <5>3. QED
          BY <4>2, <5>1, <5>2
      <4>3. QED
        BY <4>1, <4>2
    <3>5. \A c \in ContainerIds : minted[c] # Absent => minted[c].dockerID # d
      BY <3>1 DEF MintedInDocker
    <3>6. \A k \in JobIds, e \in DockerIds \cup {Absent} :
            Holds(k, e)' => e \in DockerIds /\ docker'[e] # Absent
      BY <1>1, <3>3, <3>4, DockerMonotone DEF WorkersHoldFresh
    <3>7. ASSUME NEW k \in JobIds, NEW c \in ContainerIds,
                 minted'[c] # Absent, Holds(k, minted[c].dockerID)'
          PROVE  At(k, "rollback")' /\ minted'[c].user = worker'[k].job.user
      BY <3>1, <3>2, <3>4, <3>5, <3>7
      DEF WorkersHoldFresh, At, TypeOK, Container
    <3>8. QED
      BY <3>4, <3>6, <3>7 DEF WorkersHoldFresh
  <2>4. QED
    BY <2>2, <2>3
<1>6. ASSUME NEW j \in JobIds, SaveContainer(j)
      PROVE  WorkersHoldFresh'
  <2> DEFINE row == NewContainer(worker[j].job.user, worker[j].dockerID)
  <2>1. PICK c \in ContainerIds, o \in Outcomes :
          /\ minted[c] = Absent
          /\ minted' = [minted EXCEPT ![c] = row]
          /\ worker' = IF o = "ok" THEN Succeeded(j, c) ELSE SaveFailed(j)
          /\ docker' = docker
    BY <1>6 DEF SaveContainer
  <2>2. worker[j] \in Worker /\ At(j, "save")
    BY <1>6 DEF SaveContainer, At, TypeOK
  <2>3. /\ worker'[j].pc \in {"record", "rollback"}
        /\ worker'[j].pc = "rollback" =>
            /\ worker'[j].dockerID = worker[j].dockerID
            /\ worker'[j].job.user = worker[j].job.user
        /\ \A k \in JobIds \ {j} : worker'[k] = worker[k]
    BY <2>1, <2>2 DEF Succeeded, SaveFailed, TypeOK, Worker
  <2>4. \A k \in JobIds, d \in DockerIds \cup {Absent} :
            Holds(k, d)' => Holds(k, d)
    BY <2>2, <2>3 DEF Holds, At
  <2>5. /\ minted'[c].dockerID = worker[j].dockerID
        /\ minted'[c].user = worker[j].job.user
        /\ \A b \in ContainerIds \ {c} : minted'[b] = minted[b]
    BY <2>1 DEF NewContainer, TypeOK
  <2>6. ASSUME NEW k \in JobIds, NEW b \in ContainerIds,
               minted'[b] # Absent, Holds(k, minted[b].dockerID)'
        PROVE  At(k, "rollback")' /\ minted'[b].user = worker'[k].job.user
    <3>1. minted'[b].dockerID \in DockerIds
      BY <2>6 DEF TypeOK, Container
    <3>2. CASE b = c
      <4>1. Holds(k, worker[j].dockerID)
        BY <2>4, <2>5, <2>6, <3>1, <3>2 DEF Holds
      <4>2. k = j
        BY <2>2, <2>5, <3>1, <3>2, <4>1 DEF WorkersHoldFresh, Holds
      <4>3. QED
        BY <2>3, <2>5, <2>6, <3>2, <4>2 DEF Holds, At
    <3>3. CASE b # c
      <4>1. Holds(k, minted[b].dockerID) /\ minted[b] # Absent
        BY <2>4, <2>5, <2>6, <3>1, <3>3 DEF Holds
      <4>2. At(k, "rollback") /\ minted[b].user = worker[k].job.user
        BY <4>1 DEF WorkersHoldFresh
      <4>3. k # j
        BY <2>2, <4>2 DEF At
      <4>4. QED
        BY <2>3, <2>5, <3>3, <4>2, <4>3 DEF At
    <3>4. QED
      BY <3>2, <3>3
  <2>7. QED
    BY <2>1, <2>4, <2>6 DEF WorkersHoldFresh
<1>7. ASSUME NEW j \in JobIds, Rollback(j)
      PROVE  WorkersHoldFresh'
  BY <1>2, <1>7 DEF Rollback, Failed, At, TypeOK, Worker
<1>8. ASSUME NEW j \in JobIds, RecordFinal(j)
      PROVE  WorkersHoldFresh'
  BY <1>2, <1>8 DEF RecordFinal, Finished, At, TypeOK
<1>9. CASE UNCHANGED <<worker, minted>>
  BY <1>2, <1>9
<1>10. CASE CrashRestart
  BY <1>2, <1>10 DEF CrashRestart, At
<1>11. QED
  BY <1>3, <1>4, <1>5, <1>6, <1>7, <1>8, <1>9, <1>10
  DEF Next, RunCreateJob, Serve, GetOwned, Runtime, UpdateRow, DeleteRow,
      ContainerExits, vars

-----------------------------------------------------------------------------
(* Deletion: the Docker container goes first, and for good.                *)

\* A request works on a container Docker has, or had.
LEMMA RequestInDocker ==
    ASSUME TypeOK, IdentityStable, MintedInDocker,
           NEW t \in Threads, thread[t] # Absent
    PROVE  /\ thread[t].c.dockerID \in DockerIds
           /\ docker[thread[t].c.dockerID] # Absent
           /\ thread[t].id \in ContainerIds
           /\ minted[thread[t].id] # Absent
           /\ minted[thread[t].id].dockerID = thread[t].c.dockerID
<1>1. thread[t] \in Request
  BY DEF TypeOK
<1>2. QED
  BY <1>1 DEF IdentityStable, SameIdentity, MintedInDocker, Request, Container

\* Remove answered without an error only once the container was removed.
LEMMA RemoveRemoves ==
    ASSUME TypeOK, NEW d \in DockerIds, NEW o \in Outcomes,
           DockerCall("delete", d, o), Succeeds("delete", d, o)
    PROVE  docker'[d].state = "removed"
<1>1. Applied(o) /\ DockerAccepts("delete", d) /\ docker[d] \in DockerContainer
  BY DEF Succeeds, Applied, DockerAccepts, Exists, TypeOK
<1>2. docker' = [docker EXCEPT ![d].state = "removed"]
  BY <1>1 DEF DockerCall, StateAfter
<1>3. QED
  BY <1>1, <1>2 DEF TypeOK, DockerContainer

\* Delete goes on to the table only after runtime.Remove succeeded.
LEMMA NextDeletersRemoved ==
    ASSUME TypeOK, WorkersHoldFresh, IdentityStable, MintedInDocker,
           DeletersRemoved, [Next]_vars
    PROVE  DeletersRemoved'
<1> SUFFICES ASSUME NEW t \in Threads, thread'[t] # Absent,
                    thread'[t].pc = "repo", thread'[t].op = "delete"
             PROVE  docker'[thread'[t].c.dockerID].state = "removed"
  BY DEF DeletersRemoved
<1>1. CASE thread'[t] = thread[t]
  BY <1>1, RequestInDocker, DockerMonotone, FreshHaveID DEF DeletersRemoved
<1>2. CASE thread'[t] # thread[t]
  <2>1. Runtime(t)
    <3>1. ASSUME NEW s \in Threads, NEW u \in Users, NEW c \in ContainerIds,
                 NEW op \in {"start", "stop", "delete"}, GetOwned(s, u, op, c)
          PROVE  FALSE
      BY <1>2, <3>1 DEF GetOwned, TypeOK
    <3>2. ASSUME NEW s \in Threads, Runtime(s)
          PROVE  s = t
      BY <1>2, <3>2 DEF Runtime, TypeOK
    <3>3. ASSUME NEW s \in Threads, UpdateRow(s) \/ DeleteRow(s)
          PROVE  FALSE
      BY <1>2, <3>3 DEF UpdateRow, DeleteRow, TypeOK
    <3>4. ~CrashRestart
      BY DEF CrashRestart
    <3>5. QED
      BY <1>2, <3>1, <3>2, <3>3, <3>4
      DEF Next, RunCreateJob, Serve, CreateAsync, MarkRunning, RuntimeCreate,
          SaveContainer, Rollback, RecordFinal, ContainerExits, vars
  <2> DEFINE op == thread[t].op
             d == thread[t].c.dockerID
  <2>2. thread[t] \in Request /\ d \in DockerIds
    BY <2>1 DEF Runtime, TypeOK, Request, Container
  <2>3. PICK o \in Outcomes :
          /\ DockerCall(op, d, o)
          /\ thread' =
                IF Succeeds(op, d, o)
                THEN [thread EXCEPT ![t].pc = "repo",
                        ![t].c.status = IF op = "delete" THEN @
                                                         ELSE StatusAfter[op]]
                ELSE [thread EXCEPT ![t] = Absent]
    BY <2>1 DEF Runtime
  <2>4. Succeeds(op, d, o)
    BY <2>3 DEF TypeOK
  <2>5. op = thread'[t].op /\ thread'[t].c.dockerID = d
    BY <2>2, <2>3, <2>4 DEF TypeOK, Request, Container
  <2>6. QED
    BY <2>2, <2>3, <2>4, <2>5, RemoveRemoves
<1>3. QED
  BY <1>1, <1>2

\* Whatever row DELETE was acknowledged for, its Docker container is gone.
LEMMA NextAckedDeleteRemoved ==
    ASSUME TypeOK, WorkersHoldFresh, IdentityStable, MintedInDocker,
           DeletersRemoved, AckedDeleteRemoved, [Next]_vars
    PROVE  AckedDeleteRemoved'
<1> SUFFICES ASSUME NEW c \in acked'
             PROVE  /\ minted'[c] # Absent
                    /\ docker'[minted'[c].dockerID].state = "removed"
  BY DEF AckedDeleteRemoved
<1>1. /\ c \in ContainerIds
      /\ minted[c] # Absent
      /\ docker[minted[c].dockerID].state = "removed"
  <2>1. CASE c \in acked
    BY <2>1 DEF AckedDeleteRemoved, TypeOK
  <2>2. CASE c \notin acked
    <3>1. PICK t \in Threads : DeleteRow(t)
      BY <2>2
      DEF Next, RunCreateJob, Serve, CreateAsync, MarkRunning, RuntimeCreate,
          SaveContainer, Rollback, RecordFinal, GetOwned, Runtime, UpdateRow,
          ContainerExits, CrashRestart, vars
    <3>2. c = thread[t].id
      BY <2>2, <3>1 DEF DeleteRow
    <3>3. QED
      BY <3>1, <3>2, RequestInDocker DEF DeleteRow, DeletersRemoved
  <2>3. QED
    BY <2>1, <2>2
<1>2. minted'[c] = minted[c] /\ minted[c].dockerID \in DockerIds
  BY <1>1, MintedOnce DEF TypeOK, Container
<1>3. docker'[minted[c].dockerID] = docker[minted[c].dockerID]
  BY <1>1, <1>2, DockerMonotone, FreshHaveID DEF MintedInDocker
<1>4. QED
  BY <1>1, <1>2, <1>3

-----------------------------------------------------------------------------
(* Delivery: what a job says about the container it created.               *)

\* A row goes only after its Docker container.
LEMMA DeliveredStays ==
    ASSUME TypeOK, TypeOK', WorkersHoldFresh, IdentityStable, MintedInDocker,
           DeletersRemoved, [Next]_vars,
           NEW c \in ContainerIds, minted[c] # Absent,
           rows[c] # Absent \/ docker[minted[c].dockerID].state = "removed"
    PROVE  /\ minted'[c] = minted[c]
           /\ \/ rows'[c] # Absent
              \/ docker'[minted[c].dockerID].state = "removed"
<1> DEFINE d == minted[c].dockerID
<1>1. minted'[c] = minted[c] /\ d \in DockerIds /\ docker[d] # Absent
  BY MintedOnce DEF TypeOK, Container, MintedInDocker
<1>2. CASE docker[d].state = "removed"
  BY <1>1, <1>2, DockerMonotone, FreshHaveID
<1>3. CASE rows[c] # Absent /\ rows'[c] = Absent
  <2>1. PICK t \in Threads : DeleteRow(t) /\ thread[t].id = c
    <3>1. ASSUME NEW j \in JobIds, SaveContainer(j)
          PROVE  FALSE
      <4>1. NewContainer(worker[j].job.user, worker[j].dockerID) # Absent
        BY <3>1, NewContainerType, FreshHaveID, AbsentAssumption
        DEF SaveContainer
      <4>2. QED
        BY <1>3, <3>1, <4>1 DEF SaveContainer, Upsert, TypeOK
    <3>2. ASSUME NEW t \in Threads, UpdateRow(t)
          PROVE  FALSE
      <4>1. thread[t].c # Absent
        BY <3>2, AbsentAssumption DEF UpdateRow, TypeOK, Request
      <4>2. QED
        BY <1>3, <3>2, <4>1 DEF UpdateRow, Upsert, TypeOK
    <3>3. ASSUME NEW t \in Threads, DeleteRow(t)
          PROVE  thread[t].id = c
      BY <1>3, <3>3 DEF DeleteRow, Upsert, TypeOK
    <3>4. QED
      BY <1>3, <3>1, <3>2, <3>3
      DEF Next, RunCreateJob, Serve, CreateAsync, MarkRunning, RuntimeCreate,
          Rollback, RecordFinal, GetOwned, Runtime, ContainerExits,
          CrashRestart, vars
  <2>2. docker'[d].state = "removed"
    BY <2>1, RequestInDocker DEF DeleteRow, DeletersRemoved
  <2>3. QED
    BY <1>1, <2>2
<1>4. QED
  BY <1>1, <1>2, <1>3

\* Everything about identity and deletion.
\* What holds of the two stores, used by the facts about jobs.
StoresInv == /\ TypeOK
             /\ WorkersHoldFresh
             /\ IdentityStable
             /\ MintedInDocker
             /\ DeletersRemoved

\* runCreateJob's copy of its job stays ahead of the row by at most the update
\* it is about to write.
LEMMA NextTracks ==
    ASSUME StoresInv, TypeOK', WorkersTrackJobs, [Next]_vars
    PROVE  WorkersTrackJobs'
<1>1. ASSUME NEW c \in ContainerIds, minted[c] # Absent,
             rows[c] # Absent \/ docker[minted[c].dockerID].state = "removed"
      PROVE  /\ minted'[c] = minted[c]
             /\ \/ rows'[c] # Absent
                \/ docker'[minted[c].dockerID].state = "removed"
  BY <1>1, DeliveredStays DEF StoresInv
<1>2. ASSUME NEW k \in JobIds, worker[k] # Absent,
             worker'[k] = worker[k], jobs'[k] = jobs[k]
      PROVE  Tracks(k)'
  BY <1>1, <1>2 DEF WorkersTrackJobs, Tracks, Delivered, At
<1>3. ASSUME NEW u \in Users, NEW n \in Names, CreateAsync(u, n)
      PROVE  WorkersTrackJobs'
  <2>1. PICK j \in JobIds, o \in Outcomes :
          /\ jobs[j] = Absent
          /\ jobs' = Upsert(jobs, j, NewJob(u), o)
          /\ worker' = IF o = "ok"
                       THEN [worker EXCEPT ![j] =
                              [pc |-> "mark", job |-> NewJob(u),
                               name |-> n, dockerID |-> Absent]]
                       ELSE worker
    BY <1>3 DEF CreateAsync
  <2>2. worker[j] = Absent
    BY <2>1 DEF WorkersTrackJobs, Tracks
  <2>3. \A k \in JobIds \ {j} : worker'[k] = worker[k] /\ jobs'[k] = jobs[k]
    BY <2>1 DEF Upsert, StoresInv, TypeOK
  <2>4. ASSUME worker'[j] # Absent
        PROVE  Tracks(j)'
    <3>1. /\ o = "ok"
          /\ jobs'[j] = NewJob(u)
          /\ worker'[j].job = NewJob(u)
          /\ worker'[j].pc = "mark"
      BY <2>1, <2>2, <2>4 DEF Upsert, Applied, StoresInv, TypeOK
    <3>2. NewJob(u) # Absent
      BY AbsentAssumption DEF NewJob, Job, JobStatus
    <3>3. QED
      BY <3>1, <3>2 DEF Tracks, NewJob, At
  <2>5. QED
    BY <1>2, <2>3, <2>4 DEF WorkersTrackJobs
<1>4. ASSUME NEW j \in JobIds, MarkRunning(j)
      PROVE  WorkersTrackJobs'
  <2> DEFINE job == [worker[j].job EXCEPT !.status = "running"]
  <2>1. PICK o \in Outcomes : jobs' = Upsert(jobs, j, job, o)
    BY <1>4 DEF MarkRunning
  <2>2. worker[j] \in Worker /\ worker[j] # Absent /\ worker[j].pc = "mark"
    BY <1>4 DEF MarkRunning, At, StoresInv, TypeOK
  <2>3. /\ worker'[j].pc = "create"
        /\ worker'[j].job = job
        /\ \A k \in JobIds \ {j} : worker'[k] = worker[k]
    BY <1>4, <2>2 DEF MarkRunning, StoresInv, TypeOK, Worker
  <2>4. /\ jobs'[j] = jobs[j] \/ jobs'[j] = job
        /\ \A k \in JobIds \ {j} : jobs'[k] = jobs[k]
    BY <2>1 DEF Upsert, StoresInv, TypeOK
  <2>5. /\ job \in Job
        /\ job # Absent
        /\ job.status = "running"
        /\ job.user = worker[j].job.user
        /\ job.containerID = worker[j].job.containerID
    BY <2>2, AbsentAssumption DEF Worker, Job, JobStatus
  <2>6. Tracks(j) /\ worker[j].job.containerID = Absent
    BY <2>2 DEF WorkersTrackJobs, Tracks, At
  <2>7. Tracks(j)'
    BY <2>3, <2>4, <2>5, <2>6 DEF Tracks, At
  <2>8. QED
    BY <1>2, <2>3, <2>4, <2>7 DEF WorkersTrackJobs
<1>5. ASSUME NEW j \in JobIds, worker[j] # Absent, ~At(j, "record"),
             jobs' = jobs, worker' = Failed(j)
      PROVE  WorkersTrackJobs'
  <2>1. worker[j] \in Worker
    BY <1>5 DEF StoresInv, TypeOK
  <2>2. /\ worker'[j].pc = "record"
        /\ worker'[j].job.status = "failed"
        /\ worker'[j].job.user = worker[j].job.user
        /\ worker'[j].job.containerID = worker[j].job.containerID
        /\ \A k \in JobIds \ {j} : worker'[k] = worker[k]
    BY <1>5, <2>1 DEF Failed, StoresInv, TypeOK, Worker, Job
  <2>3. Tracks(j)'
    BY <1>5, <2>2 DEF WorkersTrackJobs, Tracks, At
  <2>4. QED
    BY <1>2, <1>5, <2>2, <2>3 DEF WorkersTrackJobs
<1>6. ASSUME NEW j \in JobIds, RuntimeCreate(j)
      PROVE  WorkersTrackJobs'
  <2>1. worker[j] \in Worker /\ worker[j] # Absent /\ worker[j].pc = "create"
    BY <1>6 DEF RuntimeCreate, At, StoresInv, TypeOK
  <2>2. CASE worker' = Failed(j)
    BY <1>5, <1>6, <2>1, <2>2 DEF RuntimeCreate, At
  <2>3. CASE worker' # Failed(j)
    <3>1. PICK d \in DockerIds :
            worker' = [worker EXCEPT ![j].pc = "save", ![j].dockerID = d]
      BY <1>6, <2>3 DEF RuntimeCreate, OnConflict
    <3>2. /\ worker'[j].pc = "save"
          /\ worker'[j].job = worker[j].job
          /\ \A k \in JobIds \ {j} : worker'[k] = worker[k]
      BY <2>1, <3>1 DEF StoresInv, TypeOK, Worker
    <3>3. Tracks(j)'
      BY <1>6, <2>1, <3>2 DEF RuntimeCreate, WorkersTrackJobs, Tracks, At
    <3>4. QED
      BY <1>2, <1>6, <3>2, <3>3 DEF RuntimeCreate, WorkersTrackJobs
  <2>4. QED
    BY <2>2, <2>3
<1>7. ASSUME NEW j \in JobIds, SaveContainer(j)
      PROVE  WorkersTrackJobs'
  <2> DEFINE row == NewContainer(worker[j].job.user, worker[j].dockerID)
  <2>1. PICK c \in ContainerIds, o \in Outcomes :
          /\ minted' = [minted EXCEPT ![c] = row]
          /\ rows' = Upsert(rows, c, row, o)
          /\ worker' = IF o = "ok" THEN Succeeded(j, c) ELSE SaveFailed(j)
    BY <1>7 DEF SaveContainer
  <2>2. /\ worker[j] \in Worker /\ worker[j] # Absent /\ worker[j].pc = "save"
        /\ jobs' = jobs
    BY <1>7 DEF SaveContainer, At, StoresInv, TypeOK
  <2>3. CASE o = "ok"
    <3>1. /\ worker'[j].pc = "record"
          /\ worker'[j].job.status = "success"
          /\ worker'[j].job.user = worker[j].job.user
          /\ worker'[j].job.containerID = c
          /\ \A k \in JobIds \ {j} : worker'[k] = worker[k]
      BY <2>1, <2>2, <2>3 DEF Succeeded, StoresInv, TypeOK, Worker, Job
    <3>2. row \in Container
      BY <1>7, NewContainerType, FreshHaveID DEF SaveContainer, StoresInv
    <3>3. /\ minted'[c] = row /\ row # Absent
          /\ rows'[c] = row
          /\ row.user = worker[j].job.user
      BY <2>1, <2>3, <3>2, AbsentAssumption
      DEF Upsert, Applied, StoresInv, TypeOK, NewContainer
    <3>4. Delivered(worker[j].job)'
      BY <3>1, <3>3 DEF Delivered
    <3>5. worker'[j] # Absent
      <4>1. worker'[j] \in Worker
        BY <2>1, <2>2, <2>3
        DEF Succeeded, StoresInv, TypeOK, Worker, Job, JobStatus
      <4>2. QED
        BY <4>1, AbsentAssumption
    <3>6. Tracks(j)'
      BY <2>2, <3>1, <3>4, <3>5 DEF WorkersTrackJobs, Tracks, At
    <3>7. QED
      BY <1>2, <2>2, <3>1, <3>6 DEF WorkersTrackJobs
  <2>4. CASE o # "ok"
    <3>1. /\ worker'[j].pc = "rollback"
          /\ worker'[j].job = worker[j].job
          /\ \A k \in JobIds \ {j} : worker'[k] = worker[k]
      BY <2>1, <2>2, <2>4 DEF SaveFailed, StoresInv, TypeOK, Worker
    <3>2. Tracks(j)'
      BY <2>2, <3>1 DEF WorkersTrackJobs, Tracks, At
    <3>3. QED
      BY <1>2, <2>2, <3>1, <3>2 DEF WorkersTrackJobs
  <2>5. QED
    BY <2>3, <2>4
<1>8. ASSUME NEW j \in JobIds, Rollback(j)
      PROVE  WorkersTrackJobs'
  BY <1>5, <1>8 DEF Rollback, At
<1>9. ASSUME NEW j \in JobIds, RecordFinal(j)
      PROVE  WorkersTrackJobs'
  <2>1. /\ worker'[j] = Absent
        /\ \A k \in JobIds \ {j} : worker'[k] = worker[k] /\ jobs'[k] = jobs[k]
    BY <1>9 DEF RecordFinal, Finished, Upsert, StoresInv, TypeOK
  <2>2. QED
    BY <1>2, <2>1 DEF WorkersTrackJobs
<1>10. CASE CrashRestart
  BY <1>10 DEF CrashRestart, WorkersTrackJobs
<1>11. CASE UNCHANGED <<jobs, worker>>
  BY <1>2, <1>11 DEF WorkersTrackJobs
<1>12. QED
  BY <1>3, <1>4, <1>6, <1>7, <1>8, <1>9, <1>10, <1>11
  DEF Next, RunCreateJob, Serve, GetOwned, Runtime, UpdateRow, DeleteRow,
      ContainerExits, vars

\* RecordFinal writes "success" only for a container that SaveContainer saved.
LEMMA NextSuccessDelivered ==
    ASSUME StoresInv, TypeOK', WorkersTrackJobs, SuccessDelivered, [Next]_vars
    PROVE  SuccessDelivered'
<1> SUFFICES ASSUME NEW j \in JobIds, jobs'[j] # Absent,
                    jobs'[j].status = "success"
             PROVE  Delivered(jobs[j])'
  BY DEF SuccessDelivered
<1>1. ASSUME NEW c \in ContainerIds, minted[c] # Absent,
             rows[c] # Absent \/ docker[minted[c].dockerID].state = "removed"
      PROVE  /\ minted'[c] = minted[c]
             /\ \/ rows'[c] # Absent
                \/ docker'[minted[c].dockerID].state = "removed"
  BY <1>1, DeliveredStays DEF StoresInv
<1>2. CASE jobs'[j] = jobs[j]
  BY <1>1, <1>2 DEF SuccessDelivered, Delivered
<1>3. CASE jobs'[j] # jobs[j]
  <2>1. ASSUME NEW u \in Users, NEW n \in Names, CreateAsync(u, n)
        PROVE  FALSE
    BY <1>3, <2>1 DEF CreateAsync, Upsert, NewJob, StoresInv, TypeOK
  <2>2. ASSUME NEW k \in JobIds, MarkRunning(k)
        PROVE  FALSE
    <3>1. worker[k].job \in Job
      BY <2>2 DEF MarkRunning, At, StoresInv, TypeOK, Worker
    <3>2. QED
      BY <1>3, <2>2, <3>1 DEF MarkRunning, Upsert, StoresInv, TypeOK, Job
  <2>3. ASSUME NEW k \in JobIds, RecordFinal(k)
        PROVE  k = j /\ jobs'[j] = worker[j].job /\ worker[j] # Absent
    BY <1>3, <2>3 DEF RecordFinal, At, Upsert, StoresInv, TypeOK
  <2>4. jobs'[j] = worker[j].job /\ worker[j] # Absent
    BY <1>3, <2>1, <2>2, <2>3
    DEF Next, RunCreateJob, Serve, RuntimeCreate, SaveContainer, Rollback,
        GetOwned, Runtime, UpdateRow, DeleteRow, ContainerExits, CrashRestart,
        vars
  <2>5. Delivered(worker[j].job)
    BY <2>4 DEF WorkersTrackJobs, Tracks
  <2>6. QED
    BY <1>1, <2>4, <2>5 DEF Delivered
<1>4. QED
  BY <1>2, <1>3

\* SaveContainer names a UUID that no job has named before.
LEMMA NextNamedOnce ==
    ASSUME StoresInv, TypeOK', WorkersTrackJobs, NamedOnce, [Next]_vars
    PROVE  NamedOnce'
<1>1. \A c \in ContainerIds : c # Absent
  BY AbsentAssumption
\* Enough for every step but repo.Save: nothing new is named.
<1>2. ASSUME \A j \in JobIds, c \in ContainerIds : Naming(j, c)' => Naming(j, c)
      PROVE  NamedOnce'
  <2>1. \A c \in ContainerIds : minted[c] # Absent => minted'[c] # Absent
    BY MintedOnce DEF StoresInv
  <2>2. QED
    BY <1>2, <2>1 DEF NamedOnce
<1>3. ASSUME NEW u \in Users, NEW n \in Names, CreateAsync(u, n)
      PROVE  NamedOnce'
  <2>1. NewJob(u).containerID = Absent
    BY DEF NewJob
  <2>2. ASSUME NEW j \in JobIds
        PROVE  /\ \/ jobs'[j] = jobs[j]
                  \/ jobs'[j] = NewJob(u)
               /\ \/ worker'[j] = worker[j]
                  \/ worker'[j].job = NewJob(u)
    BY <1>3 DEF CreateAsync, Upsert, StoresInv, TypeOK
  <2>3. QED
    BY <1>1, <1>2, <2>1, <2>2 DEF Naming
<1>4. ASSUME NEW j \in JobIds, MarkRunning(j)
      PROVE  NamedOnce'
  <2> DEFINE job == [worker[j].job EXCEPT !.status = "running"]
  <2>1. worker[j] \in Worker /\ worker[j] # Absent
    BY <1>4 DEF MarkRunning, At, StoresInv, TypeOK
  <2>2. job.containerID = worker[j].job.containerID
    BY <2>1 DEF Worker, Job
  <2>3. /\ worker'[j].job = job
        /\ \A k \in JobIds \ {j} : worker'[k] = worker[k] /\ jobs'[k] = jobs[k]
        /\ jobs'[j] = jobs[j] \/ jobs'[j] = job
    BY <1>4, <2>1 DEF MarkRunning, Upsert, StoresInv, TypeOK, Worker
  <2>4. QED
    BY <1>2, <2>1, <2>2, <2>3 DEF Naming
<1>5. ASSUME NEW j \in JobIds, jobs' = jobs, worker[j] # Absent,
             worker'[j].job.containerID = worker[j].job.containerID,
             \A k \in JobIds \ {j} : worker'[k] = worker[k]
      PROVE  NamedOnce'
  BY <1>2, <1>5 DEF Naming
<1>6. ASSUME NEW j \in JobIds, RuntimeCreate(j)
      PROVE  NamedOnce'
  <2>1. worker[j] \in Worker /\ worker[j] # Absent
    BY <1>6 DEF RuntimeCreate, At, StoresInv, TypeOK
  <2>2. /\ worker'[j].job.containerID = worker[j].job.containerID
        /\ \A k \in JobIds \ {j} : worker'[k] = worker[k]
        /\ jobs' = jobs
    BY <1>6, <2>1
    DEF RuntimeCreate, OnConflict, Failed, StoresInv, TypeOK, Worker, Job
  <2>3. QED
    BY <1>5, <2>1, <2>2
<1>7. ASSUME NEW j \in JobIds, SaveContainer(j)
      PROVE  NamedOnce'
  <2> DEFINE row == NewContainer(worker[j].job.user, worker[j].dockerID)
  <2>1. PICK c \in ContainerIds, o \in Outcomes :
          /\ minted[c] = Absent
          /\ minted' = [minted EXCEPT ![c] = row]
          /\ worker' = IF o = "ok" THEN Succeeded(j, c) ELSE SaveFailed(j)
    BY <1>7 DEF SaveContainer
  <2>2. worker[j] \in Worker /\ worker[j] # Absent /\ jobs' = jobs
    BY <1>7 DEF SaveContainer, At, StoresInv, TypeOK
  <2>3. CASE o = "ok"
    <3>1. /\ worker'[j].job.containerID = c
          /\ \A k \in JobIds \ {j} : worker'[k] = worker[k]
      BY <2>1, <2>2, <2>3 DEF Succeeded, StoresInv, TypeOK, Worker, Job
    <3>2. minted'[c] # Absent
      <4>1. row \in Container
        BY <1>7, NewContainerType, FreshHaveID DEF SaveContainer, StoresInv
      <4>2. QED
        BY <2>1, <4>1, AbsentAssumption DEF StoresInv, TypeOK
    <3>3. \A k \in JobIds : ~Naming(k, c)
      BY <2>1 DEF NamedOnce
    <3>4. \A k \in JobIds, b \in ContainerIds :
            Naming(k, b)' => (k = j /\ b = c) \/ (b # c /\ Naming(k, b))
      BY <2>2, <3>1, <3>3 DEF Naming
    <3>5. \A b \in ContainerIds : minted[b] # Absent => minted'[b] # Absent
      BY MintedOnce DEF StoresInv
    <3>6. QED
      BY <3>2, <3>4, <3>5 DEF NamedOnce
  <2>4. CASE o # "ok"
    <3>1. /\ worker'[j].job = worker[j].job
          /\ \A k \in JobIds \ {j} : worker'[k] = worker[k]
      BY <2>1, <2>2, <2>4 DEF SaveFailed, StoresInv, TypeOK, Worker
    <3>2. QED
      BY <1>5, <2>2, <3>1
  <2>5. QED
    BY <2>3, <2>4
<1>8. ASSUME NEW j \in JobIds, Rollback(j)
      PROVE  NamedOnce'
  <2>1. worker[j] \in Worker /\ worker[j] # Absent
    BY <1>8 DEF Rollback, At, StoresInv, TypeOK
  <2>2. QED
    BY <1>5, <1>8, <2>1 DEF Rollback, Failed, StoresInv, TypeOK, Worker, Job
<1>9. ASSUME NEW j \in JobIds, RecordFinal(j)
      PROVE  NamedOnce'
  <2>1. /\ worker[j] # Absent
        /\ worker'[j] = Absent
        /\ \A k \in JobIds \ {j} : worker'[k] = worker[k] /\ jobs'[k] = jobs[k]
        /\ jobs'[j] = jobs[j] \/ jobs'[j] = worker[j].job
    BY <1>9 DEF RecordFinal, At, Finished, Upsert, StoresInv, TypeOK
  <2>2. QED
    BY <1>2, <2>1 DEF Naming
<1>10. CASE CrashRestart
  BY <1>2, <1>10 DEF CrashRestart, Naming
<1>11. CASE UNCHANGED <<jobs, worker>>
  BY <1>2, <1>11 DEF Naming
<1>12. QED
  BY <1>3, <1>4, <1>6, <1>7, <1>8, <1>9, <1>10, <1>11
  DEF Next, RunCreateJob, Serve, GetOwned, Runtime, UpdateRow, DeleteRow,
      ContainerExits, vars

-----------------------------------------------------------------------------
(* The theorems.                                                           *)

\* The inductive invariant holds before the first request.
LEMMA InitIInv == Init => IInv
BY InitTypes
DEF Init, IInv, IdentityStable, MintedInDocker, WorkersHoldFresh, Holds, At,
    DeletersRemoved, AckedDeleteRemoved, WorkersTrackJobs, SuccessDelivered,
    NamedOnce, Naming

\* Every step of every request, goroutine and crash keeps the inductive
\* invariant.
LEMMA NextIInv == IInv /\ [Next]_vars => IInv'
<1> SUFFICES ASSUME IInv, [Next]_vars PROVE IInv'
  OBVIOUS
<1>1. TypeOK'
  BY NextTypeOK, FreshHaveID DEF IInv
<1>2. IdentityStable'
  BY <1>1, NextIdentityStable DEF IInv
<1>3. MintedInDocker'
  BY NextMintedInDocker DEF IInv
<1>4. WorkersHoldFresh'
  BY <1>1, NextWorkersHoldFresh DEF IInv
<1>5. DeletersRemoved'
  BY NextDeletersRemoved DEF IInv
<1>6. AckedDeleteRemoved'
  BY NextAckedDeleteRemoved DEF IInv
<1>7. WorkersTrackJobs' /\ SuccessDelivered' /\ NamedOnce'
  BY <1>1, NextTracks, NextSuccessDelivered, NextNamedOnce DEF IInv, StoresInv
<1>8. QED
  BY <1>1, <1>2, <1>3, <1>4, <1>5, <1>6, <1>7 DEF IInv

\* The inductive invariant holds in every reachable state.
THEOREM Invariance == Spec => []IInv
BY InitIInv, NextIInv, PTL DEF Spec

\* Owner and Docker ID of a container never change, in the table or in any
\* request's stale copy, and no two containers share a Docker ID.
THEOREM IdentityIsStable == Spec => []IdentityStable
BY Invariance, PTL DEF IInv

\* DELETE is answered 204 only once the Docker container is gone for good.
THEOREM DeletesAreHonest == Spec => []AckedDeleteRemoved
BY Invariance, PTL DEF IInv

\* A job that reads "success" delivered its user's container.
THEOREM SuccessIsDelivered == Spec => []SuccessDelivered
BY Invariance, PTL DEF IInv

\* A step on the jobs table is a step of the job board or none.
LEMMA BoardStep == IInv /\ [Next]_vars => [Board!Next]_jobs
<1> SUFFICES ASSUME IInv, [Next]_vars, jobs' # jobs
             PROVE  Board!Next
  BY DEF Board!Next
<1> USE DEF IInv
<1>1. ASSUME NEW u \in Users, NEW n \in Names, CreateAsync(u, n)
      PROVE  Board!Next
  <2>1. PICK j \in JobIds : /\ jobs[j] = Absent
                            /\ jobs' = [jobs EXCEPT ![j] = NewJob(u)]
    BY <1>1 DEF CreateAsync, Upsert
  <2>2. Board!Submit(j, u)
    BY <2>1 DEF Board!Submit, NewJob
  <2>3. QED
    BY <2>2 DEF Board!Next
<1>2. ASSUME NEW j \in JobIds, MarkRunning(j)
      PROVE  Board!Next
  <2> DEFINE job == [worker[j].job EXCEPT !.status = "running"]
  <2>1. /\ worker[j] # Absent /\ worker[j].pc = "mark"
        /\ worker[j].job \in Job /\ jobs[j] \in Job
        /\ jobs' = [jobs EXCEPT ![j] = job]
    BY <1>2
    DEF MarkRunning, At, Upsert, TypeOK, Worker, WorkersTrackJobs, Tracks
  <2>2. /\ jobs[j] # Absent
        /\ jobs[j].status = "pending"
        /\ jobs[j].user = worker[j].job.user
        /\ jobs[j].containerID = worker[j].job.containerID
    BY <2>1 DEF WorkersTrackJobs, Tracks, At
  <2>3. job = [jobs[j] EXCEPT !.status = "running"]
    BY <2>1, <2>2 DEF Job
  <2>4. Board!Begin(j)
    BY <2>1, <2>2, <2>3 DEF Board!Begin
  <2>5. QED
    BY <2>4 DEF Board!Next
<1>3. ASSUME NEW j \in JobIds, RecordFinal(j)
      PROVE  Board!Next
  <2> DEFINE job == worker[j].job
  <2>1. /\ worker[j] # Absent /\ worker[j].pc = "record"
        /\ job \in Job /\ jobs[j] \in Job
        /\ jobs' = [jobs EXCEPT ![j] = job]
    BY <1>3
    DEF RecordFinal, At, Upsert, TypeOK, Worker, WorkersTrackJobs, Tracks
  <2>2. /\ jobs[j] # Absent
        /\ jobs[j].status \notin Board!Settled
        /\ jobs[j].user = job.user
        /\ jobs[j].containerID = Absent
        /\ job.status \in {"success", "failed"}
    BY <2>1 DEF WorkersTrackJobs, Tracks, At, Board!Settled
  <2>3. CASE job.status = "failed"
    <3>1. job.containerID = Absent
      BY <2>1, <2>3 DEF WorkersTrackJobs, Tracks
    <3>2. job = [jobs[j] EXCEPT !.status = "failed"]
      BY <2>1, <2>2, <2>3, <3>1 DEF Job
    <3>3. Board!Fail(j)
      BY <2>1, <2>2, <3>2 DEF Board!Fail
    <3>4. QED
      BY <3>3 DEF Board!Next
  <2>4. CASE job.status = "success"
    <3> DEFINE c == job.containerID
    <3>1. c \in ContainerIds
      BY <2>1, <2>4 DEF WorkersTrackJobs, Tracks, Delivered
    <3>2. c \notin Board!Named
      <4>1. SUFFICES ASSUME NEW k \in JobIds, jobs[k] # Absent,
                            jobs[k].containerID = c
                     PROVE  FALSE
        BY DEF Board!Named
      <4>2. k = j
        BY <2>1, <3>1, <4>1 DEF NamedOnce, Naming
      <4>3. QED
        BY <2>2, <3>1, <4>1, <4>2, AbsentAssumption
    <3>3. job = [jobs[j] EXCEPT !.status = "success", !.containerID = c]
      BY <2>1, <2>2, <2>4 DEF Job
    <3>4. jobs' = [jobs EXCEPT ![j].status = "success", ![j].containerID = c]
      BY <2>1, <3>3 DEF TypeOK
    <3>5. Board!Succeed(j, c)
      BY <2>2, <3>2, <3>4 DEF Board!Succeed
    <3>6. QED
      BY <3>1, <3>5 DEF Board!Next
  <2>5. QED
    BY <2>2, <2>3, <2>4
<1>4. QED
  BY <1>1, <1>2, <1>3
  DEF Next, RunCreateJob, Serve, RuntimeCreate, SaveContainer, Rollback,
      GetOwned, Runtime, UpdateRow, DeleteRow, ContainerExits, CrashRestart,
      vars

\* The jobs table, as polling clients see it, is a job board: every job is
\* submitted pending, settles at most once, and names a container of its own.
THEOREM ImplementsJobBoard == Spec => BoardSpec
<1>1. Init => Board!Init
  BY DEF Init, Board!Init
<1>2. QED
  BY <1>1, Invariance, BoardStep, PTL DEF Spec, BoardSpec, Board!Spec

\* Any step that touches a container or its row is its owner's, or the
\* container exiting.
LEMMA OwnersStep ==
    ASSUME IInv, IInv', [Next]_vars, NEW c \in ContainerIds, minted[c] # Absent
    PROVE  OwnerStep(c)
<1> DEFINE d == minted[c].dockerID
<1>1. d \in DockerIds /\ docker[d] # Absent
  BY DEF IInv, TypeOK, Container, MintedInDocker
<1>2. ASSUME NEW t \in Threads, Runtime(t)
      PROVE  OwnerStep(c)
  <2>1. rows' = rows /\ thread[t] \in Request /\ thread[t] # Absent
    BY <1>2 DEF Runtime, IInv, TypeOK
  <2>2. CASE docker'[d] # docker[d]
    <3>1. thread[t].c.dockerID = d
      <4>1. PICK o \in Outcomes :
              DockerCall(thread[t].op, thread[t].c.dockerID, o)
        BY <1>2 DEF Runtime
      <4>2. QED
        BY <1>1, <2>2, <4>1 DEF DockerCall, IInv, TypeOK
    <3>2. thread[t].id = c /\ thread[t].user = minted[c].user
      BY <2>1, <3>1 DEF IInv, TypeOK, IdentityStable, SameIdentity, Request
    <3>3. thread'[t] # thread[t]
      <4>1. thread[t].pc = "runtime" /\ Absent \notin Request
        BY <1>2, AbsentAssumption DEF Runtime
      <4>2. thread'[t] = Absent \/ thread'[t].pc = "repo"
        BY <1>2, <2>1 DEF Runtime, IInv, TypeOK, Request
      <4>3. QED
        BY <2>1, <4>1, <4>2
    <3>4. QED
      BY <2>1, <3>2, <3>3 DEF OwnerStep, RequestStep, WorkingOn
  <2>3. QED
    BY <2>1, <2>2 DEF OwnerStep
<1>3. ASSUME NEW t \in Threads, UpdateRow(t) \/ DeleteRow(t)
      PROVE  OwnerStep(c)
  <2>1. /\ docker' = docker
        /\ thread[t] \in Request /\ thread[t] # Absent
        /\ thread'[t] = Absent
    BY <1>3 DEF UpdateRow, DeleteRow, IInv, TypeOK
  <2>2. rows'[c] # rows[c] => thread[t].id = c
    BY <1>3 DEF UpdateRow, DeleteRow, Upsert, IInv, TypeOK
  <2>3. thread[t].user = minted[thread[t].id].user
    BY <2>1 DEF IInv, IdentityStable, SameIdentity
  <2>4. QED
    BY <2>1, <2>2, <2>3 DEF OwnerStep, RequestStep, WorkingOn
<1>4. ASSUME NEW j \in JobIds, Rollback(j)
      PROVE  OwnerStep(c)
  <2>1. /\ At(j, "rollback") /\ worker[j] \in Worker
        /\ rows' = rows
        /\ worker' = Failed(j)
    BY <1>4 DEF Rollback, At, IInv, TypeOK
  <2>2. worker'[j] # worker[j]
    BY <2>1 DEF Failed, At, IInv, TypeOK, Worker
  <2>3. CASE docker'[d] # docker[d]
    <3>1. Holds(j, d)
      BY <1>1, <1>4, <2>1, <2>3 DEF Rollback, DockerCall, Holds, IInv, TypeOK
    <3>2. worker[j].job.user = minted[c].user
      BY <3>1 DEF IInv, WorkersHoldFresh
    <3>3. QED
      BY <2>1, <2>2, <3>2 DEF OwnerStep, RollbackStep
  <2>4. QED
    BY <2>1, <2>3 DEF OwnerStep
<1>5. ASSUME NEW j \in JobIds, RuntimeCreate(j)
      PROVE  OwnerStep(c)
  <2>1. docker'[d] = docker[d]
    BY <1>1, <1>5 DEF RuntimeCreate, Upsert, IInv, TypeOK
  <2>2. QED
    BY <1>5, <2>1 DEF RuntimeCreate, OwnerStep
<1>6. ASSUME NEW j \in JobIds, SaveContainer(j)
      PROVE  OwnerStep(c)
  BY <1>6 DEF SaveContainer, Upsert, OwnerStep, IInv, TypeOK
<1>7. ASSUME NEW e \in DockerIds, ContainerExits(e)
      PROVE  OwnerStep(c)
  <2>1. docker[e] \in DockerContainer
    BY <1>7 DEF ContainerExits, Exists, IInv, TypeOK
  <2>2. docker'[d] # docker[d] => ExitStep(d)
    BY <1>1, <1>7, <2>1
    DEF ContainerExits, ExitStep, IInv, TypeOK, DockerContainer
  <2>3. QED
    BY <1>7, <2>2 DEF ContainerExits, OwnerStep
<1>8. CASE UNCHANGED <<rows, docker>>
  BY <1>8 DEF OwnerStep
<1>9. QED
  BY <1>2, <1>3, <1>4, <1>5, <1>6, <1>7, <1>8
  DEF Next, RunCreateJob, Serve, CreateAsync, MarkRunning, RecordFinal,
      GetOwned, CrashRestart, vars

\* Nobody but a container's owner has its row or its Docker container changed.
THEOREM OwnersOnly == Spec => OnlyOwnerActs
<1>1. IInv /\ IInv' /\ [Next]_vars =>
        [\A c \in ContainerIds : minted[c] # Absent => OwnerStep(c)]_vars
  BY OwnersStep
<1>2. QED
  BY <1>1, Invariance, PTL DEF Spec, OnlyOwnerActs

=============================================================================
