# Verification of aidms-backend

TLA+ specifications of the AIDMS backend, a Go service through which users
create, start, stop and delete Docker containers and keep files. The modules
are translated from the code; TLC checks them on small instances, and TLAPS
proves all the safety properties that hold, and the three refinements, for every
instance.

## 1. The system

`cmd/api/main.go` wires one process: a Gin HTTP server in front of the use-case
services, which keep their state in PostgreSQL (through GORM repositories), in
the Docker daemon and on disk, and a logger that every request uses.

| Component | State it keeps | Operations |
|---|---|---|
| ContainerService (`internal/usecase/container`) | the containers and jobs tables; containers in the Docker daemon; a goroutine per create job, counted by a WaitGroup | CreateAsync, runCreateJob (with Create), Start, Stop, Delete, Get, List, Wait |
| Docker runtime (`internal/docker`) | none of its own; calls the daemon without a deadline | Create (pull, create), Start, Stop, Remove |
| JobService, JobHandler | none; read the jobs table | Get |
| FileService (`internal/usecase/file`) | the files table; one file on disk per row | Upload, Delete, Get, List |
| UserService (`internal/usecase/user`) | the users table | Register, Login |
| LogManager (`internal/logger/manager.go`) | a channel of 256 entries, the list of handlers, the goroutine `run` | WriteLog, WriteLogFields, ReadLogs, ClearLogs, RegisterLogHandler, Close |
| FileLogStore, InMemoryLogStore | a JSON-lines file; a slice | Write, Read, Clear |
| AuthMiddleware | none | the user ID of a request, from its token |
| LoggingMiddleware | none | one log entry per request |
| main | the phase of the process | serve, signal, Shutdown, Wait, Close, exit |

How they interact: net/http runs every request on a goroutine of its own.
After authentication the handler calls one service method; the service makes a
few calls to PostgreSQL, Docker or the disk, none of them in a common
transaction, and nothing keeps two requests on one container or file apart.
`POST /containers` only inserts a job row and leaves a goroutine behind that
does the work and records the outcome; clients poll `GET /jobs/{id}`. After the
handler LoggingMiddleware sends one entry to LogManager's channel. On SIGINT or
SIGTERM main stops the HTTP server (ten seconds at most), waits for the create
jobs and closes the logger, in this order.

What is hard here, and what makes each component correct:

- **ContainerService**: two stores without a transaction, concurrent requests
  on one container, stale entities written back, compensation, crashes with
  jobs in flight. Correct means: a row never changes owner or Docker ID and
  only its owner's requests act on the container; a job reports success only
  for a container that was delivered, once; a DELETE is acknowledged only when
  the container is gone; no container is left in Docker that no row names;
  rows and Docker agree; jobs end.
- **FileService**: the same with the disk in Docker's place. Correct means: a
  row always has its content, an acknowledged upload stays until it is deleted,
  a deleted file is gone, no content is left without a row.
- **LogManager**: many senders, one receiver, a bounded buffer, Close at any
  time. Correct means: accepted entries are handed to the backend once each and
  in order, handlers miss none, blocked callers get on, Close returns after the
  last.
- **The process**: no request, job or log entry is cut off between the signal
  and the exit.
- **UserService, AuthMiddleware**: Register reads and inserts in two steps, a
  token is valid for 24 hours whatever happens to the process, and no request
  looks at the users table again. Correct means: one account per email, kept by
  whoever was answered 201, who is never told afterwards that the credentials are
  wrong; a request runs as who logged in.
- **JobService**: a job is polled under several tokens, by reads that fail, and
  across restarts. Correct means: only its owner sees it, it never goes back,
  and it is not denied to whom it was handed.
- **Log stores**: what was written is read back, in order; Clear removes only
  what is old.

`PROJECT.json` lists the hazards one by one with their lines.

## 2. The modules

| Module | Models | Notes |
|---|---|---|
| `ContainerService.tla` | ContainerService, its repositories, the Docker runtime and daemon | the core |
| `JobBoard.tla` | how the jobs table may change | abstract specification, implemented by ContainerService |
| `ContainerServiceProofs.tla` | theorems about ContainerService | TLAPS |
| `ContainerFaultProofs.tla` | what its compensation and its rows rest on | TLAPS, uses the module above |
| `Accounts.tla` | UserService, UserHandler, AuthMiddleware | |
| `JobPolling.tla` | JobService, JobHandler, ContainerHandler.Create | composes Accounts and JobBoard (INSTANCE) |
| `JobPollingProofs.tla` | theorems about JobPolling and Accounts | TLAPS |
| `LogManager.tla` | LogManager | |
| `LogStream.tla` | what LogManager promises its callers | abstract specification, implemented by LogManager |
| `LogManagerProofs.tla` | theorems about LogManager | TLAPS |
| `FileLogStore.tla` | FileLogStore, the JSON-lines file | |
| `Filtering.tla` | the loop by which the stores select entries | used by FileLogStore, LogTable, LogManager |
| `FilteringProofs.tla` | what that loop returns | TLAPS, lemmas for the next and for LogManagerProofs |
| `FileLogStoreProofs.tla` | theorems about FileLogStore | TLAPS |
| `LogTable.tla` | InMemoryLogStore, and what a store that fails half-way may lose | abstract specification, implemented by FileLogStore |
| `Server.tla` | main, LoggingMiddleware, the WaitGroup | composes LogManager (INSTANCE) with requests and jobs |
| `ServerProofs.tla` | theorems about Server | TLAPS, uses an instance of LogManagerProofs |
| `FileService.tla` | FileService over disk and table | |
| `FileServiceProofs.tla` | theorems about FileService | TLAPS |
| `MC*.tla` | what TLC needs besides, the symmetry sets | |

### ContainerService

State: `rows` is the containers table, `jobs` the jobs table, `docker` the
daemon; `worker[j]` is the goroutine of job j with its next call, its private
copy of the job and its locals; `thread[t]` is a request past `getOwned`, with
the entity it read. `faults` and `crashes` count what went wrong so far.
`minted`, `acked` and `raced` are history for the properties.

One action is one call to a store together with the local code up to the next
call:

| Action | Code |
|---|---|
| `CreateAsync` | `jobRepo.Save`, then the goroutine is spawned, or not |
| `MarkRunning`, `RuntimeCreate`, `SaveContainer`, `Rollback`, `RecordFinal` | `runCreateJob` and `Create`, call by call |
| `GetOwned` | the read and the ownership check of Start, Stop and Delete |
| `Runtime` | `runtime.Start`, `Stop` or `Remove` |
| `UpdateRow`, `DeleteRow` | the last call of Start and Stop, of Delete |
| `ContainerExits` | a container stops by itself |
| `CrashRestart` | the process dies between any two calls and is started again |

Every call ends in one of three ways: done and answered, refused without
effect, or done while the caller sees an error (the connection broke). This is
what `FaultModes` switches. GORM's `Save` updates a row and inserts it when
there is none, so `UpdateRow` can bring a deleted row back. The daemon keeps
names unique over all users, refuses to remove a running container (`Remove`
does not set Force), and accepts start of a running and stop of a stopped
container. Reads, and requests answered with an error before they write,
change nothing and are stuttering steps. Image, timestamps and error texts are
left out; the image pull is part of `RuntimeCreate`, since it changes nothing
a property tells apart. Two UUIDs are never equal.

### Accounts and JobPolling

`users` is the users table, `tokens` what clients were answered with, `clock`
the time, and `thread[t]` a request: a Register past FindByEmail, or one that
AuthMiddleware let through, with the user ID it put into the context. A
password stands for its bcrypt hash. Register is two steps, `Register` and
`Insert`; Login reads once; `AuthMiddleware` checks the expiry of the token and
nothing else. `CrashRestart` leaves the tokens valid, because the secret comes
from the environment. JobPolling adds the handlers behind AuthMiddleware that
hand out and show jobs, `Create` and `Get`, while the table changes in every
way JobBoard allows, which is every way ContainerService can change it (the
theorem ImplementsJobBoard). Every call to PostgreSQL ends in one of the three
ways above.

History: a token carries what was presented to the Login that was answered with
it, `registered` has the accounts answered 201, `handed` the jobs answered 202
with the client's email, `shown` the last answer that showed a job, and
`misled` each 401, 403 or 404 that denies what a 201 or 202 gave before. A 401
of Login is judged by `registered` alone, not by what FindByEmail returned:
FindByEmail finds whichever row has the email, so that there being one only, the
one answered 201, is for the model to show. A 409 changes nothing, and no
property is about it. Reads and answers of `Get` are one step: polls that overlap count in the order of their
reads, which is that of the answers for a client that waits for each.

### LogManager and Server

A WriteLog is two steps, stamping the entry and sending it, because another
caller may come between them. `queue` holds the buffer followed by the entries
of blocked senders, in the order Go serves them. `run` takes an entry, writes
it, reads the list of handlers under the lock and calls them outside it.
`CloseChannel` makes blocked senders panic and keeps what is buffered; Close
returns when `run` has ended. The backend behind the interface stores an entry
or fails. `ClearLogs` calls it directly, past the channel; `purge` remembers
the time of the last one and the entries then still on their way, which are all
that may be stored with an older stamp afterwards (OnlyLateEntriesOlder).

Server adds main, request goroutines and the WaitGroup's counter. A handler may
return, spawn a job and return, or hang; a job ends, or hangs in a call to
Docker, which has no deadline (`hung` counts those). The callers of the
LogManager instance are the requests. `timedOut` records that Shutdown's
context expired. Requests may start until Shutdown returns, on a connection
accepted before, and on one that it gave up waiting for even later; that none
starts once it has returned without an error is what net/http documents, and is
assumed.

main wires FileLogStore as the backend, whose Write can fail; `run` only prints
the error and drops the entry (`manager.go:46`). The instance of LogManager in
Server therefore has a backend that may refuse any entry, and GracefulExit says
that every entry was handed to the backend before the exit, not that it was
stored.

### FileLogStore

`file` is the sequence of lines, each an entry or something that does not
parse, and `unterminated` says that the last one lacks its newline. The mutex
makes every operation one step, but a full disk or a crash may cut what is
written anywhere: `WriteCut` leaves a part of a line, to which the next Write
appends, and `ClearCut` leaves a part of what Clear writes back after it
truncated the file. A line may be longer than the scanner's 64 KB, and then
Read and Clear return an error. `Read` stamps what it returns with the current
time, as NewLogEntry does. Of an entry the model has its number, level and
timestamp.

### FileService

As ContainerService: `rows` and `disk`, `thread[t]` a request with its next
call. Content is partial until io.Copy returned nil. Upload undoes the file
when the copy or the row fails; Delete tolerates a file that is already gone.

## 3. The runs

Runs that pass:

| Run | Instance | Question |
|---|---|---|
| ContainersCrash | 2 users, 2 names, 2 jobs, 1 request at a time, 1 failing call (refused or unanswered), 1 crash | Do identities, job outcomes, acknowledged deletes and ownership survive any single failure and a crash, and is the proof's invariant right? Does the jobs table implement JobBoard? |
| ContainersConcurrent | 2 users, 2 names, 2 jobs, 2 requests at a time, 1 refused call | Does compensation work, is every row reported by a job, and is overlap of requests the only reason why a row and Docker disagree? |
| ContainersLive | 1 user, 2 jobs, 1 request at a time, 1 refused call, 1 crash | Do background jobs end and settle? |
| LogPipeline | 3 callers, buffer of 1, 1 handler, a failing backend, ClearLogs | Is everything accepted processed once and in order, what does ClearLogs leave, do callers and Close get on? |
| LogFile | 4 entries, 2 cut writes, 1 cut Clear | Does the file keep what a table in memory would, and what does a cut write cost? |
| ServerShutdown | 2 requests, 2 jobs, hanging handlers and jobs, a failing backend, Shutdown with and without timeout | Is shutdown complete, and what can keep it from ending? |
| FilesFaulty | 2 users, 2 requests at a time, 2 files, 2 failing calls, 1 crash | Do rows and contents stay together, does a repeated DELETE converge? |
| JobPolling | 2 emails, 2 passwords, 2 requests at a time, 1 job, tokens valid for 2 of 3 instants, 1 failing call, 1 crash | Who sees a job and what of it over time, who keeps an account, and is what an answer gave ever denied later? |

Why the bounds are enough: the hazards of the services are races between two
requests, or a request and a goroutine, on one container or file, plus a call
that fails in the middle; two of each actor and two objects let every pair meet
and leave a third party to be hurt. ContainerIds and DockerIds are as many as
jobs, so no job is starved of an ID. Two failing calls are needed for a
compensation that fails as well, which FilesFaulty reaches; in
ContainersConcurrent one refused call already starts the compensation, and the
property allows the second. The buffer of LogManager is smaller than the number
of callers, so that senders block, which 256 would only postpone. `MaxEntries`,
`MaxJobs`, `MaxFaults`, `MaxCrashes` and `MaxTime` bound counters in the
guards. In JobPolling a token of the first instant expires at the last one
while later ones are valid, so both sides of the expiry are reached; two
accounts with one job have an owner and a stranger; `ClearTimes` of LogPipeline
is one time in the middle of its clock. Runs with
liveness use no symmetry. Deadlock is not checked: IDs and entries run out,
clients may fall silent, and the process ends.

Runs that TLC refutes, each a disagreement between the code and what its
documentation says:

| Run | Documentation | What the code does |
|---|---|---|
| DeletedStaysDeleted | `container_handler.go:210`, DELETE removes "from Docker and the database" | A Start or Stop that read the row before the DELETE writes it back after it; the row then names a container Docker no longer has. |
| DeleteConverges | the same | When the row's deletion fails after Docker removed the container, each later DELETE fails at Docker and the row stays for ever, even if the owner keeps trying. FileService tolerates its analogue, and FilesFaulty checks that its DELETE converges. |
| NamesIsolated | `README.md:7`, containers are isolated between users | Names are one name space in Docker: another user's container makes a create fail. |
| LogRead | `reader.go:5`, a LogFilter narrows Read down by time range | Read returns entries stamped with the time of the read, outside the range they were selected by; the in-memory store, which the file is said to replace (`example_test.go:24`), keeps the timestamps. |

The repository's roadmap names mutual exclusion of Start, Stop and Delete as
future work; SerializedRowsAgree says that it would be enough to keep rows and
Docker in agreement while nothing fails. Six more statements the models
contradict, without a run of their own:

- Shutdown "waits for in-flight requests and background jobs" (`README.md:67`),
  but after ten seconds main goes on, and the process may exit with requests
  unfinished; GracefulExit holds only with its premise `~timedOut`.
- A registration that loses the race between FindByEmail and the insert is
  answered 500, where `user_handler.go:53` announces 409; RegistrationsKept
  says that no harm is done to the account.
- WriteLog waits for the backend once the buffer is full (`manager.go:59` says
  it returns immediately); CallersResume says what holds.
- Entries can be stored out of timestamp order, because the stamp is taken
  before the send (`internal/logger/DESIGN.md:44` promises time order);
  CallerOrderKept says what holds.
- An unknown level gets the zero value of the map, the rank of debug, and is
  stored when the minimum is debug (`level.go:13` says it is filtered).
- A failed last update leaves a job running for ever (`container_service.go:36`
  says polling tells when it finishes); JobsSettleUnlessFault says what holds.

## 4. Fairness

- ContainerService, `FairSpec`: weak fairness of each goroutine's and each
  request's next step. The Go scheduler runs them, and their calls return one
  way or the other. The code sets no deadline on Docker or database calls, so
  that a call returns is an assumption about the daemon and the database.
  Clients owe nothing: no request has to arrive.
- `RetrySpec` (ContainerService, FileService) adds strong fairness of the
  owner's DELETE for what can still be seen: a client that retries, used only
  for the two questions whether retrying helps.
- LogManager: weak fairness of `run`, of a caller past its filter and of Close
  once it was called. Server: of main, of the logger and of the jobs whose
  calls return (that these end is WorkersDrain). Handlers and jobs may hang.
- JobPolling states no fairness: it has no liveness property, since a client
  need not poll.

## 5. The proofs

The theorems of seven modules, which rest on their own lemmas and on those of
FilteringProofs, hold for any sets of users, threads, jobs, files and so on,
any fault modes and any bounds:

| Theorem | Statement |
|---|---|
| **ContainerServiceProofs** | |
| TypeCorrect | `Spec => []TypeOK` |
| Invariance | `Spec => []IInv` |
| IdentityIsStable | `Spec => []IdentityStable` |
| DeletesAreHonest | `Spec => []AckedDeleteRemoved` |
| SuccessIsDelivered | `Spec => []SuccessDelivered` |
| ImplementsJobBoard | `Spec => BoardSpec`, the refinement of JobBoard |
| OwnersOnly | `Spec => OnlyOwnerActs` |
| **ContainerFaultProofs** | |
| RollbackWorks | `Spec => []NoOrphanWithoutDoubleFault` |
| RowsAreReported | `Spec => []EveryRowReported` |
| UnracedRowsAgree | `Spec => []SerializedRowsAgree` |
| **JobPollingProofs** | |
| PollingInvariance, PollingTypes | `Spec => []IInv`, `Spec => []TypeOK` |
| AccountsAreKept | `Spec => []RegistrationsKept` |
| OwnersOnlySee | `Spec => []OnlyLoggedInOwnersSee` |
| NobodyIsMisled | `Spec => []RefusalsAreTrue` |
| PollsGoForward | `Spec => PollsMoveForward` |
| **FileServiceProofs** | |
| FileInvariance, FileTypes | `Spec => []IInv`, `Spec => []TypeOK` |
| RowsKeepContent | `Spec => []RowsHaveContent` |
| UploadsAreKept | `Spec => []UploadsKept` |
| DeletedFilesAreGone | `Spec => []AckedFileGone` |
| CompensationWorks | `Spec => []NoOrphanFileWithoutDoubleFault` |
| UploadersOnly | `Spec => OnlyUploaderRemoves` |
| **LogManagerProofs** | |
| ChannelInvariance | `Spec => []ChannelInv` |
| CloseDrains | `Spec => []ClosedMeansDrained` |
| HandlersServed | `Spec => []HandlersMissNothing` |
| ImplementsLogStream | `Spec => StreamSpec`, the refinement of LogStream |
| LogTypes | `Spec => []TypeOK` |
| CallersInOrder | `Spec => []CallerOrderKept` |
| ClearedStays | `Spec => []OnlyLateEntriesOlder` |
| **FileLogStoreProofs** | |
| StoreTypes | `Spec => []TypeOK` |
| ReadInOrder | `Spec => []ReadInWriteOrder` |
| TearsCost | `Spec => []TearsCostOneEach` |
| ImplementsLogTable | `Spec => TableSpec`, the refinement of LogTable |
| **ServerProofs** | |
| LogInOrder | `Spec => []Manager!ChannelInv` |
| ServerTypes | `Spec => []TypeOK` |
| NobodyPanics | `Spec => []NoSendOnClosed` |
| ExitsGracefully | `Spec => []GracefulExit` |

Assumptions: `ModesAssumption` (which ways a call may fail), `BoundsAssumption`
(the bounds are naturals), `AbsentAssumption` (the value for "nothing" is
not a row, a job, an ID and so on) and `MalformedAssumption` (what does not
parse is not an entry), `ClearAssumption` (ClearLogs is called with times), in
JobPolling `TimeAssumption` (a token
is valid for some time), and in LogManager and Server that the buffer has room
for an entry (`CapacityAssumption`, `LogAssumption`). The models themselves carry two more: UUIDs and Docker
IDs are never given twice.

The argument for ContainerService. None of the properties is inductive alone;
`IInv` adds what the threads and goroutines know between two calls:

- *MintedInDocker* and *WorkersHoldFresh*: a goroutine about to save or remove
  a container holds an ID that Docker gave to it alone and that no row has had.
  Without it a save could give two rows one container, and a rollback could
  remove somebody else's.
- *IdentityStable* covers the stale copies in requests as well as rows, which
  is what makes writing them back harmless to the identity.
- *DeletersRemoved*: a DELETE on its way to the table has already removed the
  container, and Docker never brings a removed container back
  (lemma DockerMonotone). This gives AckedDeleteRemoved, whoever races.
- *WorkersTrackJobs*, *NamedOnce*, *SuccessDelivered*: the goroutine's copy of
  the job is at most one update ahead of its row, its row is not settled, and
  no other job names its container. Each step on the table is then a step of
  JobBoard.

Three properties are about what is left when calls fail, and rest on further
invariants, in ContainerFaultProofs:

- *HeldUntouched*: until its row is saved a container is known to its create
  job alone, so nobody else can remove it, and a rollback means that a call
  has failed. That makes a second failing call the double fault of
  NoOrphanWithoutDoubleFault.
- *MintedReported*: while nothing failed, every container Docker gave out is
  held by the goroutine of a job, or a job names it.
- *SerializedUnlessRaced*: while nothing failed and no requests on a container
  overlapped, row and Docker agree but for the one request that is between its
  call to Docker and its write, and what that one is about to write is right.

Each part has its lemma, with one step per action that can disturb it. The
types alone need one auxiliary fact, HoldersHaveID, so that TypeCorrect does
not rest on the larger invariant.

For JobPolling the invariant follows a request from the password to the answer:

- *TokensGranted*: a token names the account of the credentials it was answered
  for. Accounts are never changed (lemma AccountsStay), so the middleware need
  not look at the table.
- *RequestsGranted*: a request behind AuthMiddleware carries such a token, so
  the user ID in its context has an account, and a job's owner too.
- *OneAccountEach*: the UNIQUE constraint. It gives RegistrationsKept, and it
  is why the account Login finds is the one answered 201, and a client who logs
  in again the same user, so that no job it was handed (*HandedToOwner*) can be
  forbidden to it.
- *ShownBehind*: what was shown of a job is its row or an earlier state of it;
  rows only move forward (lemma JobsForward).

For FileService it says who else knows of a file:

- *UploadsAlone*: until its row is saved no other request knows of an upload,
  so none can remove its content, and no removal is undone by a copy.
- *UndosUnanswered*: a compensating removal belongs to an upload that was never
  answered 201, so it takes no acknowledged content; a call of it has failed,
  so that a second failure is the double fault of the orphan property.
- *DropsRemoved*: a DELETE on its way to the table has removed the content, and
  nothing creates it again.
- *ContentExpected*: content without a row has an upload that still runs.

For LogManager it is about who is where in the channel:

- *BlockedBehind*: each entry behind the buffer belongs to a caller blocked in
  its send, and no caller has two. So `Receive` wakes the caller whose entry it
  lets in, and Close finds exactly those that panic.
- *Closing*: the closed channel has nobody blocked on it, and `run` ends only
  when it is closed and empty. ClosedMeansDrained follows.
- *HandlerOrder*: `run` calls each handler once for an entry, and each has all
  entries since it registered but the one in hand.
- *UniqueStamps*: an entry is in the channel once, so that the refinement can
  tell what was accepted from what still waits. `Receive` is a stutter of
  LogStream, or accepts the entry of the first blocked caller.

What the backend keeps is loosely coupled to the channel, and has invariants of
its own:

- *OwnOrder*: the entries of one caller are in the channel in the order of
  their stamps, and the one it is about to send is younger. *StoredInOrder*:
  what is stored was received, but for the entry in hand, so that the next one
  to be stored was stamped after the caller's others. CallerOrderKept follows,
  although the stamps of two callers may be stored the wrong way round.
- *Purged*: whatever is on its way and older than the last ClearLogs asked for
  was on its way then. Nothing in the code stops such an entry from being stored
  later; OnlyLateEntriesOlder says that nothing else is.

FileLogStore is proved about through the lines that parse. For each operation
one lemma says what it makes of them (AppendedLine, ClearLines, ClearCutLines:
a line more, the last one lost, some left out, or a first part of those left),
and the rest follows from these:

- *InWriteOrder*: they are in the order of their numbers, none of which is from
  the future. Each of the four changes keeps that, so ReadInWriteOrder holds.
- *LastUnacked*: a line without its newline is malformed or was never
  acknowledged. So the next Write, which spoils it, loses no other entry than
  its own, and *LossesPaid*: each cut has cost an entry, or is still to cost
  the next. Neither survives a Clear that was cut, which the property excludes.
- The refinement maps the lines that parse to their entries. Leaving lines out
  and leaving their entries out are the same (lemma EntriesFilter), as are
  first parts (EntriesPrefix), so that Write, Clear and their failures are those
  of LogTable.

What a loop over a sequence returns needs an induction over the sequence.
FilteringProofs gets it without the induction theorems that take a predicate:
"less than" is well-founded on the natural numbers, so that a set of numbers
has a least element (NatLeast), and a set of sequences that has the empty one
and with each the longer ones has all (NatSetInduction, SeqSetInduction). A
property is then the set of the sequences that have it. The lemmas say that the
loop takes one step per element (FilterAppend), keeps the elements it should
(FilterRange, FilterAll, FilterType) and their order (FilterOrdered).

Server is first shown to take only LogManager's steps (UsesLog), so that the
invariant of the channel holds in the process as well. On top of it:

- *LogsInside* and *Stages*: a request that logs is still inside
  LoggingMiddleware, and unless Shutdown ran out of time main closes the
  channel only when there is no request. NoSendOnClosed follows.
- *Accounted*: as long as nobody panicked the clock counts the entries with
  their requests, in the channel and received. A received one is in the hands of
  `run` or has been handed to the backend, and `run` has ended when main exits.
  With channel and requests empty as well this is GracefulExit.

Checked by TLC only: all liveness under fairness (the properties of
ContainersLive, and those of LogPipeline, ServerShutdown and FilesFaulty that
say that something ends or converges), which is beyond this prover. The
statements of section 3 that are refuted have no theorems.

## 6. Not modelled

- Configuration (reads the environment; that JWT_SECRET outlives the process is
  in `CrashRestart` of Accounts), the generated API documentation, domain
  interfaces.
- Requests that change nothing and are told nothing a property is about:
  malformed JSON (400), a missing or forged token (401 of AuthMiddleware), a
  password longer than bcrypt hashes (500), the lists.
- Of the container and file handlers: binding, status codes and bodies, except
  for POST /containers. A handler that panics
  skips its log entry; Server lets handlers return or hang only.
- The error of the deferred Close of an uploaded file, which the code drops.
- A LogHandler that itself logs. None is registered in the repository; with a
  full buffer it would block the goroutine that empties the buffer.

## 7. Plan

Done: ContainerService with JobBoard, Accounts and JobPolling, LogManager with
LogStream, Server, FileService, and FileLogStore with LogTable, each with its
proofs.

Next, in this order:

1. LogManager composed with FileLogStore in the place of its abstract backend.
2. What a client of the container and file endpoints is told, as JobPolling does
   for jobs.
3. Proofs: that ContainerService's goroutines take the steps Server's jobs
   take, so that the WaitGroup of one is that of the other.
