------------------------------- MODULE Server -------------------------------
(***************************************************************************)
(* cmd/api/main.go: the process as a whole, from serving requests to the   *)
(* end of a graceful shutdown.  It composes the HTTP server, whose         *)
(* requests run the handlers and then log once in LoggingMiddleware, the   *)
(* background jobs that ContainerService.CreateAsync leaves behind on its  *)
(* WaitGroup, and the LogManager, an instance of that module whose callers *)
(* are the requests.                                                       *)
(*                                                                         *)
(* What a handler or a job does is in ContainerService and FileService;    *)
(* here a handler returns, possibly after it spawned a job, and a job      *)
(* ends.                                                                   *)
(***************************************************************************)
EXTENDS Naturals, Sequences, FiniteSets

CONSTANTS
    Requests,       \* request goroutines alive at once
    Levels, MinLevel, Capacity, MaxEntries,    \* see LogManager
    MaxJobs         \* bound on the jobs spawned

ASSUME MaxJobsAssumption == MaxJobs \in Nat

ASSUME LogAssumption == Capacity \in Nat \ {0} /\ MaxEntries \in Nat

VARIABLES
    clock, caller, queue, closing, run, todo, handlers, stored, received,
    handled, since, panicked, purge,    \* see LogManager
    phase,      \* where main is, see TypeOK
    request,    \* what each request goroutine is doing
    jobs,       \* counter of the WaitGroup: jobs still running
    hung,       \* those of them whose call to Docker never returns
    spawned,    \* jobs spawned so far
    timedOut    \* history: whether Shutdown's ten seconds ran out

logVars == <<clock, caller, queue, closing, run, todo, handlers, stored,
             received, handled, since, panicked, purge>>

vars == <<logVars, phase, request, jobs, hung, spawned, timedOut>>

Log == INSTANCE LogManager WITH Callers <- Requests, Handlers <- {},
                                ClearTimes <- {}, WritesMayFail <- TRUE

Running == phase # "exited"

-----------------------------------------------------------------------------
(* Requests and jobs.                                                      *)

\* Requests start until Shutdown returns, since a connection accepted before
\* may bring one while it waits; and even later, on a connection that it gave
\* up waiting for.
Accept(c) ==
    /\ Running
    /\ phase \in {"serving", "shutdown"} \/ timedOut
    /\ request[c] = "none"
    /\ request' = [request EXCEPT ![c] = "handler"]
    /\ UNCHANGED <<logVars, phase, jobs, hung, spawned, timedOut>>

\* The handler of POST /containers calls CreateAsync: wg.Add(1), go.
SpawnJob(c) ==
    /\ Running
    /\ request[c] = "handler"
    /\ spawned < MaxJobs
    /\ spawned' = spawned + 1
    /\ jobs' = jobs + 1
    /\ request' = [request EXCEPT ![c] = "log"]
    /\ UNCHANGED <<logVars, phase, hung, timedOut>>

\* c.Next() returns to LoggingMiddleware.
HandlerReturns(c) ==
    /\ Running
    /\ request[c] = "handler"
    /\ request' = [request EXCEPT ![c] = "log"]
    /\ UNCHANGED <<logVars, phase, jobs, hung, spawned, timedOut>>

\* LoggingMiddleware calls WriteLogFields, which may drop the entry.
LogRequest(c) ==
    /\ Running
    /\ request[c] = "log"
    /\ \E l \in Levels :
        \/ /\ Log!WriteLog(c, l)
           /\ request' = [request EXCEPT ![c] = "logging"]
        \/ /\ ~Log!Meets(l)
           /\ request' = [request EXCEPT ![c] = "none"]
           /\ UNCHANGED logVars
    /\ UNCHANGED <<phase, jobs, hung, spawned, timedOut>>

SendEntry(c) ==
    /\ Running
    /\ Log!Send(c)
    /\ UNCHANGED <<phase, request, jobs, hung, spawned, timedOut>>

\* WriteLogFields returned, or panicked and Gin's Recovery caught it.
RequestEnds(c) ==
    /\ Running
    /\ request[c] = "logging"
    /\ caller[c] = Log!Idle
    /\ request' = [request EXCEPT ![c] = "none"]
    /\ UNCHANGED <<logVars, phase, jobs, hung, spawned, timedOut>>

\* Mutant: the job calls wg.Done on two paths.
DoneTwice == jobs - 2

\* Mutant: the job returns without wg.Done.
DoneForgotten == jobs

AfterDone == jobs - 1

\* A job returns, and its deferred wg.Done runs.
JobEnds ==
    /\ Running
    /\ jobs > hung
    /\ jobs' = AfterDone
    /\ UNCHANGED <<logVars, phase, request, hung, spawned, timedOut>>

\* No call to Docker has a deadline.
JobHangs ==
    /\ Running
    /\ jobs > hung
    /\ hung' = hung + 1
    /\ UNCHANGED <<logVars, phase, request, jobs, spawned, timedOut>>

LogRun ==
    /\ Running
    /\ Log!Run
    /\ UNCHANGED <<phase, request, jobs, hung, spawned, timedOut>>

-----------------------------------------------------------------------------
(* main, after the signal.                                                 *)

Signal ==
    /\ phase = "serving"
    /\ phase' = "shutdown"
    /\ UNCHANGED <<logVars, request, jobs, hung, spawned, timedOut>>

\* Mutant: main goes on although requests are still running.
NoWaitForRequests == TRUE

RequestsDone == \A c \in Requests : request[c] = "none"

\* srv.Shutdown returns when every connection is idle, or with the error of
\* its context after ten seconds, which is only logged.
ShutdownReturns ==
    /\ phase = "shutdown"
    /\ \/ RequestsDone /\ UNCHANGED timedOut
       \/ timedOut' = TRUE
    /\ phase' = "wait"
    /\ UNCHANGED <<logVars, request, jobs, hung, spawned>>

\* Mutant: main does not wait for the background jobs.
NoWaitForJobs == TRUE

JobsDone == jobs = 0

\* containerService.Wait() returns; main calls logManager.Close().
WaitReturns ==
    /\ phase = "wait"
    /\ JobsDone
    /\ phase' = "close"
    /\ Log!CloseChannel
    /\ UNCHANGED <<request, jobs, hung, spawned, timedOut>>

\* Close returns, and main with it: every goroutine left dies.
Exit ==
    /\ phase = "close"
    /\ Log!CloseReturns
    /\ phase' = "exited"
    /\ UNCHANGED <<request, jobs, hung, spawned, timedOut>>

-----------------------------------------------------------------------------

Init ==
    /\ Log!Init
    /\ phase = "serving"
    /\ request = [c \in Requests |-> "none"]
    /\ jobs = 0
    /\ hung = 0
    /\ spawned = 0
    /\ timedOut = FALSE

\* The steps of a request goroutine.
Serve(c) == SpawnJob(c) \/ HandlerReturns(c) \/ LogRequest(c) \/ SendEntry(c)
                \/ RequestEnds(c)

Main == ShutdownReturns \/ WaitReturns \/ Exit

Next ==
    \/ \E c \in Requests : Accept(c) \/ Serve(c)
    \/ JobEnds
    \/ JobHangs
    \/ LogRun
    \/ Signal
    \/ Main

Spec == Init /\ [][Next]_vars

\* main and run are scheduled, and a job whose calls return ends
\* (WorkersDrain, in ContainerService).  Handlers may hang too.
FairSpec == Spec /\ WF_vars(Main) /\ WF_vars(LogRun) /\ WF_vars(JobEnds)

-----------------------------------------------------------------------------

\* Types: the WaitGroup's counter, to begin with, is never negative, which
\* would be a panic in the goroutine of a job.
TypeOK ==
    /\ Log!TypeOK
    /\ phase \in {"serving", "shutdown", "wait", "close", "exited"}
    /\ request \in [Requests -> {"none", "handler", "log", "logging"}]
    /\ jobs \in 0..MaxJobs
    /\ hung \in 0..jobs
    /\ spawned \in 0..MaxJobs
    /\ timedOut \in BOOLEAN

\* main exits only when no request and no job is running any more and every
\* entry they logged has been handed to the backend, unless Shutdown ran out
\* of time.  Whether it is stored is up to the backend: an error of its Write
\* is only printed, and the entry gone.
GracefulExit ==
    phase = "exited" /\ ~timedOut => /\ RequestsDone
                                     /\ jobs = 0
                                     /\ Len(Log!Processed) = clock

\* ARCHITECTURE.md:38: the log is closed last because a WriteLog after that
\* would be a send on a closed channel.  No request ever does one, unless
\* Shutdown ran out of time.
NoSendOnClosed == panicked # {} => timedOut

\* After the signal the process exits, even if a handler hangs, because
\* Shutdown's context ends its wait; only a job that hangs in Docker holds
\* it, for Wait has no such end.
ShutdownCompletes == phase = "shutdown" ~> phase = "exited" \/ hung > 0

=============================================================================
