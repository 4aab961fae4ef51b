----------------------------- MODULE JobPolling -----------------------------
(***************************************************************************)
(* What a user of the API sees of the asynchronous jobs, from the password *)
(* to the outcome: POST /containers answers 202 with a job, and whoever    *)
(* owns it polls GET /jobs/{id} until it is settled.  It composes          *)
(*   - Accounts: registration, login and AuthMiddleware, which gives each  *)
(*     request a user ID;                                                  *)
(*   - JobBoard: the jobs table as ContainerService changes it, which      *)
(*     implements that specification;                                      *)
(*   - ContainerHandler.Create, and JobHandler with JobService.            *)
(*                                                                         *)
(* No foreign key ties a job to an account.  A token may expire, the       *)
(* process may die and clients may log in again between any two polls.     *)
(***************************************************************************)
EXTENDS Naturals, FiniteSets

CONSTANTS
    Emails, Passwords, UserIds, Threads, Absent, Lifetime, MaxTime,
    FaultModes, MaxFaults, MaxCrashes,      \* see Accounts
    JobIds, ContainerIds                    \* see JobBoard

VARIABLES
    users, tokens, thread, clock, faults, crashes, registered, misled,
                \* see Accounts
    jobs,       \* the jobs table, see JobBoard
    \* History, kept for the properties only:
    handed,     \* the jobs answered with 202, and the email of the client
    shown       \* the last answer that showed each job, and to whom

authVars == <<users, tokens, thread, clock, faults, crashes, registered,
              misled>>

vars == <<authVars, jobs, handed, shown>>

Auth == INSTANCE Accounts

Board == INSTANCE JobBoard WITH Users <- UserIds

\* A token is valid for some time.
ASSUME TimeAssumption == Lifetime \in Nat \ {0} /\ MaxTime \in Nat

\* The ways a call may fail, see Auth!Call.
ASSUME ModesAssumption == FaultModes \subseteq {"refused", "unanswered"}

ASSUME BoundsAssumption == MaxFaults \in Nat /\ MaxCrashes \in Nat

\* "Nothing" is neither an account, a request, a job nor an answer.
ASSUME AbsentAssumption ==
    Absent \notin Auth!User \cup Auth!Request \cup Board!JobRow

\* What an answer shows of a job.
Answer == [to : UserIds, status : Board!JobStatus,
           containerID : ContainerIds \cup {Absent}]

-----------------------------------------------------------------------------

\* Who sent the request: the email its token was answered for.
Client(t) == thread[t].token.login.email

\* The user ID AuthMiddleware put in the context of the request.
UserID(t) == thread[t].userID

\* toJobResponse.
Response(row, u) == [to |-> u, status |-> row.status,
                     containerID |-> row.containerID]

\* POST /containers: the job is saved and answered with 202, or an error.
Create(t) ==
    /\ Auth!Authenticated(t)
    /\ \E j \in JobIds :
        \/ /\ Auth!Call("ok")
           /\ Board!Submit(j, UserID(t))
           /\ shown' = [shown EXCEPT ![j] = Response(jobs'[j], UserID(t))]
           /\ handed' = handed \cup {[job |-> j, email |-> Client(t)]}
        \/ /\ \E o \in FaultModes :
                /\ Auth!Call(o)
                /\ IF o = "refused" THEN UNCHANGED jobs
                                    ELSE Board!Submit(j, UserID(t))
           /\ UNCHANGED <<shown, handed>>
    /\ Auth!Answer(t)
    /\ UNCHANGED <<users, tokens, clock, crashes, registered, misled>>

\* Mutant: the owner of the job is not compared with the caller.
OwnedByAnyone(u, j) == TRUE

Owned(u, j) == jobs[j].user = u

\* JobService.Get: the job, ErrNotFound, ErrForbidden or another error.
Find(u, j, o) ==
    CASE o # "ok" -> "error"
      [] o = "ok" /\ jobs[j] = Absent -> "ErrNotFound"
      [] o = "ok" /\ jobs[j] # Absent /\ ~Owned(u, j) -> "ErrForbidden"
      [] OTHER -> "found"

handleJobServiceError == [ErrNotFound |-> 404, ErrForbidden |-> 403,
                          error |-> 500]

\* GET /jobs/{id}, for any ID.  The read and the answer are one step: polls
\* that overlap count in the order in which they read.
Get(t, j) ==
    /\ Auth!Authenticated(t)
    /\ \E o \in Auth!Outcomes :
        LET found == Find(UserID(t), j, o)
        IN  /\ Auth!Call(o)
            /\ \/ /\ found = "found"
                  /\ shown' = [shown EXCEPT ![j] = Response(jobs[j], UserID(t))]
                  /\ UNCHANGED misled
               \/ /\ found # "found"
                  /\ Auth!Refuse(handleJobServiceError[found], Client(t),
                            /\ handleJobServiceError[found] # 500
                            /\ [job |-> j, email |-> Client(t)] \in handed)
                  /\ UNCHANGED shown
    /\ Auth!Answer(t)
    /\ UNCHANGED <<users, tokens, clock, crashes, registered, jobs, handed>>

\* Mutant: a job that failed is run again.
Reruns(j) == \/ Board!Begin(j)
             \/ Board!Fail(j)
             \/ /\ jobs[j] # Absent
                /\ jobs[j].status = "failed"
                /\ jobs' = [jobs EXCEPT ![j].status = "running"]

\* The goroutine of a job, as ContainerService runs it.
RunCreateJob(j) == \/ Board!Begin(j)
                   \/ \E c \in ContainerIds : Board!Succeed(j, c)
                   \/ Board!Fail(j)

-----------------------------------------------------------------------------

Init ==
    /\ Auth!Init
    /\ Board!Init
    /\ handed = {}
    /\ shown = [j \in JobIds |-> Absent]

Next ==
    \/ Auth!Next /\ UNCHANGED <<jobs, handed, shown>>
    \/ \E t \in Threads : Create(t) \/ \E j \in JobIds : Get(t, j)
    \/ /\ \E j \in JobIds : RunCreateJob(j)
       /\ UNCHANGED <<authVars, handed, shown>>

Spec == Init /\ [][Next]_vars

-----------------------------------------------------------------------------
(* Safety.                                                                 *)

\* Types, and what no foreign key enforces: every job has an owner with an
\* account.
TypeOK ==
    /\ Auth!TypeOK
    /\ jobs \in [JobIds -> Board!JobRow \cup {Absent}]
    /\ \A j \in JobIds : jobs[j] # Absent => users[jobs[j].user] # Absent
    /\ handed \subseteq [job : JobIds, email : Emails]
    /\ shown \in [JobIds -> Answer \cup {Absent}]

\* Accounts: who was answered 201 can log in from then on.
RegistrationsKept == Auth!RegistrationsKept

\* A request runs as the user whose password was presented less than a
\* token's lifetime before, and a job is shown to its owner only.
OnlyLoggedInOwnersSee ==
    /\ Auth!RunsAsWhoLoggedIn
    /\ \A j \in JobIds : shown[j] # Absent =>
            jobs[j] # Absent /\ jobs[j].user = shown[j].to

\* What one answer gave, no later one denies, whatever failed in between:
\* credentials answered 201 are not refused with 401, however many
\* registrations of the email overlapped with theirs, and a job handed out
\* with 202 is neither 403 nor 404 for a client who logged in with the same
\* email, under that token or another.
RefusalsAreTrue == misled = {}

Rank == [pending |-> 0, running |-> 1, failed |-> 2, success |-> 2]

\* README.md:64, "pending -> running -> success/failed": what one answer after
\* the other shows of a job moves forward, and the outcome stays, from the
\* 202 on and whoever's token, or which process, answers.
PollsMoveForward ==
    [][\A j \in JobIds : shown'[j] # shown[j] /\ shown[j] # Absent =>
            Rank[shown'[j].status] > Rank[shown[j].status]]_vars

=============================================================================
