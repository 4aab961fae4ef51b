-------------------------- MODULE JobPollingProofs --------------------------
(***************************************************************************)
(* Proofs about JobPolling, and with it Accounts, for every set of emails, *)
(* passwords, user IDs, threads, jobs and containers, every lifetime of a  *)
(* token, and every number of failing calls and crashes.                   *)
(***************************************************************************)
EXTENDS JobPolling, TLAPS

-----------------------------------------------------------------------------
(* The inductive invariant.                                                *)

\* A token names the account whose email and password it was answered for,
\* and expires a lifetime after that.
TokensGranted ==
    \A k \in tokens :
        /\ k.exp = k.login.at + Lifetime
        /\ users[k.user] = [email |-> k.login.email,
                            password |-> k.login.password]

\* A request behind AuthMiddleware carries a token that a client was answered
\* with and that had not expired, and runs as the user it names.
RequestsGranted ==
    \A t \in Threads : Auth!Authenticated(t) =>
        /\ thread[t].token \in tokens
        /\ thread[t].userID = thread[t].token.user
        /\ thread[t].at < thread[t].token.exp

\* No two accounts have one email.
OneAccountEach ==
    \A u, v \in UserIds :
        /\ users[u] # Absent
        /\ users[v] # Absent
        /\ users[u].email = users[v].email
        => u = v

\* A job was handed to the client who owns it.
HandedToOwner ==
    \A h \in handed : /\ jobs[h.job] # Absent
                      /\ users[jobs[h.job].user].email = h.email

\* What was shown of a job is what its row says, or an earlier state of it.
ShownBehind ==
    \A j \in JobIds : shown[j] # Absent =>
        /\ jobs[j] # Absent
        /\ jobs[j].user = shown[j].to
        /\ \/ /\ shown[j].status = jobs[j].status
              /\ shown[j].containerID = jobs[j].containerID
           \/ Rank[shown[j].status] < Rank[jobs[j].status]

IInv ==
    /\ TypeOK
    /\ RegistrationsKept
    /\ RefusalsAreTrue
    /\ TokensGranted
    /\ RequestsGranted
    /\ OneAccountEach
    /\ HandedToOwner
    /\ ShownBehind

-----------------------------------------------------------------------------
(* Types.                                                                  *)

\* A failing call is counted and never exceeds the bound.
LEMMA CallType ==
    ASSUME faults \in 0..MaxFaults, NEW o \in Auth!Outcomes, Auth!Call(o)
    PROVE  faults' \in 0..MaxFaults
BY BoundsAssumption DEF Auth!Call, Auth!Outcomes

\* A refusal keeps the type of the history of wrong refusals.
LEMMA RefuseType ==
    ASSUME TypeOK, NEW status, NEW e \in Emails, NEW wrong \in BOOLEAN,
           wrong => status \in Auth!Statuses, Auth!Refuse(status, e, wrong)
    PROVE  misled' \subseteq [status : Auth!Statuses, email : Emails]
BY DEF Auth!Refuse, TypeOK, Auth!TypeOK

\* A thread that ran a request is free again, and the others go on.
LEMMA AnswerType ==
    ASSUME TypeOK, NEW t \in Threads, Auth!Answer(t)
    PROVE  thread' \in [Threads -> Auth!Request \cup {Absent}]
BY DEF Auth!Answer, TypeOK, Auth!TypeOK

\* A registration past FindByEmail has an email and a password.
LEMMA Registering ==
    ASSUME TypeOK, NEW t \in Threads, thread[t] # Absent,
           thread[t].pc = "insert"
    PROVE  thread[t].email \in Emails /\ thread[t].password \in Passwords
BY DEF TypeOK, Auth!TypeOK, Auth!Request

\* A request behind AuthMiddleware has a user ID, a token and a time.
LEMMA Authentic ==
    ASSUME TypeOK, NEW t \in Threads, Auth!Authenticated(t)
    PROVE  /\ UserID(t) \in UserIds
           /\ thread[t].token \in Auth!Token
           /\ thread[t].at \in 0..MaxTime
           /\ Client(t) \in Emails
BY DEF TypeOK, Auth!TypeOK, Auth!Request, Auth!Authenticated, UserID, Client,
       Auth!Token, Auth!Presented

\* A password matches that of an account with the email.
LEMMA LoginFinds ==
    ASSUME NEW e \in Emails, NEW p, NEW o, NEW found \in Auth!FindByEmail(e, o)
    PROVE  /\ found.err = "nil" => found.user \in Auth!Having(e)
           /\ found.err = "ErrNotFound" => Auth!Having(e) = {}
           /\ Auth!Having(e) \subseteq UserIds
           /\ Auth!Matches(found, p) => /\ found.user \in Auth!Having(e)
                                       /\ users[found.user].password = p
BY DEF Auth!FindByEmail, Auth!Having, Auth!Matches

\* Accounts are added and never changed or removed.
LEMMA AccountsStay ==
    ASSUME TypeOK, [Next]_vars, NEW u \in UserIds, users[u] # Absent
    PROVE  users'[u] = users[u]
<1>1. ASSUME NEW t \in Threads, Auth!Insert(t)
      PROVE  users'[u] = users[u]
  BY <1>1 DEF Auth!Insert, TypeOK, Auth!TypeOK
<1>2. QED
  BY <1>1
  DEF Next, vars, authVars, Auth!Next, Auth!Register, Auth!Login,
      Auth!AuthMiddleware, Auth!Tick, Auth!CrashRestart, Create, Get

\* At the start the tables are empty and nobody has a token.
LEMMA InitInv == Init => IInv
<1> SUFFICES ASSUME Init PROVE IInv
  OBVIOUS
<1>1. TypeOK
  BY TimeAssumption, BoundsAssumption
  DEF Init, Auth!Init, Board!Init, TypeOK, Auth!TypeOK
<1>2. RegistrationsKept /\ RefusalsAreTrue
  BY DEF Init, Auth!Init, RegistrationsKept, Auth!RegistrationsKept,
         RefusalsAreTrue
<1>3. TokensGranted /\ RequestsGranted /\ OneAccountEach
  BY DEF Init, Auth!Init, TokensGranted, RequestsGranted, OneAccountEach,
         Auth!Authenticated
<1>4. HandedToOwner /\ ShownBehind
  BY DEF Init, HandedToOwner, ShownBehind
<1>5. QED
  BY <1>1, <1>2, <1>3, <1>4 DEF IInv

\* A token names an account that is there.
LEMMA AccountIsThere ==
    ASSUME TypeOK, TokensGranted, NEW k \in tokens
    PROVE  k.user \in UserIds /\ users[k.user] # Absent
<1>1. k \in Auth!Token
  BY DEF TypeOK, Auth!TypeOK
<1>2. [email |-> k.login.email, password |-> k.login.password] \in Auth!User
  BY <1>1 DEF Auth!Token, Auth!Presented, Auth!User
<1>3. users[k.user] = [email |-> k.login.email, password |-> k.login.password]
  BY DEF TokensGranted
<1>4. k.user \in UserIds
  BY <1>1 DEF Auth!Token
<1>5. users[k.user] \in Auth!User
  BY <1>2, <1>3
<1>6. QED
  BY <1>4, <1>5, AbsentAssumption

\* The account behind a request has the email of the client who sent it.
LEMMA ClientsAccount ==
    ASSUME TypeOK, TokensGranted, RequestsGranted, NEW t \in Threads,
           Auth!Authenticated(t)
    PROVE  /\ UserID(t) \in UserIds
           /\ users[UserID(t)] # Absent
           /\ users[UserID(t)].email = Client(t)
<1>1. thread[t].token \in tokens /\ UserID(t) = thread[t].token.user
  BY DEF RequestsGranted, UserID
<1>2. users[UserID(t)] = [email |-> Client(t),
                          password |-> thread[t].token.login.password]
  BY <1>1 DEF TokensGranted, Client
<1>3. QED
  BY <1>1, <1>2, AccountIsThere

\* Every step keeps the types; that a job's owner has an account rests on the
\* tokens and the requests that carry them.
LEMMA NextTypeOK ==
    TypeOK /\ TokensGranted /\ RequestsGranted /\ [Next]_vars => TypeOK'
<1> SUFFICES ASSUME TypeOK, TokensGranted, RequestsGranted, [Next]_vars
             PROVE  TypeOK'
  OBVIOUS
<1>1. ASSUME NEW t \in Threads, NEW e \in Emails, NEW p \in Passwords,
             Auth!Register(t, e, p), UNCHANGED <<jobs, handed, shown>>
      PROVE  TypeOK'
  <2>1. PICK o \in Auth!Outcomes :
          /\ Auth!Call(o)
          /\ thread' \in {thread, [thread EXCEPT ![t] = [pc |-> "insert",
                                    email |-> e, password |-> p]]}
    BY <1>1 DEF Auth!Register
  <2>2. faults' \in 0..MaxFaults
    BY <2>1, CallType DEF TypeOK, Auth!TypeOK
  <2>3. thread' \in [Threads -> Auth!Request \cup {Absent}]
    BY <2>1 DEF TypeOK, Auth!TypeOK, Auth!Request
  <2>4. QED
    BY <1>1, <2>2, <2>3 DEF Auth!Register, TypeOK, Auth!TypeOK
<1>2. ASSUME NEW t \in Threads, Auth!Insert(t),
             UNCHANGED <<jobs, handed, shown>>
      PROVE  TypeOK'
  <2> DEFINE new == [email |-> thread[t].email,
                     password |-> thread[t].password]
  <2>1. new \in Auth!User
    BY <1>2, Registering DEF Auth!Insert, Auth!User
  <2>2. thread' \in [Threads -> Auth!Request \cup {Absent}]
    BY <1>2, AnswerType DEF Auth!Insert
  <2>3. CASE UNCHANGED <<users, faults, registered>>
    BY <1>2, <2>2, <2>3 DEF Auth!Insert, TypeOK, Auth!TypeOK
  <2>4. ASSUME NEW u \in UserIds, NEW o \in Auth!Outcomes,
               users[u] = Absent,
               Auth!Call(o),
               users' = IF o = "refused" THEN users
                        ELSE [users EXCEPT ![u] = new],
               registered' = registered \cup {v \in {u} : o = "ok"}
        PROVE  TypeOK'
    <3>1. users' \in [UserIds -> Auth!User \cup {Absent}]
      BY <2>1, <2>4 DEF TypeOK, Auth!TypeOK
    <3>2. faults' \in 0..MaxFaults
      BY <2>4, CallType DEF TypeOK, Auth!TypeOK
    <3>3. registered' \subseteq UserIds
      BY <2>4 DEF TypeOK, Auth!TypeOK
    <3>4. Auth!TypeOK'
      BY <1>2, <2>2, <3>1, <3>2, <3>3 DEF Auth!Insert, TypeOK, Auth!TypeOK
    <3>5. \A j \in JobIds : jobs'[j] # Absent => users'[jobs'[j].user] # Absent
      BY <1>2, AccountsStay DEF TypeOK, Board!JobRow
    <3>6. QED
      BY <1>2, <3>4, <3>5 DEF TypeOK
  <2>5. QED
    BY <1>2, <2>3, <2>4 DEF Auth!Insert
<1>3. ASSUME NEW e \in Emails, NEW p \in Passwords, Auth!Login(e, p),
             UNCHANGED <<jobs, handed, shown>>
      PROVE  TypeOK'
  <2>1. PICK o \in Auth!Outcomes :
          /\ Auth!Call(o)
          /\ \/ tokens' = tokens
             \/ \E u \in UserIds :
                    tokens' = tokens \cup
                        {[user |-> u, exp |-> Auth!ExpiresAt,
                          login |-> [email |-> e, password |-> p,
                                     at |-> clock]]}
          /\ \/ misled' = misled
             \/ Auth!Refuse(401, e, Auth!WasRegistered(e, p))
    BY <1>3, LoginFinds DEF Auth!Login
  <2>2. faults' \in 0..MaxFaults
    BY <2>1, CallType DEF TypeOK, Auth!TypeOK
  <2>3. misled' \subseteq [status : Auth!Statuses, email : Emails]
    <3>1. Auth!WasRegistered(e, p) \in BOOLEAN
      BY DEF Auth!WasRegistered
    <3>2. QED
      BY <2>1, <3>1, RefuseType DEF Auth!Statuses, TypeOK, Auth!TypeOK
  <2>4. clock \in 0..MaxTime /\ Auth!ExpiresAt \in 0..MaxTime + Lifetime
    BY TimeAssumption DEF TypeOK, Auth!TypeOK, Auth!ExpiresAt
  <2>5. \A u \in UserIds :
          [user |-> u, exp |-> Auth!ExpiresAt,
           login |-> [email |-> e, password |-> p, at |-> clock]] \in Auth!Token
    BY <2>4 DEF Auth!Token, Auth!Presented
  <2>6. tokens' \subseteq Auth!Token
    BY <2>1, <2>5 DEF TypeOK, Auth!TypeOK
  <2>7. thread' \in [Threads -> Auth!Request \cup {Absent}]
    BY <1>3 DEF Auth!Login, TypeOK, Auth!TypeOK
  <2>8. QED
    BY <1>3, <2>2, <2>3, <2>6, <2>7 DEF Auth!Login, TypeOK, Auth!TypeOK
<1>4. ASSUME NEW t \in Threads, NEW k \in tokens, Auth!AuthMiddleware(t, k),
             UNCHANGED <<jobs, handed, shown>>
      PROVE  TypeOK'
  <2>1. k \in Auth!Token /\ clock \in 0..MaxTime
    BY DEF TypeOK, Auth!TypeOK
  <2>2. [pc |-> "handler", userID |-> k.user, token |-> k, at |-> clock]
            \in Auth!Request
    BY <2>1 DEF Auth!Request, Auth!Token
  <2>3. thread' \in [Threads -> Auth!Request \cup {Absent}]
    BY <1>4, <2>2 DEF Auth!AuthMiddleware, TypeOK, Auth!TypeOK
  <2>4. QED
    BY <1>4, <2>3 DEF Auth!AuthMiddleware, TypeOK, Auth!TypeOK
<1>5. ASSUME Auth!Tick \/ Auth!CrashRestart, UNCHANGED <<jobs, handed, shown>>
      PROVE  TypeOK'
  BY <1>5, TimeAssumption, BoundsAssumption
  DEF Auth!Tick, Auth!CrashRestart, TypeOK, Auth!TypeOK
<1>6. ASSUME NEW t \in Threads, Create(t)
      PROVE  TypeOK'
  <2>1. thread' \in [Threads -> Auth!Request \cup {Absent}]
    BY <1>6, AnswerType DEF Create
  <2>2. UserID(t) \in UserIds /\ Client(t) \in Emails
    BY <1>6, Authentic DEF Create
  <2>3. users[UserID(t)] # Absent
    BY <1>6, ClientsAccount DEF Create
  <2>4. PICK j \in JobIds, o \in Auth!Outcomes :
          /\ Auth!Call(o)
          /\ jobs' = jobs \/ Board!Submit(j, UserID(t))
          /\ \/ shown' = shown
             \/ /\ Board!Submit(j, UserID(t))
                /\ shown' = [shown EXCEPT ![j] =
                                Response(jobs'[j], UserID(t))]
          /\ \/ handed' = handed
             \/ handed' = handed \cup {[job |-> j, email |-> Client(t)]}
    BY <1>6 DEF Create, Auth!Outcomes
  <2>5. faults' \in 0..MaxFaults
    BY <2>4, CallType DEF TypeOK, Auth!TypeOK
  <2>6. jobs' \in [JobIds -> Board!JobRow \cup {Absent}]
    BY <2>2, <2>4
    DEF TypeOK, Board!Submit, Board!JobRow, Board!JobStatus
  <2>7. \A i \in JobIds : jobs'[i] # Absent => users[jobs'[i].user] # Absent
    BY <2>3, <2>4 DEF TypeOK, Board!Submit
  <2>8. handed' \subseteq [job : JobIds, email : Emails]
    BY <2>2, <2>4 DEF TypeOK
  <2>9. shown' \in [JobIds -> Answer \cup {Absent}]
    <3>1. ASSUME Board!Submit(j, UserID(t))
          PROVE  Response(jobs'[j], UserID(t)) \in Answer
      BY <2>2, <3>1
      DEF Board!Submit, TypeOK, Response, Answer, Board!JobStatus
    <3>2. QED
      BY <2>4, <3>1 DEF TypeOK
  <2>10. Auth!TypeOK'
    BY <1>6, <2>1, <2>5 DEF Create, TypeOK, Auth!TypeOK
  <2>11. QED
    BY <1>6, <2>6, <2>7, <2>8, <2>9, <2>10 DEF Create, TypeOK
<1>7. ASSUME NEW t \in Threads, NEW j \in JobIds, Get(t, j)
      PROVE  TypeOK'
  <2>1. thread' \in [Threads -> Auth!Request \cup {Absent}]
    BY <1>7, AnswerType DEF Get
  <2>2. UserID(t) \in UserIds /\ Client(t) \in Emails
    BY <1>7, Authentic DEF Get
  <2>3. PICK o \in Auth!Outcomes :
          LET found == Find(UserID(t), j, o)
          IN  /\ Auth!Call(o)
              /\ \/ /\ found = "found"
                    /\ shown' = [shown EXCEPT ![j] =
                                    Response(jobs[j], UserID(t))]
                    /\ UNCHANGED misled
                 \/ /\ found # "found"
                    /\ \E wrong \in BOOLEAN :
                          /\ wrong => handleJobServiceError[found] # 500
                          /\ Auth!Refuse(handleJobServiceError[found],
                                         Client(t), wrong)
                    /\ UNCHANGED shown
    <3>1. PICK o \in Auth!Outcomes :
            LET found == Find(UserID(t), j, o)
            IN  /\ Auth!Call(o)
                /\ \/ /\ found = "found"
                      /\ shown' = [shown EXCEPT ![j] =
                                      Response(jobs[j], UserID(t))]
                      /\ UNCHANGED misled
                   \/ /\ found # "found"
                      /\ Auth!Refuse(handleJobServiceError[found], Client(t),
                            /\ handleJobServiceError[found] # 500
                            /\ [job |-> j, email |-> Client(t)] \in handed)
                      /\ UNCHANGED shown
      BY <1>7 DEF Get
    <3>2. QED
      BY <3>1
  <2>4. faults' \in 0..MaxFaults
    BY <2>3, CallType DEF TypeOK, Auth!TypeOK
  <2> DEFINE found == Find(UserID(t), j, o)
  <2>5. CASE found = "found"
    <3>1. jobs[j] \in Board!JobRow
      BY <2>3, <2>5 DEF Find, TypeOK, Auth!Outcomes
    <3>2. shown' \in [JobIds -> Answer \cup {Absent}]
      BY <2>2, <2>3, <2>5, <3>1 DEF TypeOK, Response, Answer, Board!JobRow
    <3>3. QED
      BY <1>7, <2>1, <2>3, <2>4, <2>5, <3>2 DEF Get, TypeOK, Auth!TypeOK
  <2>6. CASE found # "found"
    <3>1. found \in {"ErrNotFound", "ErrForbidden", "error"}
      BY <2>6 DEF Find
    <3>2. handleJobServiceError[found] \in Auth!Statuses \cup {500}
      BY <3>1 DEF handleJobServiceError, Auth!Statuses
    <3>3. misled' \subseteq [status : Auth!Statuses, email : Emails]
      <4>1. PICK wrong \in BOOLEAN :
              /\ wrong => handleJobServiceError[found] # 500
              /\ Auth!Refuse(handleJobServiceError[found], Client(t), wrong)
        BY <2>3, <2>6
      <4>2. wrong => handleJobServiceError[found] \in Auth!Statuses
        BY <3>2, <4>1
      <4>3. QED
        BY <2>2, <4>1, <4>2, RefuseType
    <3>4. QED
      BY <1>7, <2>1, <2>3, <2>4, <2>6, <3>3 DEF Get, TypeOK, Auth!TypeOK
  <2>7. QED
    BY <2>5, <2>6
<1>8. ASSUME NEW j \in JobIds, RunCreateJob(j),
             UNCHANGED <<authVars, handed, shown>>
      PROVE  TypeOK'
  <2>1. /\ jobs[j] \in Board!JobRow
        /\ jobs'[j] \in Board!JobRow
        /\ jobs'[j].user = jobs[j].user
        /\ jobs' = [jobs EXCEPT ![j] = jobs'[j]]
    BY <1>8 DEF RunCreateJob, Board!Begin, Board!Succeed, Board!Fail, TypeOK,
                Board!JobRow, Board!JobStatus
  <2>2. jobs' \in [JobIds -> Board!JobRow \cup {Absent}]
    BY <2>1 DEF TypeOK
  <2>3. \A i \in JobIds : jobs'[i] # Absent => users[jobs'[i].user] # Absent
    BY <2>1, AbsentAssumption DEF TypeOK
  <2>4. QED
    BY <1>8, <2>2, <2>3 DEF authVars, TypeOK, Auth!TypeOK
<1>9. CASE UNCHANGED vars
  BY <1>9 DEF vars, authVars, TypeOK, Auth!TypeOK
<1>10. QED
  BY <1>1, <1>2, <1>3, <1>4, <1>5, <1>6, <1>7, <1>8, <1>9 DEF Next, Auth!Next

-----------------------------------------------------------------------------
(* Accounts, tokens and requests.                                          *)

\* Only Login grants tokens, and it looks at the password.
LEMMA NextTokensGranted ==
    TypeOK /\ TokensGranted /\ [Next]_vars => TokensGranted'
<1> SUFFICES ASSUME TypeOK, TokensGranted, [Next]_vars, NEW k \in tokens'
             PROVE  /\ k.exp = k.login.at + Lifetime
                    /\ users'[k.user] = [email |-> k.login.email,
                                         password |-> k.login.password]
  BY DEF TokensGranted
<1>1. CASE k \in tokens
  <2>1. k.user \in UserIds /\ users[k.user] # Absent
    BY <1>1, AccountIsThere
  <2>2. users'[k.user] = users[k.user]
    BY <2>1, AccountsStay
  <2>3. QED
    BY <1>1, <2>2 DEF TokensGranted
<1>2. CASE k \notin tokens
  <2>1. PICK e \in Emails, p \in Passwords : Auth!Login(e, p)
    BY <1>2
    DEF Next, vars, authVars, Auth!Next, Auth!Register, Auth!Insert,
        Auth!AuthMiddleware, Auth!Tick, Auth!CrashRestart, Create, Get
  <2>2. PICK u \in Auth!Having(e) :
          /\ users[u].password = p
          /\ k = [user |-> u, exp |-> Auth!ExpiresAt,
                  login |-> [email |-> e, password |-> p, at |-> clock]]
    BY <1>2, <2>1, LoginFinds DEF Auth!Login
  <2>3. users[u] = [email |-> e, password |-> p]
    BY <2>2 DEF Auth!Having, TypeOK, Auth!TypeOK, Auth!User
  <2>4. QED
    BY <2>1, <2>2, <2>3 DEF Auth!Login, Auth!ExpiresAt
<1>3. QED
  BY <1>1, <1>2

\* A thread that is behind AuthMiddleware after a step was there before it, or
\* AuthMiddleware let it through in this step.
LEMMA LetThrough ==
    ASSUME TypeOK, [Next]_vars, NEW t \in Threads, Auth!Authenticated(t)'
    PROVE  \/ thread'[t] = thread[t]
           \/ \E k \in tokens : Auth!AuthMiddleware(t, k)
<1> USE DEF TypeOK, Auth!TypeOK, Auth!Authenticated
<1>1. ASSUME NEW s \in Threads, NEW e \in Emails, NEW p \in Passwords,
             Auth!Register(s, e, p)
      PROVE  thread'[t] = thread[t]
  BY <1>1 DEF Auth!Register
<1>2. ASSUME NEW s \in Threads, Auth!Answer(s)
      PROVE  thread'[t] = thread[t]
  BY <1>2 DEF Auth!Answer
<1>3. ASSUME NEW s \in Threads, NEW k \in tokens, Auth!AuthMiddleware(s, k)
      PROVE  thread'[t] = thread[t] \/ Auth!AuthMiddleware(t, k)
  BY <1>3 DEF Auth!AuthMiddleware
<1>4. QED
  BY <1>1, <1>2, <1>3
  DEF Next, vars, authVars, Auth!Next, Auth!Insert, Auth!Login, Auth!Tick,
      Auth!CrashRestart, Create, Get

\* AuthMiddleware looks at the expiry, and no token is taken back.
LEMMA NextRequestsGranted ==
    TypeOK /\ RequestsGranted /\ [Next]_vars => RequestsGranted'
<1> SUFFICES ASSUME TypeOK, RequestsGranted, [Next]_vars, NEW t \in Threads,
                    Auth!Authenticated(t)'
             PROVE  /\ thread'[t].token \in tokens'
                    /\ thread'[t].userID = thread'[t].token.user
                    /\ thread'[t].at < thread'[t].token.exp
  BY DEF RequestsGranted
<1>1. tokens \subseteq tokens'
  BY DEF Next, vars, authVars, Auth!Next, Auth!Register, Auth!Insert,
         Auth!Login, Auth!AuthMiddleware, Auth!Tick, Auth!CrashRestart,
         Create, Get
<1>2. CASE thread'[t] = thread[t]
  BY <1>1, <1>2 DEF RequestsGranted, Auth!Authenticated
<1>3. ASSUME NEW k \in tokens, Auth!AuthMiddleware(t, k)
      PROVE  /\ thread'[t].token \in tokens'
             /\ thread'[t].userID = thread'[t].token.user
             /\ thread'[t].at < thread'[t].token.exp
  BY <1>1, <1>3 DEF Auth!AuthMiddleware, Auth!Valid, TypeOK, Auth!TypeOK
<1>4. QED
  BY <1>2, <1>3, LetThrough

\* What a step may add to the users table: one account under an email that
\* nobody has.
LEMMA OneMoreAccount ==
    ASSUME TypeOK, [Next]_vars
    PROVE  \/ users' = users /\ registered' = registered
           \/ \E u \in UserIds, new \in Auth!User :
                /\ users[u] = Absent
                /\ Auth!Having(new.email) = {}
                /\ users' = [users EXCEPT ![u] = new]
                /\ registered' \subseteq registered \cup {u}
<1>1. ASSUME NEW t \in Threads, Auth!Insert(t)
      PROVE  \/ users' = users /\ registered' = registered
             \/ \E u \in UserIds, new \in Auth!User :
                  /\ users[u] = Absent
                  /\ Auth!Having(new.email) = {}
                  /\ users' = [users EXCEPT ![u] = new]
                  /\ registered' \subseteq registered \cup {u}
  <2>1. [email |-> thread[t].email, password |-> thread[t].password]
            \in Auth!User
    BY <1>1, Registering DEF Auth!Insert, Auth!User
  <2>2. QED
    BY <1>1, <2>1 DEF Auth!Insert, Auth!Violates
<1>2. QED
  BY <1>1
  DEF Next, vars, authVars, Auth!Next, Auth!Register, Auth!Login,
      Auth!AuthMiddleware, Auth!Tick, Auth!CrashRestart, Create, Get

\* The UNIQUE constraint keeps one account to each email, so whoever was
\* answered 201 stays the only one.
LEMMA NextAccounts ==
    TypeOK /\ RegistrationsKept /\ OneAccountEach /\ [Next]_vars
        => RegistrationsKept' /\ OneAccountEach'
<1> SUFFICES ASSUME TypeOK, RegistrationsKept, OneAccountEach, [Next]_vars
             PROVE  RegistrationsKept' /\ OneAccountEach'
  OBVIOUS
<1>1. CASE users' = users /\ registered' = registered
  BY <1>1 DEF RegistrationsKept, Auth!RegistrationsKept, Auth!Having,
              OneAccountEach
<1>2. ASSUME NEW u \in UserIds, NEW new \in Auth!User,
             users[u] = Absent,
             Auth!Having(new.email) = {},
             users' = [users EXCEPT ![u] = new],
             registered' \subseteq registered \cup {u}
      PROVE  RegistrationsKept' /\ OneAccountEach'
  <2>1. /\ new # Absent
        /\ users \in [UserIds -> Auth!User \cup {Absent}]
        /\ users'[u] = new
        /\ \A v \in UserIds \ {u} : users'[v] = users[v]
    BY <1>2, AbsentAssumption DEF TypeOK, Auth!TypeOK
  <2>2. \A v \in UserIds \ {u} :
          users[v] # Absent => users[v].email # new.email
    BY <1>2 DEF Auth!Having
  <2>3. OneAccountEach'
    BY <2>1, <2>2 DEF OneAccountEach
  <2>4. ASSUME NEW v \in registered'
        PROVE  users'[v] # Absent /\ Auth!Having(users[v].email)' = {v}
    <3>1. v \in UserIds /\ users'[v] # Absent
      BY <1>2, <2>1, <2>4
      DEF RegistrationsKept, Auth!RegistrationsKept, TypeOK, Auth!TypeOK
    <3>2. QED
      BY <2>3, <3>1 DEF OneAccountEach, Auth!Having
  <2>5. QED
    BY <2>3, <2>4 DEF RegistrationsKept, Auth!RegistrationsKept
<1>3. QED
  BY <1>1, <1>2, OneMoreAccount

-----------------------------------------------------------------------------
(* Jobs.                                                                   *)

\* What a step may do to one job: submit it, or move it forward without
\* changing its owner.
Forward(j) ==
    /\ jobs[j] # Absent
    /\ jobs'[j] # Absent
    /\ jobs'[j].user = jobs[j].user
    /\ Rank[jobs[j].status] < Rank[jobs'[j].status]

\* Rows are submitted once and then move forward.
LEMMA JobsForward ==
    ASSUME TypeOK, [Next]_vars, NEW j \in JobIds
    PROVE  jobs'[j] = jobs[j] \/ jobs[j] = Absent \/ Forward(j)
<1> USE DEF TypeOK
<1>1. ASSUME NEW i \in JobIds, NEW u, Board!Submit(i, u)
      PROVE  jobs'[j] = jobs[j] \/ jobs[j] = Absent
  BY <1>1 DEF Board!Submit
<1>2. ASSUME NEW i \in JobIds, RunCreateJob(i)
      PROVE  jobs'[j] = jobs[j] \/ Forward(j)
  <2>1. jobs[i] \in Board!JobRow /\ jobs[i] # Absent
    BY <1>2 DEF RunCreateJob, Board!Begin, Board!Succeed, Board!Fail
  <2>2. CASE Board!Begin(i)
    <3>1. jobs' = [jobs EXCEPT ![i] = [jobs[i] EXCEPT !.status = "running"]]
      BY <2>2 DEF Board!Begin
    <3>2. jobs[i].status = "pending"
      BY <2>2 DEF Board!Begin
    <3>3. [jobs[i] EXCEPT !.status = "running"] \in Board!JobRow
      BY <2>1 DEF Board!JobRow, Board!JobStatus
    <3>4. QED
      BY <2>1, <3>1, <3>2, <3>3, AbsentAssumption
      DEF Forward, Rank, Board!JobRow
  <2>3. ASSUME NEW c \in ContainerIds, Board!Succeed(i, c)
        PROVE  jobs'[j] = jobs[j] \/ Forward(j)
    <3>1. /\ jobs'[i].status = "success"
          /\ jobs'[i].user = jobs[i].user
          /\ jobs'[i] \in Board!JobRow
          /\ i # j => jobs'[j] = jobs[j]
      BY <2>1, <2>3 DEF Board!Succeed, Board!JobRow, Board!JobStatus
    <3>2. jobs[i].status \in {"pending", "running"}
      BY <2>1, <2>3
      DEF Board!Succeed, Board!Settled, Board!JobRow, Board!JobStatus
    <3>3. QED
      BY <2>1, <3>1, <3>2, AbsentAssumption DEF Forward, Rank
  <2>4. CASE Board!Fail(i)
    <3>1. /\ jobs'[i].status = "failed"
          /\ jobs'[i].user = jobs[i].user
          /\ jobs'[i] \in Board!JobRow
          /\ i # j => jobs'[j] = jobs[j]
      BY <2>1, <2>4 DEF Board!Fail, Board!JobRow, Board!JobStatus
    <3>2. jobs[i].status \in {"pending", "running"}
      BY <2>1, <2>4
      DEF Board!Fail, Board!Settled, Board!JobRow, Board!JobStatus
    <3>3. QED
      BY <2>1, <3>1, <3>2, AbsentAssumption DEF Forward, Rank
  <2>5. QED
    BY <1>2, <2>2, <2>3, <2>4 DEF RunCreateJob
<1>3. QED
  BY <1>1, <1>2 DEF Next, vars, authVars, Create, Get

\* A job handed to a client stays that client's.
LEMMA NextHanded ==
    /\ TypeOK /\ TokensGranted /\ RequestsGranted /\ HandedToOwner
    /\ [Next]_vars
    => HandedToOwner'
<1> SUFFICES ASSUME TypeOK, TokensGranted, RequestsGranted, HandedToOwner,
                    [Next]_vars, NEW h \in handed'
             PROVE  /\ jobs'[h.job] # Absent
                    /\ users'[jobs'[h.job].user].email = h.email
  BY DEF HandedToOwner
<1>1. CASE h \in handed
  <2>1. /\ h.job \in JobIds
        /\ jobs[h.job] # Absent
        /\ users[jobs[h.job].user].email = h.email
    BY <1>1 DEF HandedToOwner, TypeOK
  <2>2. jobs'[h.job] # Absent /\ jobs'[h.job].user = jobs[h.job].user
    BY <2>1, JobsForward DEF Forward
  <2>3. jobs[h.job].user \in UserIds /\ users[jobs[h.job].user] # Absent
    BY <2>1 DEF TypeOK, Board!JobRow
  <2>4. users'[jobs[h.job].user] = users[jobs[h.job].user]
    BY <2>3, AccountsStay
  <2>5. QED
    BY <2>1, <2>2, <2>4
<1>2. CASE h \notin handed
  <2>1. PICK t \in Threads : Create(t)
    BY <1>2 DEF Next, vars, authVars, Get
  <2>2. PICK j \in JobIds :
          /\ Board!Submit(j, UserID(t))
          /\ h = [job |-> j, email |-> Client(t)]
    BY <1>2, <2>1 DEF Create
  <2>3. jobs'[j] # Absent /\ jobs'[j].user = UserID(t)
    <3>1. jobs'[j] = [user |-> UserID(t), status |-> "pending",
                      containerID |-> Absent]
      BY <2>2 DEF Board!Submit, TypeOK
    <3>2. jobs'[j] \in Board!JobRow
      BY <2>1, <3>1, Authentic
      DEF Create, Board!JobRow, Board!JobStatus
    <3>3. QED
      BY <3>1, <3>2, AbsentAssumption
  <2>4. users[UserID(t)].email = Client(t) /\ users' = users
    BY <2>1, ClientsAccount DEF Create
  <2>5. QED
    BY <2>2, <2>3, <2>4
<1>3. QED
  BY <1>1, <1>2

\* An answer shows a job to its owner as its row is.
LEMMA ShownNow ==
    ASSUME TypeOK, [Next]_vars, NEW j \in JobIds, shown'[j] # shown[j]
    PROVE  /\ jobs'[j] # Absent
           /\ shown'[j] = Response(jobs'[j], jobs'[j].user)
           /\ jobs[j] = Absent \/ jobs[j] = jobs'[j]
<1>1. CASE \E t \in Threads : Create(t)
  <2>1. PICK t \in Threads : Create(t)
    BY <1>1
  <2>2. /\ Board!Submit(j, UserID(t))
        /\ shown'[j] = Response(jobs'[j], UserID(t))
    BY <2>1 DEF Create, TypeOK
  <2>3. jobs'[j] = [user |-> UserID(t), status |-> "pending",
                    containerID |-> Absent]
    BY <2>2 DEF Board!Submit, TypeOK
  <2>4. jobs'[j] \in Board!JobRow
    BY <2>1, <2>3, Authentic DEF Create, Board!JobRow, Board!JobStatus
  <2>5. QED
    BY <2>2, <2>3, <2>4, AbsentAssumption DEF Board!Submit
<1>2. CASE \E t \in Threads, i \in JobIds : Get(t, i)
  <2>1. PICK t \in Threads, i \in JobIds : Get(t, i)
    BY <1>2
  <2>2. PICK o \in Auth!Outcomes :
          /\ Find(UserID(t), i, o) = "found"
          /\ shown' = [shown EXCEPT ![i] = Response(jobs[i], UserID(t))]
    BY <2>1 DEF Get
  <2>3. i = j /\ shown'[j] = Response(jobs[j], UserID(t))
    BY <2>2 DEF TypeOK
  <2>4. jobs[j] # Absent /\ jobs[j].user = UserID(t)
    BY <2>2, <2>3 DEF Find, Owned
  <2>5. QED
    BY <2>1, <2>3, <2>4 DEF Get
<1>3. QED
  BY <1>1, <1>2 DEF Next, vars

\* Rows move forward, so what was shown stays behind them.
LEMMA NextShown ==
    TypeOK /\ TypeOK' /\ ShownBehind /\ [Next]_vars => ShownBehind'
<1> SUFFICES ASSUME TypeOK, TypeOK', ShownBehind, [Next]_vars,
                    NEW j \in JobIds, shown'[j] # Absent
             PROVE  /\ jobs'[j] # Absent
                    /\ jobs'[j].user = shown'[j].to
                    /\ \/ /\ shown'[j].status = jobs'[j].status
                          /\ shown'[j].containerID = jobs'[j].containerID
                       \/ Rank[shown'[j].status] < Rank[jobs'[j].status]
  BY DEF ShownBehind
<1>1. CASE shown'[j] = shown[j]
  <2>1. CASE jobs'[j] = jobs[j]
    BY <1>1, <2>1 DEF ShownBehind
  <2>2. CASE Forward(j)
    <3>1. /\ Rank[shown[j].status] \in Nat
          /\ Rank[jobs[j].status] \in Nat
          /\ Rank[jobs'[j].status] \in Nat
      <4>1. /\ shown[j] \in Answer
            /\ jobs[j] \in Board!JobRow
            /\ jobs'[j] \in Board!JobRow
        BY <1>1, <2>2 DEF Forward, TypeOK
      <4>2. QED
        BY <4>1 DEF Answer, Board!JobRow, Board!JobStatus, Rank
    <3>2. QED
      BY <1>1, <2>2, <3>1 DEF Forward, ShownBehind
  <2>3. QED
    BY <1>1, <2>1, <2>2, JobsForward DEF ShownBehind
<1>2. CASE shown'[j] # shown[j]
  <2>1. /\ jobs'[j] # Absent
        /\ shown'[j] = Response(jobs'[j], jobs'[j].user)
    BY <1>2, ShownNow
  <2>2. shown'[j] = [to |-> jobs'[j].user, status |-> jobs'[j].status,
                     containerID |-> jobs'[j].containerID]
    BY <2>1 DEF Response
  <2>3. QED
    BY <2>1, <2>2
<1>3. QED
  BY <1>1, <1>2

\* Nobody is denied what was promised: the account that FindByEmail finds is
\* the one whose registration was answered 201, and a client who logged in
\* again is the same user.
LEMMA NextRefusals ==
    /\ TypeOK /\ RegistrationsKept /\ RefusalsAreTrue /\ TokensGranted
    /\ RequestsGranted /\ OneAccountEach /\ HandedToOwner /\ [Next]_vars
    => RefusalsAreTrue'
<1> SUFFICES ASSUME TypeOK, RegistrationsKept, RefusalsAreTrue,
                    TokensGranted, RequestsGranted,
                    OneAccountEach, HandedToOwner, [Next]_vars
             PROVE  misled' = {}
  BY DEF RefusalsAreTrue
<1>1. misled = {}
  BY DEF RefusalsAreTrue
<1>2. ASSUME NEW e \in Emails, NEW p \in Passwords, Auth!Login(e, p)
      PROVE  misled' = {}
  <2>0. PICK o \in Auth!Outcomes : \E found \in Auth!FindByEmail(e, o) :
          \/ misled' = misled
          \/ /\ Auth!InvalidCredentials(found, p)
             /\ Auth!Refuse(401, e, Auth!WasRegistered(e, p))
    BY <1>2 DEF Auth!Login
  <2>1. PICK found \in Auth!FindByEmail(e, o) :
          \/ misled' = misled
          \/ /\ Auth!InvalidCredentials(found, p)
             /\ Auth!Refuse(401, e, Auth!WasRegistered(e, p))
    BY <2>0
  <2>2. ASSUME NEW u \in registered,
               users[u] = [email |-> e, password |-> p]
        PROVE  ~Auth!InvalidCredentials(found, p)
    <3>1. Auth!Having(e) = {u}
      BY <2>2 DEF RegistrationsKept, Auth!RegistrationsKept
    <3>2. found.err = "nil" => found.user = u
      BY <3>1, LoginFinds
    <3>3. found.err # "ErrNotFound"
      BY <3>1, LoginFinds
    <3>4. QED
      BY <2>2, <3>2, <3>3 DEF Auth!InvalidCredentials, Auth!Matches
  <2>3. QED
    BY <1>1, <2>1, <2>2 DEF Auth!Refuse, Auth!WasRegistered
<1>3. ASSUME NEW t \in Threads, NEW j \in JobIds, Get(t, j)
      PROVE  misled' = {}
  <2>1. PICK o \in Auth!Outcomes :
          LET found == Find(UserID(t), j, o)
          IN  \/ misled' = misled
              \/ /\ found # "found"
                 /\ Auth!Refuse(handleJobServiceError[found], Client(t),
                        /\ handleJobServiceError[found] # 500
                        /\ [job |-> j, email |-> Client(t)] \in handed)
    BY <1>3 DEF Get
  <2>2. CASE [job |-> j, email |-> Client(t)] \in handed
    <3>1. jobs[j] # Absent /\ users[jobs[j].user].email = Client(t)
      BY <2>2 DEF HandedToOwner
    <3>2. jobs[j].user \in UserIds /\ users[jobs[j].user] # Absent
      BY <3>1 DEF TypeOK, Board!JobRow
    <3>3. jobs[j].user = UserID(t)
      BY <1>3, <3>1, <3>2, ClientsAccount DEF Get, OneAccountEach
    <3>4. Find(UserID(t), j, o) \in {"found", "error"}
      BY <3>1, <3>3 DEF Find, Owned
    <3>5. handleJobServiceError["error"] = 500
      BY DEF handleJobServiceError
    <3>6. QED
      BY <1>1, <2>1, <3>4, <3>5 DEF Auth!Refuse
  <2>3. CASE [job |-> j, email |-> Client(t)] \notin handed
    BY <1>1, <2>1, <2>3 DEF Auth!Refuse
  <2>4. QED
    BY <2>2, <2>3
<1>4. QED
  BY <1>1, <1>2, <1>3
  DEF Next, vars, authVars, Auth!Next, Auth!Register, Auth!Insert,
      Auth!AuthMiddleware, Auth!Tick, Auth!CrashRestart, Create

-----------------------------------------------------------------------------
(* Theorems.                                                               *)

\* Every step keeps the inductive invariant.
LEMMA NextInv == IInv /\ [Next]_vars => IInv'
<1> SUFFICES ASSUME IInv, [Next]_vars PROVE IInv'
  OBVIOUS
<1>1. TypeOK'
  BY NextTypeOK DEF IInv
<1>2. TokensGranted' /\ RequestsGranted'
  BY NextTokensGranted, NextRequestsGranted DEF IInv
<1>3. RegistrationsKept' /\ OneAccountEach'
  BY NextAccounts DEF IInv
<1>4. RefusalsAreTrue'
  BY NextRefusals DEF IInv
<1>5. HandedToOwner' /\ ShownBehind'
  BY <1>1, NextHanded, NextShown DEF IInv
<1>6. QED
  BY <1>1, <1>2, <1>3, <1>4, <1>5 DEF IInv

\* The inductive invariant holds in every reachable state.
THEOREM PollingInvariance == Spec => []IInv
<1>1. Init => IInv
  BY InitInv
<1>2. IInv /\ [Next]_vars => IInv'
  BY NextInv
<1>3. QED
  BY <1>1, <1>2, PTL DEF Spec

\* Accounts, tokens, requests, jobs and answers keep their types, and every
\* job has an owner with an account although no foreign key asks for it.
THEOREM PollingTypes == Spec => []TypeOK
<1>1. IInv => TypeOK
  BY DEF IInv
<1>2. QED
  BY <1>1, PollingInvariance, PTL

\* Whoever was answered 201 keeps the one account of that email.
THEOREM AccountsAreKept == Spec => []RegistrationsKept
<1>1. IInv => RegistrationsKept
  BY DEF IInv
<1>2. QED
  BY <1>1, PollingInvariance, PTL

\* No 401 denies what a 201 gave, and no 403 or 404 what a 202 gave.
THEOREM NobodyIsMisled == Spec => []RefusalsAreTrue
<1>1. IInv => RefusalsAreTrue
  BY DEF IInv
<1>2. QED
  BY <1>1, PollingInvariance, PTL

\* The inductive invariant implies OnlyLoggedInOwnersSee.
LEMMA InvSees == IInv => OnlyLoggedInOwnersSee
<1> SUFFICES ASSUME IInv PROVE OnlyLoggedInOwnersSee
  OBVIOUS
<1>1. ASSUME NEW t \in Threads, Auth!Authenticated(t)
      PROVE  /\ users[thread[t].userID] =
                    [email |-> thread[t].token.login.email,
                     password |-> thread[t].token.login.password]
             /\ thread[t].at - thread[t].token.login.at < Lifetime
  <2>1. /\ thread[t].token \in tokens
        /\ thread[t].userID = thread[t].token.user
        /\ thread[t].at < thread[t].token.exp
    BY <1>1 DEF IInv, RequestsGranted
  <2>2. /\ thread[t].token.exp = thread[t].token.login.at + Lifetime
        /\ users[thread[t].userID] =
                [email |-> thread[t].token.login.email,
                 password |-> thread[t].token.login.password]
    BY <2>1 DEF IInv, TokensGranted
  <2>3. thread[t].at \in Nat /\ thread[t].token.login.at \in Nat
    BY <1>1, Authentic DEF IInv, Auth!Token, Auth!Presented
  <2>4. QED
    BY <2>1, <2>2, <2>3, TimeAssumption
<1>2. Auth!RunsAsWhoLoggedIn
  BY <1>1 DEF Auth!RunsAsWhoLoggedIn
<1>3. QED
  BY <1>2 DEF IInv, ShownBehind, OnlyLoggedInOwnersSee

\* A request runs as the account that logged in less than a token's lifetime
\* before, and a job is shown to nobody but its owner.
THEOREM OwnersOnlySee == Spec => []OnlyLoggedInOwnersSee
<1>1. QED
  BY InvSees, PollingInvariance, PTL

\* An answer that shows a job anew shows it further than the last one did.
LEMMA AnswersForward ==
    ASSUME IInv, [Next]_vars, NEW j \in JobIds, shown'[j] # shown[j],
           shown[j] # Absent
    PROVE  Rank[shown'[j].status] > Rank[shown[j].status]
<1>1. /\ shown'[j] = Response(jobs[j], jobs[j].user)
      /\ jobs[j] # Absent
      /\ jobs[j].user = shown[j].to
  BY ShownNow DEF IInv, ShownBehind
<1>2. shown'[j] = [to |-> shown[j].to, status |-> jobs[j].status,
                   containerID |-> jobs[j].containerID]
  BY <1>1 DEF Response
<1>3. shown[j] \in Answer
  BY DEF IInv, TypeOK
<1>4. Rank[shown[j].status] < Rank[jobs[j].status]
  BY <1>2, <1>3 DEF IInv, ShownBehind, Answer
<1>5. /\ Rank[shown[j].status] \in Nat
      /\ Rank[jobs[j].status] \in Nat
  BY <1>1, <1>3 DEF IInv, TypeOK, Answer, Board!JobRow, Board!JobStatus, Rank
<1>6. QED
  BY <1>2, <1>4, <1>5

\* Whoever polls sees a job move forward, and its outcome stay.
THEOREM PollsGoForward == Spec => PollsMoveForward
<1>1. IInv /\ [Next]_vars =>
        [\A j \in JobIds : shown'[j] # shown[j] /\ shown[j] # Absent =>
            Rank[shown'[j].status] > Rank[shown[j].status]]_vars
  BY AnswersForward
<1>2. QED
  BY <1>1, PollingInvariance, PTL DEF Spec, PollsMoveForward

=============================================================================
