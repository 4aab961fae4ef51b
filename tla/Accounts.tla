------------------------------ MODULE Accounts ------------------------------
(***************************************************************************)
(* internal/usecase/user and the way from a password to an authenticated   *)
(* request: POST /auth/register, POST /auth/login and AuthMiddleware.      *)
(*                                                                         *)
(* Register is two calls to PostgreSQL, FindByEmail and then the INSERT of *)
(* Save, and any number of requests may be between the two; the UNIQUE     *)
(* constraint on the email is all that keeps them apart.  Login reads once *)
(* and signs a token that names the user and expires; AuthMiddleware       *)
(* checks the token alone and never looks at the users table.  An account  *)
(* is never changed or removed.                                            *)
(*                                                                         *)
(* HashedPassword is the password it was made from: bcrypt matches no      *)
(* other.  Nobody but the server signs a token, since nobody else has the  *)
(* secret.  Requests with malformed JSON, without a token, or whose        *)
(* password bcrypt refuses to hash change nothing.                         *)
(***************************************************************************)
EXTENDS Naturals, FiniteSets

CONSTANTS
    Emails, Passwords,
    UserIds,        \* UUIDs (uuid.NewString never repeats one)
    Threads,        \* goroutines net/http may run requests on at once
    Absent,         \* no row, no request
    Lifetime,       \* how long a token is valid, 24 hours in the code
    MaxTime,        \* bound on the clock
    FaultModes,     \* the ways a call to PostgreSQL may fail, see Call
    MaxFaults,      \* bound on failing calls
    MaxCrashes      \* bound on crashes of the process

User == [email : Emails, password : Passwords]

\* What a client presented to Login, and when: history that goes with the
\* token it was answered with.
Presented == [email : Emails, password : Passwords, at : 0..MaxTime]

Token == [user : UserIds, exp : 0..MaxTime + Lifetime, login : Presented]

\* A request in flight: a Register past FindByEmail, or one that
\* AuthMiddleware let through at a time, with the user ID it put in the
\* context and the token it found it in.
Request == [pc : {"insert"}, email : Emails, password : Passwords]
            \cup [pc : {"handler"}, userID : UserIds, token : Token,
                  at : 0..MaxTime]

VARIABLES
    users,      \* the users table
    tokens,     \* the tokens clients were answered with
    thread,     \* the request on each thread
    clock,
    faults, crashes,    \* how many calls failed, how often the process died
    \* History, kept for the properties only:
    registered, \* the accounts of registrations answered 201
    misled      \* refusals of what was promised before, see Refuse

vars == <<users, tokens, thread, clock, faults, crashes, registered, misled>>

-----------------------------------------------------------------------------

\* How a call ends: done and answered, refused without effect, or done while
\* the caller gets an error (the connection broke before the answer).
Outcomes == {"ok"} \cup FaultModes

Call(o) ==
    \/ o = "ok" /\ UNCHANGED faults
    \/ o \in FaultModes /\ faults < MaxFaults /\ faults' = faults + 1

Having(e) == {u \in UserIds : users[u] # Absent /\ users[u].email = e}

\* What userRepo.FindByEmail may return: a user (the first row with the email,
\* whichever that is), ErrNotFound or another error.
FindByEmail(e, o) ==
    IF o # "ok" THEN {[err |-> "error"]}
    ELSE IF Having(e) = {} THEN {[err |-> "ErrNotFound"]}
    ELSE {[err |-> "nil", user |-> u] : u \in Having(e)}

\* The answers that deny something the client may have been promised before.
Statuses == {401, 403, 404}

\* The request is answered.
Answer(t) == thread' = [thread EXCEPT ![t] = Absent]

\* The client is refused with this answer; wrong says that it was promised
\* otherwise before.
Refuse(status, e, wrong) ==
    misled' = misled \cup {r \in {[status |-> status, email |-> e]} : wrong}

EmailIsFree(found) == found.err = "ErrNotFound"

\* Register up to the INSERT: 409 when the email is found, 500 on an error.
Register(t, e, p) ==
    /\ thread[t] = Absent
    /\ \E o \in Outcomes : \E found \in FindByEmail(e, o) :
        /\ Call(o)
        /\ thread' = IF EmailIsFree(found)
                     THEN [thread EXCEPT ![t] =
                            [pc |-> "insert", email |-> e, password |-> p]]
                     ELSE thread
    /\ UNCHANGED <<users, tokens, clock, crashes, registered, misled>>

\* Mutant: the column is declared without the UNIQUE constraint.
NotUnique(e) == FALSE

Violates(e) == Having(e) # {}

\* userRepo.Save under a fresh UUID.  The loser of a race is answered 500, as
\* on any other error.
Insert(t) ==
    /\ thread[t] # Absent
    /\ thread[t].pc = "insert"
    /\ LET new == [email |-> thread[t].email, password |-> thread[t].password]
       IN  \/ /\ Violates(new.email)
              /\ UNCHANGED <<users, faults, registered>>
           \/ /\ ~Violates(new.email)
              /\ \E u \in UserIds, o \in Outcomes :
                    /\ users[u] = Absent
                    /\ Call(o)
                    /\ users' = IF o = "refused" THEN users
                                ELSE [users EXCEPT ![u] = new]
                    /\ registered' = registered \cup {v \in {u} : o = "ok"}
    /\ Answer(t)
    /\ UNCHANGED <<tokens, clock, crashes, misled>>

ExpiresAt == clock + Lifetime

\* bcrypt.CompareHashAndPassword, of the user found.
Matches(found, p) == found.err = "nil" /\ users[found.user].password = p

\* Mutant: whatever FindByEmail returns, the credentials are to blame.
BlamesCredentials(found, p) == ~Matches(found, p)

InvalidCredentials(found, p) ==
    \/ found.err = "ErrNotFound"
    \/ found.err = "nil" /\ ~Matches(found, p)

\* A client was answered 201 for these credentials.
WasRegistered(e, p) ==
    \E u \in registered : users[u] = [email |-> e, password |-> p]

\* Login: a new token if the password is that of the user found, 401 when
\* there is no such user or the password is another, 500 on an error.
Login(e, p) ==
    /\ \E o \in Outcomes : \E found \in FindByEmail(e, o) :
        /\ Call(o)
        /\ \/ /\ Matches(found, p)
              /\ tokens' = tokens \cup
                    {[user |-> found.user, exp |-> ExpiresAt,
                      login |-> [email |-> e, password |-> p, at |-> clock]]}
              /\ UNCHANGED misled
           \/ /\ InvalidCredentials(found, p)
              /\ Refuse(401, e, WasRegistered(e, p))
              /\ UNCHANGED tokens
           \/ /\ found.err = "error"
              /\ UNCHANGED <<tokens, misled>>
    /\ UNCHANGED <<users, thread, clock, crashes, registered>>

\* Mutant: the expiry of the token is not checked.
NeverExpires(k) == TRUE

Valid(k) == clock < k.exp

\* AuthMiddleware: 401 unless the token is valid, without a look at the
\* users table; then the handler runs, for the user the token names.
AuthMiddleware(t, k) ==
    /\ thread[t] = Absent
    /\ Valid(k)
    /\ thread' = [thread EXCEPT ![t] = [pc |-> "handler", userID |-> k.user,
                                       token |-> k, at |-> clock]]
    /\ UNCHANGED <<users, tokens, clock, faults, crashes, registered, misled>>

Authenticated(t) == thread[t] # Absent /\ thread[t].pc = "handler"

Tick ==
    /\ clock < MaxTime
    /\ clock' = clock + 1
    /\ UNCHANGED <<users, tokens, thread, faults, crashes, registered, misled>>

\* The process dies and main starts it again: JWT_SECRET comes from the
\* environment, so the tokens signed before stay valid.
CrashRestart ==
    /\ crashes < MaxCrashes
    /\ crashes' = crashes + 1
    /\ thread' = [t \in Threads |-> Absent]
    /\ UNCHANGED <<users, tokens, clock, faults, registered, misled>>

-----------------------------------------------------------------------------

Init ==
    /\ users = [u \in UserIds |-> Absent]
    /\ tokens = {}
    /\ thread = [t \in Threads |-> Absent]
    /\ clock = 0
    /\ faults = 0
    /\ crashes = 0
    /\ registered = {}
    /\ misled = {}

\* The handlers behind AuthMiddleware are in the modules that compose with
\* this one.
Next ==
    \/ \E t \in Threads, e \in Emails, p \in Passwords : Register(t, e, p)
    \/ \E t \in Threads : Insert(t)
    \/ \E e \in Emails, p \in Passwords : Login(e, p)
    \/ \E t \in Threads, k \in tokens : AuthMiddleware(t, k)
    \/ Tick
    \/ CrashRestart

Spec == Init /\ [][Next]_vars

-----------------------------------------------------------------------------
(* Safety.                                                                 *)

\* Types: an account has an email and a password, a token names a user and
\* goes with a login that was answered with it.
TypeOK ==
    /\ users \in [UserIds -> User \cup {Absent}]
    /\ tokens \subseteq Token
    /\ thread \in [Threads -> Request \cup {Absent}]
    /\ clock \in 0..MaxTime
    /\ faults \in 0..MaxFaults
    /\ crashes \in 0..MaxCrashes
    /\ registered \subseteq UserIds
    /\ misled \subseteq [status : Statuses, email : Emails]

\* Whoever was answered 201 can log in from then on: the email has the
\* account it was told and no other, however many registrations of it
\* overlapped, failed half-way or were cut off by a crash.
RegistrationsKept ==
    \A u \in registered : users[u] # Absent /\ Having(users[u].email) = {u}

\* A request runs as the user whose email and password were presented to
\* Login less than a token's lifetime before AuthMiddleware let it through.
RunsAsWhoLoggedIn ==
    \A t \in Threads : Authenticated(t) =>
        LET login == thread[t].token.login
        IN  /\ users[thread[t].userID] = [email |-> login.email,
                                         password |-> login.password]
            /\ thread[t].at - login.at < Lifetime

=============================================================================
