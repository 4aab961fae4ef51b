\* Two accounts, two requests at a time, tokens that expire; one call fails,
\* the process dies once.
CONSTANTS
    Emails = {e1, e2}
    Passwords = {p1, p2}
    UserIds = {u1, u2}
    Threads = {t1, t2}
    JobIds = {j1}
    ContainerIds = {c1}
    Absent = Absent
    Lifetime = 2
    MaxTime = 2
    FaultModes = {"refused", "unanswered"}
    MaxFaults = 1
    MaxCrashes = 1
SPECIFICATION Spec
SYMMETRY Symmetry
INVARIANTS TypeOK RegistrationsKept OnlyLoggedInOwnersSee RefusalsAreTrue
PROPERTIES PollsMoveForward
\* Clients may fall silent.
CHECK_DEADLOCK FALSE
