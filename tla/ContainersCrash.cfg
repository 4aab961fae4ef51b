\* One call fails either way, the process dies once; one request at a time.
CONSTANTS
    Users = {u1, u2}
    Names = {n1, n2}
    Threads = {t1}
    JobIds = {j1, j2}
    ContainerIds = {c1, c2}
    DockerIds = {d1, d2}
    Absent = Absent
    FaultModes = {"refused", "unanswered"}
    MaxFaults = 1
    MaxCrashes = 1
SPECIFICATION Spec
SYMMETRY Symmetry
INVARIANTS TypeOK IdentityStable SuccessDelivered AckedDeleteRemoved IInv
PROPERTIES BoardSpec OnlyOwnerActs
\* The UUIDs run out and clients may fall silent.
CHECK_DEADLOCK FALSE
