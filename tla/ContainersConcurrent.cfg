\* Two requests at a time, two users, two create jobs; one call is refused.
CONSTANTS
    Users = {u1, u2}
    Names = {n1, n2}
    Threads = {t1, t2}
    JobIds = {j1, j2}
    ContainerIds = {c1, c2}
    DockerIds = {d1, d2}
    Absent = Absent
    FaultModes = {"refused"}
    MaxFaults = 1
    MaxCrashes = 0
SPECIFICATION Spec
SYMMETRY Symmetry
INVARIANTS EveryRowReported SerializedRowsAgree NoOrphanWithoutDoubleFault
\* The UUIDs run out and clients may fall silent.
CHECK_DEADLOCK FALSE
