\* Nothing fails; two requests at a time.
CONSTANTS
    Users = {u1}
    Names = {n1}
    Threads = {t1, t2}
    JobIds = {j1}
    ContainerIds = {c1}
    DockerIds = {d1}
    Absent = Absent
    FaultModes = {}
    MaxFaults = 0
    MaxCrashes = 0
SPECIFICATION Spec
SYMMETRY Symmetry
INVARIANTS DeletedStaysDeleted
\* The UUIDs run out and clients may fall silent.
CHECK_DEADLOCK FALSE
