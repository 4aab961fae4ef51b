\* Nothing fails; two users.
CONSTANTS
    Users = {u1, u2}
    Names = {n1}
    Threads = {t1}
    JobIds = {j1, j2}
    ContainerIds = {c1, c2}
    DockerIds = {d1, d2}
    Absent = Absent
    FaultModes = {}
    MaxFaults = 0
    MaxCrashes = 0
SPECIFICATION Spec
SYMMETRY Symmetry
PROPERTIES CreateRefusedByOwnContainers
\* The UUIDs run out and clients may fall silent.
CHECK_DEADLOCK FALSE
