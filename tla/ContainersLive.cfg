\* One call is refused; one user and one name.
CONSTANTS
    Users = {u1}
    Names = {n1}
    Threads = {t1}
    JobIds = {j1, j2}
    ContainerIds = {c1, c2}
    DockerIds = {d1, d2}
    Absent = Absent
    FaultModes = {"refused"}
    MaxFaults = 1
    MaxCrashes = 1
SPECIFICATION FairSpec
PROPERTIES WorkersDrain JobsSettleUnlessFault
\* The UUIDs run out and clients may fall silent.
CHECK_DEADLOCK FALSE
