\* One call is refused, and the owner keeps asking.
CONSTANTS
    Users = {u1}
    Names = {n1}
    Threads = {t1}
    JobIds = {j1}
    ContainerIds = {c1}
    DockerIds = {d1}
    Absent = Absent
    FaultModes = {"refused"}
    MaxFaults = 1
    MaxCrashes = 0
SPECIFICATION RetrySpec
PROPERTIES DeleteConverges
\* The UUIDs run out and clients may fall silent.
CHECK_DEADLOCK FALSE
