\* Two requests at a time, two jobs; Shutdown may time out, handlers may hang.
CONSTANTS
    Requests = {r1, r2}
    Levels = {"info", "error"}
    MinLevel = "error"
    Capacity = 1
    MaxEntries = 3
    MaxJobs = 2
SPECIFICATION FairSpec
INVARIANTS TypeOK GracefulExit NoSendOnClosed
PROPERTIES ShutdownCompletes
\* The process ends.
CHECK_DEADLOCK FALSE
