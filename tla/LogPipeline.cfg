\* More callers than the buffer has room for, handlers registered and Close
\* called at any time, a backend that may fail.
CONSTANTS
    Callers = {c1, c2, c3}
    Handlers = {h1}
    Levels = {"info"}
    MinLevel = "info"
    Capacity = 1
    MaxEntries = 3
    ClearTimes = {2}
    WritesMayFail = TRUE
SPECIFICATION FairSpec
INVARIANTS TypeOK ClosedMeansDrained CallerOrderKept HandlersMissNothing OnlyLateEntriesOlder
PROPERTIES StreamSpec CallersResume CloseCompletes
\* The entries run out and callers may fall silent.
CHECK_DEADLOCK FALSE
