\* Nothing fails.
CONSTANTS
    Levels = {"info"}
    Malformed = Malformed
    MaxEntries = 3
    MaxTears = 0
    MaxBotched = 0
SPECIFICATION Spec
INVARIANTS ReadWithinFilter
\* The entries run out.
CHECK_DEADLOCK FALSE
