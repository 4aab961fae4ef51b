\* Four entries, two cut writes, one cut clear.
CONSTANTS
    Levels = {"info"}
    Malformed = Malformed
    MaxEntries = 4
    MaxTears = 2
    MaxBotched = 1
SPECIFICATION Spec
INVARIANTS TypeOK ReadInWriteOrder TearsCostOneEach
PROPERTIES TableSpec
\* The entries run out.
CHECK_DEADLOCK FALSE
