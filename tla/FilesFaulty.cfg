\* Two calls fail either way, one crash, two requests at a time; owners keep
\* asking for the removal of what they see.
CONSTANTS
    Users = {u1, u2}
    Threads = {t1, t2}
    FileIds = {f1, f2}
    Absent = Absent
    FaultModes = {"refused", "unanswered"}
    MaxFaults = 2
    MaxCrashes = 1
SPECIFICATION RetrySpec
INVARIANTS TypeOK RowsHaveContent UploadsKept NoOrphanFileWithoutDoubleFault AckedFileGone
PROPERTIES OnlyUploaderRemoves FileDeleteConverges
\* The UUIDs run out and clients may fall silent.
CHECK_DEADLOCK FALSE
