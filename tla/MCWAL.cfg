\* One record, one caller at a time, segments of two entries, two crashes.
SPECIFICATION Spec
CONSTANTS
    Ids = {x}
    Callers = {c1}
    SegmentEntries = 2
    Modes = {TRUE, FALSE}
    MaxLSN = 3
    Faults <- Crashes
CHECK_DEADLOCK FALSE
INVARIANT AckedSurvive
INVARIANT MemoryIsReplay
INVARIANT PayloadsReadable
INVARIANT AlwaysOpens
