\* A process is killed, the store is opened again, then the power fails.
SPECIFICATION Spec
CONSTANTS
    Ids = {x}
    Callers = {c1}
    SegmentEntries = 2
    Modes = {TRUE, FALSE}
    MaxLSN = 4
    Faults <- KillThenPower
CHECK_DEADLOCK FALSE
INVARIANT AckedSurvive
