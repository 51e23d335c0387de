\* A saga in Execute: a permanent failure, and a crash while it is undone.
SPECIFICATION Spec
CONSTANTS
    s1 = s1  s2 = s2  s3 = s3  s4 = s4
    Versions <- TwoVersions
    Compensable = {s1, s2}
    Retried = {}
    Setups <- LiveSaga
    MaxAttempts = 2
    MaxFaults = 2
    MaxRewinds = 0
    MaxDeploys = 0
INVARIANT ResumesUndo
