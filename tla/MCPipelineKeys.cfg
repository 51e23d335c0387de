\* A saga whose first step cannot be undone, sent back through the pipeline.
SPECIFICATION Spec
CONSTANTS
    s1 = s1  s2 = s2  s3 = s3  s4 = s4
    Versions <- TwoVersions
    Compensable = {s2}
    Retried = {}
    Setups <- StoredSaga
    MaxAttempts = 2
    MaxFaults = 1
    MaxRewinds = 1
    MaxDeploys = 0
INVARIANT InForceOnce
