\* Three steps, of which the last has no compensation; four faults.
SPECIFICATION FairSpec
CONSTANTS
    s1 = s1  s2 = s2  s3 = s3  s4 = s4
    Versions <- TwoVersions
    Compensable = {s1, s2}
    Retried = {s1}
    Setups <- Ways
    MaxAttempts = 2
    MaxFaults = 4
    MaxRewinds = 2
    MaxDeploys = 1
INVARIANT CheckpointTellsTruth
INVARIANT NeverLost
INVARIANT UndoGoesOn
PROPERTY Settles
