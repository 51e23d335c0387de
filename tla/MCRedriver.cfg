\* Two records, one or two workers.
SPECIFICATION FairSpec
CONSTANTS
    r1 = r1  r2 = r2  d1 = d1
    Ids = {r1, r2}
    Deps = {d1}
    BlockedOn <- Together
    Pools = {1, 2}
    MaxAttempts = 1
    MaxFaults <- FewFaults
    CanStop = TRUE
INVARIANT OneHandlerPerRecord
INVARIANT PoolSeenRight
INVARIANT AttemptsCharged
INVARIANT CleanStop
PROPERTY Drains
