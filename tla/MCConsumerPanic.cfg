\* The context ends while a message waits behind another of its key.
SPECIFICATION Spec
CONSTANTS
    p1 = p1
    k = k
    NoKey = nokey
    Partitions = {p1}
    Log <- OnePartition
    Workers = 2
    MaxInFlight = 2
    Policies = {"halt"}
    Failures = {}
    CanStop = TRUE
    MaxFaults = 1
    MaxGen = 1
INVARIANT NoPanic
