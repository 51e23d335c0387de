\* Two workers, three messages, two assignments, two faults.
SPECIFICATION FairSpec
CONSTANTS
    p1 = p1
    k = k
    NoKey = nokey
    Partitions = {p1}
    Log <- OnePartition
    Workers = 2
    MaxInFlight = 2
    Policies = {"halt", "skip"}
    Failures = {"failed", "storeFailed", "invalid"}
    CanStop = TRUE
    MaxFaults = 2
    MaxGen = 2
INVARIANT CommittedIsSettled
INVARIANT KeyOrder
INVARIANT CountsExact
INVARIANT NothingForgotten
PROPERTY Progress
