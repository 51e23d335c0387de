SPECIFICATION FairSpec
CONSTANTS
    c1 = c1
    c2 = c2
    h1 = h1
    h2 = h2
    Replayer = replayer
    Shared = shared
    Callers <- TwoCallers
    Hosts <- TwoHosts
    Circuits <- FourCircuits
    MaxInflight = 2
    Scan = 2
    Setups <- Setting
INVARIANTS IndexAgrees NothingLeaks DeferredIsKept CloseStopsAll
PROPERTIES Returns SavedIsSent
CHECK_DEADLOCK FALSE
