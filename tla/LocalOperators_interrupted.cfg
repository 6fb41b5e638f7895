CONSTANTS
    WorkItems = {}
    Requests = {r1}
    Decisions = {d1, d2}
    Operations = {o1, o2}
    Observing = {}
    MaxDepth = 1
    MaxCrashes = 1
    MaxRaises = 0
    MaxRevision = 3
    MaxControl = 2
SPECIFICATION LocalSpec
INVARIANT InterruptedIsRecovered
CHECK_DEADLOCK FALSE
