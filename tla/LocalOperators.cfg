CONSTANTS
    WorkItems = {}
    Requests = {r1}
    Decisions = {d1, d2}
    Operations = {o1, o2}
    Observing = {d2}
    MaxDepth = 1
    MaxCrashes = 1
    MaxRaises = 1
    MaxRevision = 3
    MaxControl = 2
SPECIFICATION LocalSpec
SYMMETRY Symmetry
INVARIANT ControlVerifies
INVARIANT ExecutedIsLinked
PROPERTY DispatchOnlyWhenRunnable
PROPERTY ImplementsOperationHost
CHECK_DEADLOCK FALSE
