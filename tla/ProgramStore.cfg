CONSTANTS
    w1 = w1  r1 = r1  r2 = r2
    WorkItems = {w1}
    Programs = {p1}
    Processes = {pr1, pr2}
    Requests = {r1, r2}
    Changes <- MCChanges
    MaxRevision = 3
    MaxDamage = 1
    MaxCrashes = 1
SPECIFICATION FairSpec
INVARIANT IntegrityVerifies
INVARIANT AppliedOnce
PROPERTY ImplementsLifecycle
PROPERTY RequestsAnswered
