CONSTANTS
    Decisions = {d1, d2}
    Operations = {o1, o2}
    Observing = {d2}
    MaxDepth = 3
    MaxCrashes = 2
    MaxRaises = 1
    MaxEvents = 5
SPECIFICATION AuditFairSpec
INVARIANT TypeOK
INVARIANT RecordedEffectIsTrue
INVARIANT OneDispatchPerAuthority
INVARIANT JournaledBeforeDispatch
INVARIANT RecoveryMissesNothing
INVARIANT HistoriesAudit
PROPERTY SettledStaysSettled
PROPERTY ImplementsEffectTruth
PROPERTY RecoverySettlesAll
CHECK_DEADLOCK FALSE
