CONSTANTS
    Addresses = {1, 2}
    Evidence = {}
    Size <- UnitSize
    Envelope = 1
    ProgramUnits = 1
    Samples <- MixedSamples
    Budgets = {4, 6}
    RecallLimits <- SampleLimits
    Receipts = {k1, k2}
    Attempts = {a1, a2}
    MaxRevision = 1
    MaxGeneration = 1
    MaxDepth = 2
    MaxFaults = 1
SPECIFICATION Spec
SYMMETRY Symmetry
INVARIANT AnswersAreKept
INVARIANT ControlsKeepTheirStanding
INVARIANT SelectionIsBest
PROPERTY AcceptedOnCurrentFacts
CHECK_DEADLOCK FALSE
