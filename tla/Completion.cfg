CONSTANTS
    WorkItems = {w1}
    Operations = {o1}
    Decisions = {d1}
    Observing = {}
    Criteria = {x1}
    Claims = {k1}
    Contracts = {c1}
    Terms <- MCTerms
    Blockers = {b1}
    MaxRevision = 4
    MaxSequence = 4
    MaxDepth = 2
SPECIFICATION Spec
SYMMETRY Symmetry
INVARIANT CompletedMeansSettled
PROPERTY CertifiedOnCurrentFacts
CHECK_DEADLOCK FALSE
