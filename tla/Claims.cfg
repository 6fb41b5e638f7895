CONSTANTS
    Claims = {k1, k2, k3}
    EvidenceIds = {e1, e2}
    MaxEvents = 8
SPECIFICATION Spec
SYMMETRY Symmetry
INVARIANT EveryClaimReads
INVARIANT SuccessionEnds
PROPERTY SupportIsFixed
PROPERTY ImplementsClaimSupport
CHECK_DEADLOCK FALSE
