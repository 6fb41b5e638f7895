CONSTANTS
    Events = {e1, e2, e3}
    MaxRevision = 1
    MaxFaults = 2
SPECIFICATION Spec
INVARIANT OnlyOriginalsAreRead
PROPERTY ControlsAreNeverDropped
PROPERTY RestartHeals
SYMMETRY Symmetry
CHECK_DEADLOCK FALSE
