CONSTANTS
    c1 = c1  c2 = c2  c3 = c3  s1 = s1  s2 = s2
    EvidenceIds = {e1, e2, e3}
    Contents = {c1, c2, c3}
    Shards = {s1, s2}
    ShardOf <- Placement
    MaxFaults = 1
    MaxLosses = 2
SPECIFICATION Spec
SYMMETRY Symmetry
INVARIANT NewEntriesAreDurable
