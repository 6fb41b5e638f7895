CONSTANTS
    c1 = c1  c2 = c2  c3 = c3  s1 = s1  s2 = s2
    a = a  b = b  b1 = b1
    Contents = {c1, c2, c3}
    Shards = {s1, s2}
    ShardOf <- Placement
    EvidenceIds = {e1, b1, "capture"}
    Archives = {b1}
    Holds <- MCHolds
    Paths <- MCPaths
    Life <- MCLife
    MaxFaults = 1
    MaxLosses = 1
    MaxRevision = 1
    MaxSnapshots = 1
SPECIFICATION WorkspaceSpec
INVARIANT AdmittedBytesExist
INVARIANT NoTornArtifact
INVARIANT SnapshotFilesCoexist
INVARIANT EveryArchiveReads
CHECK_DEADLOCK FALSE
