SPECIFICATION PatientSpec
CONSTANTS
    Node = {n1, n2, n3}
    Pool <- FullMesh
    Local = Local
    None = None
    Key = {k1}
    Value = {v1, v2}
    Adds = {a1, a2}
    Removes = {}
    Gets = {g1}
    ReadQuorum = 2
    WriteQuorum = 2
    UsizeMax = 65535
    SyncedClocks = TRUE
    MaxStamp = 2
SYMMETRY Symmetry
INVARIANTS StatusReflectsQuorum QuorumReadFreshness ReadRepairConverges
