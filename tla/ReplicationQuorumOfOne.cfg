SPECIFICATION Spec
CONSTANTS
    Node = {n1, n2}
    Pool <- FullMesh
    Local = Local
    None = None
    Key = {k1}
    Value = {v1}
    Adds = {a1}
    Removes = {}
    Gets = {g1}
    ReadQuorum = 1
    WriteQuorum = 1
    UsizeMax = 65535
    SyncedClocks = TRUE
    MaxStamp = 2
SYMMETRY Symmetry
INVARIANT StatusReflectsQuorum
