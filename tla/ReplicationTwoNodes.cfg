SPECIFICATION FairSpec
CONSTANTS
    Node = {n1, n2}
    Pool <- FullMesh
    Local = Local
    None = None
    Key = {k1}
    Value = {v1}
    Adds = {a1}
    Removes = {r1}
    Gets = {g1}
    ReadQuorum = 2
    WriteQuorum = 2
    UsizeMax = 65535
    SyncedClocks = FALSE
    MaxStamp = 2
INVARIANTS TypeOK Integrity QuorumLogged LoggedUnlessRepaired
PROPERTIES EveryRequestAnswered RepairsEnd
