SPECIFICATION Spec
CONSTANTS
    None = None
    First = n1
    Second = n2
    Node = {n1, n2, n3}
    Seed <- Star
    Write = {}
    Client <- AtSecond
    MaxEvents = 0
    MaxRepairs = 0
INVARIANT NodesListsTheOthers
