SPECIFICATION FairSpec
CONSTANTS
    None = None
    First = n1
    Second = n2
    Node = {n1, n2, n3}
    Seed <- Star
    Write = {w1}
    Client <- AtSecond
    MaxEvents = 1
    MaxRepairs = 1
INVARIANTS TypeOK SerialChangesAgree KnowsThoseBefore JoinBringsSettledWrites OwnPeerOnlyIfRecalled
PROPERTY ChangesEnd
