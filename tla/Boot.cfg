SPECIFICATION Spec
CONSTANTS
    None = None
    Shared = k1
    Common = v1
    Key = {k1, k2}
    Value = {v1}
    NewLine = NewLine
    Reread <- PlainRecords
    Adds = {a1}
    Removes = {r1}
    Backup <- OneRecord
    Offers <- SeedStores
    MaxStamp = 2
    MaxStarts = 3
INVARIANTS TypeOK UnloggedOnlyFromBoot JoinTakesNewest
PROPERTIES SavedSurvives
