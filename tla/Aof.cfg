SPECIFICATION FairSpec
CONSTANTS
    None = None
    NewLine = NewLine
    Word = Word
    Words = Words
    Key = {k1, k2}
    Value = {Word}
    Reread <- PlainRecords
    Adds = {a1, a2}
    Removes = {r1}
    MaxFailures = 1
    MaxRestarts = 1
INVARIANTS TypeOK ReplayRestoresSerialKeys
PROPERTIES ImplementsDurableLog RecordsLeaveMemory
