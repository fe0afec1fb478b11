SPECIFICATION Spec
CONSTANTS
    None = None
    NewLine = NewLine
    Word = Word
    Words = Words
    Key = {k1, k2}
    Value = {Word}
    Reread <- PlainRecords
    Adds = {a1, a2}
    Removes = {}
    MaxFailures = 0
    MaxRestarts = 1
INVARIANT SerialValuesRestored
