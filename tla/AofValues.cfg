SPECIFICATION Spec
CONSTANTS
    None = None
    NewLine = NewLine
    Word = Word
    Words = Words
    Key = {k1}
    Value = {Word, Words}
    Reread <- FirstWord
    Adds = {a1}
    Removes = {}
    MaxFailures = 0
    MaxRestarts = 0
INVARIANT SerialValuesRestored
