\* An UPDATE that gives two rows the same primary key.
CONSTANTS
    a = a
    b = b
    c = c
    sp1 = sp1
    sp2 = sp2
    NoValue = NoValue
    MaxRowId = 2
    Values = {a, b, c}
    Keyed = {TRUE}
    MaxMatched <- TwoMatched
    Names = {sp1}
    Levels = {"ReadCommitted"}
    XIDEmergencyStop = 5
    XIDFreezeThreshold = 2
    MaxCommand = 1
    MaxUndo = 4
    MaxSavepoints = 0
SPECIFICATION Spec
INVARIANTS
    PrimaryKeyUnique
