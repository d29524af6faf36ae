\* A table with and without a key: rollbacks, nested savepoints and vacuum.
CONSTANTS
    a = a
    b = b
    c = c
    sp1 = sp1
    sp2 = sp2
    NoValue = NoValue
    MaxRowId = 2
    Values = {a, b}
    Keyed = {TRUE, FALSE}
    MaxMatched <- MCMatched
    Names = {sp1}
    Levels = {}
    XIDEmergencyStop = 5
    XIDFreezeThreshold = 2
    MaxCommand = 0
    MaxUndo = 3
    MaxSavepoints = 2
SPECIFICATION Spec
SYMMETRY Symmetry
INVARIANTS
    PrimaryKeyUnique
    NoTrace
PROPERTIES
    ImplementsRowTable
