\* A stop or a crash anywhere, among automatic and explicit checkpoints.
CONSTANTS
    a = a
    b = b
    MaxRowId = 2
    MaxXid = 4
    MaxSeq = 8
    Values = {a, b}
    Interval = 3
    Implicit = TRUE
    Saves = TRUE
    CrashPoints = {"idle", "save", "truncate"}
    MaxStarts = 1
SPECIFICATION Spec
SYMMETRY Symmetry
CHECK_DEADLOCK FALSE
PROPERTIES
    RestartKeepsCommitted
    CrashKeepsCheckpoint
