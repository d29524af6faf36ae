\* What is committed is gone after a crash.
CONSTANTS
    a = a
    b = b
    MaxRowId = 1
    MaxXid = 4
    MaxSeq = 9
    Values = {a, b}
    Interval = 0
    Implicit = FALSE
    Saves = FALSE
    CrashPoints = {"idle"}
    MaxStarts = 1
SPECIFICATION Spec
SYMMETRY Symmetry
CHECK_DEADLOCK FALSE
PROPERTIES
    CrashKeepsCommitted
