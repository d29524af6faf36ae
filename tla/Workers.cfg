\* Two worker threads on the one context.
CONSTANTS
    w1 = w1
    w2 = w2
    Threads = {w1, w2}
    MaxRowId = 2
    MaxBatch = 2
    XIDEmergencyStop = 6
    XIDFreezeThreshold = 2
    MaxCommand = 1
SPECIFICATION Spec
INVARIANTS
    UndisturbedCommits
    UndisturbedLog

    
SYMMETRY Symmetry
