\* Two threads share the context.
CONSTANTS
    w1 = w1
    w2 = w2
    Threads = {w1, w2}
    MaxRowId = 3
    MaxBatch = 2
    XIDEmergencyStop = 6
    XIDFreezeThreshold = 2
    MaxCommand = 2
SPECIFICATION Spec
INVARIANTS
    ImplicitCommits
