\* DDL, stops, and one crash that may tear the log, by two workers.
CONSTANTS
    s1 = s1
    s2 = s2
    Sessions = {s1, s2}
    Databases = {"a"}
    Schemas = {"x"}
    Tables = {"t"}
    Users = {"u"}
    Interval = 3
    MaxCalls = 5
    MaxCrashes = 1
    MaxStops = 2
SPECIFICATION Spec
INVARIANTS
    RestartExact
    RecoveredIsPrefix
PROPERTIES
    CurrentKept
SYMMETRY Symmetry
CHECK_DEADLOCK FALSE
