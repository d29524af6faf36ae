\* Interleaved transactions and SSI edges: three xids, two rows, a savepoint.
CONSTANTS
    r1 = r1
    r2 = r2
    u1 = u1
    sp1 = sp1
    sp2 = sp2
    Keys = {r1, r2}
    UndoRecord = {u1}
    Names = {sp1}
    XIDEmergencyStop = 6
    XIDFreezeThreshold = 3
    MaxCommand = 1
    MaxUndo = 1
    MaxSavepoints = 1
SPECIFICATION Spec
SYMMETRY Symmetry
INVARIANTS
    TypeOK
    ActiveAreInProgress
    CurrentIsActive
    SsiOnlyActive
    SnapshotSound
PROPERTIES
    OneVerdict
    SnapshotStable
    CommitsAreSerial
