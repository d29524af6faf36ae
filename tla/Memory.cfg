\* Engines opened and closed around scopes, with chunks of one bucket, of two, and external.
CONSTANTS
    Top = Top
    ErrorCtx = ErrorCtx
    NoCtx = NoCtx
    Engines = {e1, e2}
    Scratch = {s1}
    Sizes = {400, 900, 9000}
    BumpSizes = {400}
    MaxAllocs = 3
    MaxScopes = 2
SPECIFICATION Spec
INVARIANTS
    LiveDisjoint
    ChunksHeld
    TreeAgrees
    BlocksOwned
    ReallocKeeps
    CurrentAlive
PROPERTIES
    DanglesByReset
SYMMETRY Symmetry
