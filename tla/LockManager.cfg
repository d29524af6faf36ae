\* Three callers, two targets, nested and reentrant handles, timeouts on,
\* holders that may never release.
SPECIFICATION FairSpec
CONSTANTS
    Xids = {x1, x2, x3}
    t1 = t1
    t2 = t2
    Targets = {t1, t2}
    Timed = TRUE
    MaxHandles = 2
INVARIANTS
    TypeOK
    MutualExclusion
    CountsAgree
    NoLostWakeup
PROPERTIES
    ImplementsLockTable
    AcquireReturns
