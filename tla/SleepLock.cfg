CONSTANTS
    Proc = {p1, p2, p3}
    NoProc = NoProc
    NCPU = 2
SPECIFICATION FairSpec
INVARIANTS
    MutualExclusion
    NoLostWakeup
PROPERTIES
    ImplementsLock
    Progress
