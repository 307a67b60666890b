CONSTANTS
    Proc = {p1, p2, p3}
    Count <- MCCount
    InitValue = {0, 1}
    HALF = 2
SPECIFICATION FairSpec
INVARIANT SemInv
PROPERTY WaiterServed
