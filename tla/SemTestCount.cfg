CONSTANTS
    Proc = {p1, p2}
    Count = {1}
    InitValue = {1}
    HALF = 8
    TargetCount = 1
SPECIFICATION TestSpec
INVARIANT FinalCount
CHECK_DEADLOCK FALSE
