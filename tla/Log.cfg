CONSTANTS
    Block = {b1, b2, b3, b4}
    Few = {b1, b2}
    Val = {v0, v1}
    Op = {o1, o2, o3}
    Writer = o1
    Other = o2
    Large = {b1, b2, b3}
    Small = {b3}
    Least = {b4}
    Zero = v0
    None = None
    LOGSIZE = 4
    NLOG = 4
    MAXOPBLOCKS = 2
    OpBlocks = 3
SPECIFICATION MCSpec
INVARIANTS
    LogInv
    NoMissedLogSpace
PROPERTIES
    CrashAtomic
    SleepersWoken
