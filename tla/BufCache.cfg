CONSTANTS
    Proc = {p1, p2}
    NoProc = NoProc
    Block = {b1, b2, b3}
    Outer = {b1}
    NoBlock = NoBlock
    Nested <- MCNested
    Val = {v0, v1}
    Zero = v0
    NBUF = 2
    MaxPinned = 1
    MaxErrors = 1
    MaxWrites = 2
SPECIFICATION Spec
SYMMETRY Symmetry
INVARIANTS
    CacheInv
    NoStuckIo
PROPERTY ImplementsStore
