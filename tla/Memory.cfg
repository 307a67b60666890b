CONSTANTS
    NPROC = 3
    NFRAMES = 13
    PGSIZE = 2
    NPTENTRIES = 2
    KERNBASE = 12
    UINT = 24
    Incs <- MCIncs
    Programs <- MCPrograms
    Args = {1, 3, 6}
    WORD = 2
    Ptrs = {0, 3, 9, 23}
    MaxCalls = 3
SPECIFICATION Spec
CHECK_DEADLOCK FALSE
INVARIANTS
    FramesOwned
    ImageInv
    ArgsMapped
PROPERTY ChildCopies
