CONSTANTS
    Proc = {p1, p2}
    CacheSizes = {2, 3}
    NBLOCKS = 5
    NDIRECT = 1
    NINDIRECT = 2
    NFILE = 2
    Name = {"a", "b"}
    Path <- MCPath
    Links <- MCLinks
    CHUNK = 2
    Sizes = {3}
    SysCalls = {"open_rd", "open_rw", "create", "mkdir", "mknod", "unlink", "link", "chdir", "read", "write", "close", "exit", "fork"}
    MaxCalls = 2
SPECIFICATION Spec
SYMMETRY Symmetry
CHECK_DEADLOCK FALSE
INVARIANTS
    IcacheInv
    TreeSound
    BlocksOwned
    NoPanic
    OnlyIputDeadlocks
