CONSTANTS
    Proc = {1, 2}
    Page = {1}
    PIPESIZE = 2
    UINT = 4
    Byte = {0, 1}
    ReadSizes = {3}
    WriteSizes = {3}
    NFILE = 2
    NOFILE = 2
SPECIFICATION FairSpec
CHECK_DEADLOCK FALSE
INVARIANTS
    FilesInv
    NoStuckEnd
PROPERTIES
    ImplementsFifo
    EofMeansNoWriter
    HangupNoticed
