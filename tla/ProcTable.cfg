CONSTANTS
    NPROC = 3
    MaxPid = 5
    Victims = {0, 2, 3}
    Threads = TRUE
SPECIFICATION FairSpec
INVARIANTS
    TableInv
    NoMissedExit
    SpacesOwned
PROPERTY OrphansReaped
