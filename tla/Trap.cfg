CONSTANTS
    Proc = {p1, p2}
    INPUT_BUF = 2
    UINT = 6
    Keys = {"x", "nl", "bs", "ku", "dump"}
    Counts = {1, 2}
    Sleeps = {2}
    Late = 3
SPECIFICATION FairSpec
INVARIANT ConsoleInv
PROPERTIES
    ImplementsTty
    SleptEnough
    SleepEnds
    KilledExits
