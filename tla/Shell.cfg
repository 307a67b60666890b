CONSTANTS
    NPROC = 8
    NOFILE = 8
    MAXARGS = 3
    LSH_TOK_BUFSIZE = 3
    Trees <- MCTrees
    Started <- MCStarted
    MaxFails = 2
SPECIFICATION FairSpec
CHECK_DEADLOCK FALSE
INVARIANTS
    ParsedRight
    ProgramFds
    PromptLast
PROPERTY ShellReturns
