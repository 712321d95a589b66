\* The real numbers of terminals and pids; the user stays on one terminal.
CONSTANTS
    MaxTerminals = 3
    ProcessLimit = 7
    MaxDepth = 3
    UserSwitches = FALSE
    EarlyCommands = FALSE
SPECIFICATION Spec
INVARIANTS
    TypeOK
    RunningIsNewest
    FramesIntact
PROPERTIES
    OnlyRunningDies
    HaltResumesParent
    BootCompletes
CHECK_DEADLOCK TRUE
