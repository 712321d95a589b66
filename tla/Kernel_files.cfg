\* Two slots, one kind of file. The kernel may stop: see stuck.
CONSTANTS
    MaxTerminals = 2
    ProcessLimit = 3
    MaxDepth = 2
    UserSwitches = TRUE
    EarlyCommands = FALSE
    FilePids = {0, 1, 2}
    MaxOpenFiles = 4
    Drivers = {"file"}
SPECIFICATION KSpec
INVARIANTS
    KTypeOK
    ActiveHasDriver
    FreePidsHoldNoFiles
CHECK_DEADLOCK FALSE
