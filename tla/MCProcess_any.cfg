\* Alt+Fn and commands at any time, during the boot too. Control may be lost.
CONSTANTS
    MaxTerminals = 2
    ProcessLimit = 4
    MaxDepth = 2
    UserSwitches = TRUE
    EarlyCommands = TRUE
SPECIFICATION Spec
INVARIANTS
    HaltHasFrame
PROPERTIES
    BootsOnce
CHECK_DEADLOCK FALSE
