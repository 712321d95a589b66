\* Violated: after Alt+Fn halt ends a process that is not running.
CONSTANTS
    MaxTerminals = 2
    ProcessLimit = 4
    MaxDepth = 2
    UserSwitches = TRUE
    EarlyCommands = FALSE
SPECIFICATION Spec
PROPERTIES
    OnlyRunningDies
CHECK_DEADLOCK FALSE
