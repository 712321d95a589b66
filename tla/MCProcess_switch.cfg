\* Alt+Fn at any time. The machine may stop: control may be lost (Lost).
CONSTANTS
    MaxTerminals = 2
    ProcessLimit = 4
    MaxDepth = 2
    UserSwitches = TRUE
    EarlyCommands = FALSE
SPECIFICATION Spec
INVARIANTS
    PidsAccountedFor
    MappedIsNewest
PROPERTIES
    RefinesSessions
CHECK_DEADLOCK FALSE
