\* Violated: halt closes the parent's descriptors.
CONSTANTS
    MaxTerminals = 2
    ProcessLimit = 3
    MaxDepth = 1
    UserSwitches = FALSE
    EarlyCommands = FALSE
    FilePids = {0, 1, 2}
    MaxOpenFiles = 4
    Drivers = {"file"}
SPECIFICATION KSpec
PROPERTIES
    HaltKeepsParentsFiles
CHECK_DEADLOCK FALSE
