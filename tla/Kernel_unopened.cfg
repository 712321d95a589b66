\* Violated: write follows the table of a slot that is not open.
CONSTANTS
    MaxTerminals = 2
    ProcessLimit = 3
    MaxDepth = 1
    UserSwitches = FALSE
    EarlyCommands = FALSE
    FilePids = {0, 1, 2}
    MaxOpenFiles = 4
    Drivers = {"file"}
SPECIFICATION KSpec
INVARIANTS
    UnopenedFails
CHECK_DEADLOCK FALSE
