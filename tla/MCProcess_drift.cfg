\* Violated: halt leaves tss.esp0 where the command was executed.
CONSTANTS
    MaxTerminals = 2
    ProcessLimit = 4
    MaxDepth = 2
    UserSwitches = FALSE
    EarlyCommands = FALSE
SPECIFICATION Spec
PROPERTIES
    HaltSetsEsp0ToBase
