\* Violated: keys change the line of a terminal that is not on display.
CONSTANTS
    MaxTerminals = 2
    Displays = {1, 2}
    Buffers = {0, 1, 2}
    BootBuffer = 0
    TermBufSize = 2
    Chars = {"a"}
    ReadSizes = {2}
    Frequencies = {}
    NumRows = 2
    NumCols = 2
    MaxSwitches = 1
    CallChars = {"a"}
SPECIFICATION MCSpec
PROPERTIES
    HiddenLinesStay
