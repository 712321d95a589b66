\* Two terminals, lines of up to two characters, Alt+Fn at any time.
CONSTANTS
    MaxTerminals = 2
    Displays = {1, 2}
    Buffers = {0, 1, 2}
    BootBuffer = 0
    TermBufSize = 3
    Chars = {"a", "b"}
    ReadSizes = {3}
    Frequencies = {0, 1, 2, 3, 4, 8, 16, 32, 64, 128, 256, 512, 1023, 1024, 2048}
    NumRows = 2
    NumCols = 2
    MaxSwitches = 1
    CallChars = {"a"}
SPECIFICATION MCSpec
INVARIANTS
    ConsoleTypeOK
    NothingBehindCursor
    LargeReadsSucceed
    RateIsAsked
    LineShown
PROPERTIES
    RefinesLines
    ReadsNewLine
    ReadsNewTick
    ReadAnswered
    TickAnswered
