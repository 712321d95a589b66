\* The file system alone matters here; bounds as in MCServices_services.cfg.
CONSTANTS
    Letters = {"x"}
    MaxOpenFiles = 4
    Dentries <- MCDentries
    Inodes <- MCInodes
    BlockSize = 2
    Executables = {2}
    ReadSizes = {1, 3}
    Leftovers = {0, 1}
    MaxLine = 5
    Terminals = {1, 2}
    FirstShown = 1
    NumRows = 2
    NumCols = 2
    Chars = {"a"}
    MaxText = 2
    Devices = {0, 1, 8, 14}
    Shells = 2
    BiosMasks <- MCBiosMasks
    Pids = {0, 1, 2}
    UserWords = 2
    TextBytes = {"a", "b", "NL"}
    LastBytes = {"b", "NUL"}
    MaxFile = 5
    BufSize = 3
    Search <- MCSearch
    HighBit = 128
    HexDigits = 2
    PrintfWords = {0, 9, 10, 128, 255}
    Memory <- MCMemory
    MaxFormat = 2
SPECIFICATION SvSpec
INVARIANTS
    NothingBeyondTheEnd
