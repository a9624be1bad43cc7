SPECIFICATION Spec
CONSTANTS
    d1 = d1
    kbd = kbd
    tape = tape
    Device <- MCNoDevice
    NUM_PAGE_TABLES = 2
    RamPages = 2
    HW_DEVICES_MAX = 0
    RomLimit = 1
    SymbolsPage = 1
    SymbolsLimit = 1
    HostAllocMayFail = TRUE
    WordsPerPage = 8
    DataAddr = {7, 15}
    PcValue = {4}
    Breakable = {}
    Watchable = {7}
    MaxTransfer = 2
    Budget <- MCBudget
    Source = {}
    Locked = {}
    FiqLine = FALSE
    DebugPc = {}
INVARIANT NoAliasing
PROPERTY RomClosedToUser
CHECK_DEADLOCK FALSE
