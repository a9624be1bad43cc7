SPECIFICATION Spec
CONSTANTS
    d1 = d1
    kbd = kbd
    tape = tape
    Device <- MCNoDevice
    NUM_PAGE_TABLES = 2
    RamPages = 2
    HW_DEVICES_MAX = 0
    RomLimit = 1
    SymbolsPage = 1
    SymbolsLimit = 1
    HostAllocMayFail = FALSE
    WordsPerPage = 8
    DataAddr = {9}
    PcValue = {9}
    Breakable = {}
    Watchable = {}
    MaxTransfer = 1
    Budget <- MCBudget
    Source <- MCSources
    Locked <- MCLocked
    FiqLine = FALSE
    DebugPc = {}
INVARIANT InterruptDataIntact
CHECK_DEADLOCK FALSE
