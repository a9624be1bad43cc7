SPECIFICATION Spec
CONSTANTS
    d1 = d1
    kbd = kbd
    tape = tape
    Device <- MCOneDevice
    NUM_PAGE_TABLES = 3
    RamPages = 2
    HW_DEVICES_MAX = 1
    RomLimit = 1
    SymbolsPage = 1
    SymbolsLimit = 1
    HostAllocMayFail = TRUE
    WordsPerPage = 8
    DataAddr = {9, 17}
    PcValue = {9, 17}
    Breakable = {9}
    Watchable = {}
    MaxTransfer = 1
    Budget <- MCBudget
    Source <- MCTape
    Locked = {}
    FiqLine = TRUE
    DebugPc = {9}
INVARIANTS TypeOK BankMatchesMode WaitIsWakeable
PROPERTY StopRefetches
CHECK_DEADLOCK FALSE
