SPECIFICATION MemSpec
CONSTANTS
    d1 = d1
    d2 = d2
    Device <- MCDevice
    NUM_PAGE_TABLES = 6
    RamPages = 4
    HW_DEVICES_MAX = 2
    RomLimit = 2
    SymbolsPage = 3
    SymbolsLimit = 4
    HostAllocMayFail = TRUE
INVARIANTS MemTypeOK RamAccounted MappingBacked
PROPERTY BackingIsStable
CHECK_DEADLOCK FALSE
