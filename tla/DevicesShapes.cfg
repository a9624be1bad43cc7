SPECIFICATION Spec
CONSTANTS
    Key = {1, 10, 13}
    MaskBytes = 4
    RingSize = 4
    MaxKeys = 3
    Width = 4
    Height = 2
    NumGlyphs = 4
    Petscii <- MCPetscii
    Byte = {1, 3}
    Word <- MCWord
    MaxWrites = 2
    BufferSize = 2
    Position = {1, 2}
    Colour = {7}
    MaxShapes = 3
    Emulator = {e1, e2, e3}
    GridNum = 2
    Mine = e1
    Tape <- MCTape
    OsSymbols <- MCOsSymbols
    TapeAddr = 258
    SYMBOLS_ADDR = 300
    MAX_SYMBOLS_SIZE = 30
    MemoryEnd = 350
    TAPE_NAME_LEN = 4
    MAX_TAPE_REGIONS = 1
    MaxLoads = 2
    Group = {"shapes"}
INVARIANT DeletedShapesInert
CHECK_DEADLOCK FALSE
