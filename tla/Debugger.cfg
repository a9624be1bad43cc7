SPECIFICATION FairSpec
CONSTANTS
    a1 = a1
    Addr <- MCAddr
    Watch = {"WRITE"}
    FrameSteps = 1
    MaxSessions = 1
    MaxPower = 1
    MinNum = 1
PROPERTY MachineRuns
INVARIANTS BreakpointsHeld QuietWhenOff SymbolsFresh
CHECK_DEADLOCK FALSE
