SPECIFICATION FairSpec
CONSTANTS
    main = main
    gdb = gdb
    Caller <- MCCaller
    Steps = {1, 2}
    StartedFirst = TRUE
INVARIANTS MachineTypeOK NoLostWakeup
PROPERTIES RequestsServed CallsReturn ParkedInterruptTaken
