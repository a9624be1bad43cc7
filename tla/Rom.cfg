SPECIFICATION FairSpec
CONSTANTS
    kbd = kbd
    tape = tape
    clock = clock
    Device <- MCDevice
    Unlocked <- MCUnlocked
    Clock = clock
    RingSize = 4
    Burst = 1
PROPERTIES InterruptsHandedOut WfiReturns
