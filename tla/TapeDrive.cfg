SPECIFICATION FairSpec
CONSTANTS
    NumBytes = 2
    CacheBytes = 1
    Button <- MCButtons
PROPERTIES BytesDelivered ByteArrives
CHECK_DEADLOCK FALSE
