SPECIFICATION Spec
CONSTANTS
    Payload <- MCPayload
    Data <- MCData
    File <- MCFile
    MaxSend = 1
    MaxFd = 1
INVARIANT StopsWereSent
CHECK_DEADLOCK FALSE
