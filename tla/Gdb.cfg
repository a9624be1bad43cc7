SPECIFICATION Spec
CONSTANTS
    Payload <- MCPayload
    Data <- MCData
    File <- MCFile
    MaxSend = 2
    MaxFd = 1
INVARIANTS OnlyWhatWasSent WholePacketsHandled RepliesReadable SurvivesCutting
CHECK_DEADLOCK FALSE
