SPECIFICATION Spec
CONSTANTS
    FileLen  <- MCFileLen
    BufSize  <- MCBufSize
    SockSize <- MCSockSize
INVARIANT
    CompleteDespiteBlocking
CHECK_DEADLOCK FALSE
