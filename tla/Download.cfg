SPECIFICATION Spec
CONSTANTS
    Byte       <- MCByte
    File       <- MCFile
    BufSize    <- MCBufSize
    SockSize   <- MCSockSize
    SizeValues <- MCSizeValues
INVARIANTS
    TypeOK
    NothingSkipped
PROPERTIES
    ImplementsTransfer
    ReadErrorStops
    Ends
\* A transfer ends.
CHECK_DEADLOCK FALSE
