SPECIFICATION ListSpec
CONSTANTS
    Byte     <- MCByte
    Zero     <- MCZero
    Entries  <- MCEntries
    SockSize <- MCSockSize
INVARIANTS
    ListTypeOK
PROPERTIES
    ImplementsTransfer
    Ends
\* A transfer ends.
CHECK_DEADLOCK FALSE
