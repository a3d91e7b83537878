SPECIFICATION Spec
CONSTANTS
    FileLen  <- MCFileLen
    BufSize  <- MCBufSize
    SockSize <- MCSockSize
INVARIANTS
    Inv
    WholeUnlessCut
PROPERTIES
    EndsWithClient
\* A transfer ends.
CHECK_DEADLOCK FALSE
