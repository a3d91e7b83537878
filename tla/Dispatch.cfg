SPECIFICATION Spec
CONSTANTS
    NumWorkers <- MCNumWorkers
    MaxConns   <- MCMaxConns
    PipeSize   <- MCPipeSize
INVARIANTS
    TypeOK
    NotifyAccounting
    ReadyWhenOpened
    OneHolder
PROPERTIES
    ImplementsHandoff
    EventuallySettled
\* The system stops when no client connects any more.
CHECK_DEADLOCK FALSE
