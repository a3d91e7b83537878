SPECIFICATION DequeSpec
CONSTANTS
    BlockSize <- MCBlockSize
    MapSize   <- MCMapSize
    PipeSize  <- MCPipeSize
    MaxConns  <- MCMaxConns
INVARIANT DequeInv
\* The system stops when no client connects any more, and at an overlap.
CHECK_DEADLOCK FALSE
