SPECIFICATION Spec
CONSTANTS
    MaxCmds <- MCMaxCmds
    FdLimit <- MCFdLimit
    MaxPops <- MCMaxPops
INVARIANTS
    Inv
    OwnConnection
PROPERTIES
    EndsOnce
    WaitersMeet
\* The client may stop, and undefined behaviour is not followed further.
CHECK_DEADLOCK FALSE
