SPECIFICATION Spec
CONSTANTS
    NSessions <- MCNSessions
    NWorkers <- MCNWorkers
    Limit <- MCLimit
    MaxCommands <- MCMaxCommands
INVARIANTS
    Inv
    HarmIsDoubleClose
\* Clients may stop, and the process is not followed past an abort or harm.
CHECK_DEADLOCK FALSE
