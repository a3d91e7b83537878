SPECIFICATION StreamSpec
CONSTANTS
    Lines <- MCLines
    Commands <- MCCommands
    DataCommands <- MCDataCommands
    BufSize <- MCBufSize
    MaxLines <- MCMaxLines
INVARIANTS
    StreamInv
    WaitingClientServed
PROPERTY WaitEnds
\* The client may stop.
CHECK_DEADLOCK FALSE
