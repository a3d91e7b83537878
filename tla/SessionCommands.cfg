SPECIFICATION Spec
CONSTANTS
    UserFiles <- MCUserFiles
    LineSize <- MCLineSize
    Sessions <- MCSessions
    Addresses <- MCAddresses
    Names <- MCNames
    Passwords <- MCPasswords
    Capacity <- MCCapacity
    MaxCommands <- MCMaxCommands
INVARIANTS
    Inv
    LoginByFile
    
\* Clients may stop, and a server that could not read its users has ended.
CHECK_DEADLOCK FALSE
