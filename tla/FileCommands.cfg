SPECIFICATION Spec
CONSTANTS
    Names    <- MCNames
    Special  <- MCSpecial
    Nodes    <- MCNodes
    Root     <- MCRoot
    MaxLinks <- MCMaxLinks
    Sessions <- MCSessions
    Trees    <- MCTrees
    Outcomes <- MCOutcomes
    Home     <- MCHome
    ProcDir  <- MCProcDir
    Args     <- MCArgs
    MaxCmds  <- MCMaxCmds
    Refused  <- MCRefused
INVARIANTS
    Inv
PROPERTIES
    LossExplained
    RemovalWhole
    HandlersReturn
