SPECIFICATION FairSpec
CONSTANTS
    NumLanes = 4
    NumWarps = 4
    LocalSize = 16
    LocalBlock = 2
    MaxEvents = 2
    MaxBlocks = 1
    Inputs <- MCInputs
INVARIANTS
    NoFault
    TablesAgree
    ComputesRight
PROPERTIES
    StoreAllOrNothing
    FunctionalGrid
    RunCompletes
