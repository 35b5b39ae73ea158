SPECIFICATION Spec
CONSTANTS
    MshrSize = 2
    Lines = {0, 2}
    Sets = 2
    Ways = 1
    RspSize = 2
    MemSize = 4
    Latency = 2
    Bank = 1
    Writeback = TRUE
    FillErrs = {TRUE, FALSE}
    MaxReq = 4
    MaxFlush = 0
INVARIANTS
    NoFault
    ReservedExact
    Conservation
    StoresSurvive
    ProgramOrder
