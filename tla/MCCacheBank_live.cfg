SPECIFICATION FairSpec
CONSTANTS
    MshrSize = 2
    Lines = {0, 1}
    Sets = 1
    Ways = 2
    RspSize = 2
    MemSize = 4
    Latency = 2
    Bank = 1
    Writeback = TRUE
    FillErrs = {FALSE}
    MaxReq = 3
    MaxFlush = 1
INVARIANTS
    FlushClean
PROPERTIES
    EverythingEnds
