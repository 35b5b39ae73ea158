SPECIFICATION FairSpec
CONSTANTS
    Clients = 2
    Sectors = 2
    BadSectors = {1}
    Kind <- MCKind
    Budget <- MCBudget
    MaxTx = 3
    Latency = 2
    AcceptsPerCycle = 1
    MaxInflight = 3
    ReturnsPerCycle = 2
    Banks = 2
PROPERTIES ImplementsMemory RepliesHonest ServiceOrder EverythingAnswered
