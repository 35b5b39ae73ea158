SPECIFICATION FairSpec
CONSTANTS
    Warp <- MCWarp
    Lanes <- MCLanes
    Programs <- MCPrograms
    Window = 3
    Vector = 5
INVARIANTS
    NothingRefused
    DrainedExact
    FrontierExact
PROPERTIES
    ReceiptsEnd
