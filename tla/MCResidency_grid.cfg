SPECIFICATION FairSpec
CONSTANTS
    NumWarps = 4
    NumSlots = 4
    Depth = 2
    Launches <- MCGrid
INVARIANTS NoFault BindingsHold HardwareDoneFinal
PROPERTIES ImplementsGrid LaunchCompletes
