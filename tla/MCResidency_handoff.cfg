SPECIFICATION Spec
CONSTANTS
    NumWarps = 3
    NumSlots = 2
    Depth = 2
    Launches <- MCHandoff
PROPERTY SpawnStaysInCta
