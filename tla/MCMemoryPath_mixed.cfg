SPECIFICATION FairSpec
CONSTANTS
    Traffics <- BlockedSet
    LocalBase = 16
    Banks = 4
    LocalDepth = 2
    Slots = 2
    PortDepth = 2
    LoadLatency = 3
PROPERTY PathDrains
