SPECIFICATION FairSpec
CONSTANTS
    Traffics <- PassSet
    LocalBase = 16
    Banks = 4
    LocalDepth = 2
    Slots = 2
    PortDepth = 2
    LoadLatency = 0
INVARIANTS PathNoFault LanesExact OwnOrder
PROPERTY PathDrains
