SPECIFICATION FairSpec
CONSTANTS
    t1 = t1
    t2 = t2
    Thread <- MCThread
    Modes <- MCModes
    MaxLaunch = 2
    MaxUpload = 1
INVARIANTS
    OwnershipSafe
    HostSeesLaunch
PROPERTIES
    ErrorsKept
    OwnershipEnds
