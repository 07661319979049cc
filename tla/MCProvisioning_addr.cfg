CONSTANTS
    a1 = a1
    t1 = t1
    t2 = t2
    b1 = b1
    None = None
    Ids <- OneId
    Threads <- OneThread
    Makes <- MCMakes
    Bins <- OneBin
    BaseMounts <- MCBase
    SpecMounts <- MCSpec
    MaxFaults = 0
    MaxCrashes = 1
    MaxAddrs = 2
SPECIFICATION Spec
INVARIANT
    ServesAtAddr
CHECK_DEADLOCK FALSE
