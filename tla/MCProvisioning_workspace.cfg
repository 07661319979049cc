CONSTANTS
    a1 = a1
    t1 = t1
    t2 = t2
    b1 = b1
    None = None
    Ids <- OneId
    Threads <- TwoThreads
    Makes <- MCMakes
    Bins <- OneBin
    BaseMounts <- MCBase
    SpecMounts <- MCSpec
    MaxFaults = 1
    MaxCrashes = 1
    MaxAddrs = 2
SPECIFICATION FairSpec
INVARIANTS
    PreparedIsComplete
    
PROPERTY
    RetryUnsticks
CHECK_DEADLOCK FALSE
