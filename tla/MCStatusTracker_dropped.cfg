CONSTANTS
    w1 = w1
    o1 = o1
    Waiters <- MCWaiters
    Watchers <- MCNoWatchers
    ChanSize = 2
    Settable <- MCTwoSettable
    Reasons <- MCNoReasons
    Guard <- MCGuard
    Targets <- MCOneTarget
    MaxTransitions = 3
    MaxCancels = 1
SPECIFICATION FairSpec
PROPERTY
    TargetEndsWait
CHECK_DEADLOCK FALSE
