CONSTANTS
    w1 = w1
    o1 = o1
    Waiters <- MCWaiters
    Watchers <- MCWatchers
    ChanSize = 2
    Settable <- MCSettable
    Reasons <- MCReasons
    Guard <- MCGuard
    Targets <- MCTargets
    MaxTransitions = 4
    MaxCancels = 2
SPECIFICATION FairSpec
INVARIANTS
    TypeOK
    NoChannelPanic
    DrainsToCurrent
    NoLostWakeup
    ReturnsReachedTarget
PROPERTY
    WaitEnds
CHECK_DEADLOCK FALSE
