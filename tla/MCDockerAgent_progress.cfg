CONSTANTS
    r1 = r1
    p1 = p1
    s1 = s1
    d1 = d1
    x1 = x1
    Runners <- OneRunner
    Preparers <- OnePreparer
    Stoppers <- OneStopper
    Removers <- None
    Destroyers <- None
    MatErrors <- None
    DaemonFails = FALSE
    MaxRuns = 2
    MaxTokens = 1
    MaxRestarts = 0
SPECIFICATION FairSpec
INVARIANT
    FreshToken
PROPERTY
    CancellationEnds
CHECK_DEADLOCK FALSE
