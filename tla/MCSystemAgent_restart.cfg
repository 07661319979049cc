CONSTANTS
    r1 = r1
    r2 = r2
    p1 = p1
    s1 = s1
    d1 = d1
    Runners <- OneRunner
    Preparers <- None
    Stoppers <- OneStopper
    Removers <- None
    MatErrors <- TwoErrors
    MaxRuns = 3
    MaxEdits = 2
    MaxTokens = 1
SPECIFICATION FairSpec
INVARIANTS
    SpawnsFresh
    StoppedHasNoProcess
PROPERTIES
    StopTerminates
    ImplementsLifecycle
CHECK_DEADLOCK FALSE
