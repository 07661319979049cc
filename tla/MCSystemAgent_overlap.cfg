CONSTANTS
    r1 = r1
    r2 = r2
    p1 = p1
    s1 = s1
    d1 = d1
    Runners <- TwoRunners
    Preparers <- None
    Stoppers <- OneStopper
    Removers <- None
    MatErrors <- PullError
    MaxRuns = 2
    MaxEdits = 0
    MaxTokens = 0
SPECIFICATION Spec
INVARIANT
    StoppedHasNoProcess
CHECK_DEADLOCK FALSE
