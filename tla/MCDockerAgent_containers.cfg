CONSTANTS
    r1 = r1
    p1 = p1
    s1 = s1
    d1 = d1
    x1 = x1
    Runners <- OneRunner
    Preparers <- None
    Stoppers <- None
    Removers <- OneRemover
    Destroyers <- OneDestroyer
    MatErrors <- OtherError
    DaemonFails = TRUE
    MaxRuns = 2
    MaxTokens = 0
    MaxRestarts = 1
SPECIFICATION Spec
INVARIANTS
    NoNameConflict
    RunningIsTracked
    DeletionIsEffective
CHECK_DEADLOCK FALSE
