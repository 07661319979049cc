CONSTANTS
    r1 = r1
    r2 = r2
    p1 = p1
    s1 = s1
    d1 = d1
    Runners <- TwoRunners
    Preparers <- OnePreparer
    Stoppers <- None
    Removers <- OneRemover
    MatErrors <- OtherError
    MaxRuns = 2
    MaxEdits = 0
    MaxTokens = 0
SPECIFICATION Spec
INVARIANTS
    TypeOK
    ProcessIsCurrent
    StopIsEffective
PROPERTIES
    NeverFlipsToStopped
    PublishedOnce
    ImplementsSafety
SYMMETRY RunnerSymmetry
CHECK_DEADLOCK FALSE
