CONSTANTS
    ConfigKeys <- MCConfigKeys
    Rewritten <- MCRewritten
    Descriptors <- AllDescriptors
    MaxOut = 2
    MaxStdin = 2
    PipeCap = 1
    MaxFaults = 1
    None = None
SPECIFICATION FairSpec
INVARIANTS
    ResultIsTruthful
    LeavesNothing
    OrphansAreDetached
    JobEnvIsExpected
    JobSeesAgentView
PROPERTIES
    ExecReturns
    StdinDrains
CHECK_DEADLOCK FALSE
