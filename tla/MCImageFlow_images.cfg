CONSTANTS
    b1 = b1
    b2 = b2
    c1 = c1
    c2 = c2
    l1 = l1
    d1 = d1
    Builders = {b1, b2}
    Calls = {c1, c2}
    Listers = {l1}
    Deployers = {d1}
    Earlier <- MCEarlier
    Scenarios <- AllScenarios
    Sources <- AllSources
    Aliases <- TwoAliases
    Deploys <- AllDeploys
    BinDigest <- MCBinDigest
    BinBlobs <- MCBinBlobs
    BadNames = {"../x"}
    ReservedEnvs = {"PATH"}
    MaxDepth = 2
    MaxTries = 1
SPECIFICATION FairSpec
INVARIANTS
    TagsAreComplete
    SuccessIsServed
    NearestWins
    InheritedContentKept
    OperatorWins
    BinsMatchPlatform
    ListingIsWindowed
PROPERTIES
    RemoveSparesNewer
    CallsReturn
CHECK_DEADLOCK FALSE
