CONSTANTS
    short = short
    long = long
    r1 = r1
    depA = depA
    depA2 = depA2
    depB = depB
    depC = depC
    NoKey = NoKey
    Nobody = Nobody
    NoObject = NoObject
    Tasks = {t1, t2, t3}
    Keys <- TwoKeys
    Repos = {r1}
    RepoOf <- TwoRepoOf
    Objects <- Deps
    OriginOf <- DepOrigin
    KeyOf <- DepKey
    MaxCalls = 3
    MaxUses = 3
SPECIFICATION LazyFairSpec
INVARIANTS
    TypeOK
    OneGitPerRepo
    DriverAndGenerator
    FalseSuccessHasCause
    LazyTypeOK
    BodyRunsCloned
    OneInitPerCondition
    HeldForCause
PROPERTIES
    FullStaysFull
    CallsEnd
    NoSecondInit
    WrappedCallsEnd
CHECK_DEADLOCK FALSE
