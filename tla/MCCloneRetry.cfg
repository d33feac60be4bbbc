CONSTANTS
    long = long
    r1 = r1
    NoKey = NoKey
    Tasks = {t1, t2}
    Keys <- OneKey
    Repos = {r1}
    RepoOf <- OneRepoOf
    MaxCalls = 1
SPECIFICATION Spec
INVARIANT SuccessMeansCloned
CHECK_DEADLOCK FALSE
