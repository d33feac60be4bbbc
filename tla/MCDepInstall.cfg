CONSTANTS
    x = x
    exe = exe
    dir = dir
    repo = repo
    Pkgs <- MCPkgs
    Local = {exe}
    Git = {repo}
    Letters <- MCLetters
    InitReqs <- MCReqs
    InitProject <- MCProject
    MaxTasks = 2
    MaxCmds = 3
    MaxCrashes = 1
SPECIFICATION FairSpec
INVARIANTS
    TypeOK
    FalseListingHasCause
    LossHasCause
PROPERTIES
    ImplementsLedger
    CommandEnds
CHECK_DEADLOCK FALSE
