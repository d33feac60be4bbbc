CONSTANTS
    x = x
    exe = exe
    dir = dir
    repo = repo
    Pkgs <- PlainPkgs
    Local = {dir}
    Git = {}
    Letters <- PlainLetters
    InitReqs <- PlainReqs
    InitProject = {x}
    MaxTasks = 2
    MaxCmds = 1
    MaxCrashes = 0
SPECIFICATION Spec
INVARIANT UninstallUpdatesRequirements
CHECK_DEADLOCK FALSE
