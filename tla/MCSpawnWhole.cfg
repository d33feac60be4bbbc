CONSTANTS
    PipeCap = 2
    MaxLines = 4
    MaxCancels = 0
SPECIFICATION Spec
INVARIANT WholeOutput
CHECK_DEADLOCK FALSE
