CONSTANTS
    PipeCap = 2
    MaxLines = 5
    MaxCancels = 2
SPECIFICATION FairSpec
INVARIANTS
    TypeOK
    NothingLostInPairing
    StopsShortAtBlank
    NoOrphan
PROPERTY EndsOrStuck
CHECK_DEADLOCK FALSE
