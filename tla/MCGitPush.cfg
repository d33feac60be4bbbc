CONSTANTS
    Mine = {m1, m2}
    Theirs = {o1, o2}
    Old = old
    Kept = kept
    Junk = junk
    MaxPushes = 2
    MaxTimeouts = 1
SPECIFICATION Spec
INVARIANTS
    TypeOK
    WorkLossHasCause
    RecoveryReturns
    PushedWorkArrives
PROPERTY RemoteLossHasCause
CHECK_DEADLOCK FALSE
