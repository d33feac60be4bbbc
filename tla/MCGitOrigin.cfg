CONSTANTS
    Mine = {m1}
    Theirs = {o1}
    Old = old
    Kept = kept
    Junk = junk
    MaxPushes = 1
    MaxTimeouts = 0
SPECIFICATION Spec
INVARIANT RemoteKeepsWork
CHECK_DEADLOCK FALSE
