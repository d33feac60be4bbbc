SPECIFICATION Spec
CONSTANTS
    Runs = {r1, r2}
    Calls = {c1, c2}
    SyncKeys = {plain}
    AsyncKeys = {coroutine}
    TextTTL = {r1}
    MaxComputed = 2
SYMMETRY Symmetry
INVARIANTS TypeOK AnswersOfThisRun OneAnswer SyncRaisesHaveCause ClearHolds
PROPERTIES FailedStartRepairs
CHECK_DEADLOCK FALSE
