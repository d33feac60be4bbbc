CONSTANTS
    MaxLen = 2
    Chars = {"a", "b", "h", "l"}
    Streams <- TornStreams
    Searches <- TornSearches
    Windows = {0}
    MaxRead = 3
    MaxChunk = 2
    NoCall = NoCall
    Closed = Closed
    MaxCalls = 1
SPECIFICATION Spec
INVARIANT BeforeIsAllReceived
CHECK_DEADLOCK FALSE
