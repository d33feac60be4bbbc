CONSTANTS
    MaxLen = 4
    Chars = {"a", "b", "h", "l"}
    Streams <- MCStreams
    Searches <- MCSearches
    Windows = {0, 2}
    MaxRead = 3
    MaxChunk = 2
    NoCall = NoCall
    Closed = Closed
    MaxCalls = 2
SPECIFICATION FairSpec
INVARIANTS
    TypeOK
    BufferIsTheEnd
    EofIsLast
PROPERTIES
    NothingLost
    ImplementsText
    ExpectReturns
CHECK_DEADLOCK FALSE
