SPECIFICATION FairSpec
CONSTANTS
    Streams <- MCStreams
    NumCached = 2
    NoBuffer = NoBuffer
    NoEvent = NoEvent
INVARIANTS Conserved InOrder EosIsEnd SlotsValid
PROPERTIES SeekReturns PlaysToTheEnd
CHECK_DEADLOCK FALSE
