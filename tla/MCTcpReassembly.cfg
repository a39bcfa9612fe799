CONSTANTS
    HalfMod = 8
    ISN = 13
    StreamLen = 5
    Segments <- MCSegments
    BufferBytes = 4
    MaxPending = 2
    MaxDeliveries = 5
SPECIFICATION CallSpec
INVARIANTS
    TypeOK
    StreamContiguous
    PendingBeyondGap
    StreamIsLongestRun
    PendingAccounting
PROPERTIES
    ReaderSpec
    CallsMatchInterface
    FlushTerminates
