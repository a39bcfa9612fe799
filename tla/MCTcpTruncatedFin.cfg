CONSTANTS
    HalfMod = 8
    ISN = 13
    StreamLen = 5
    Segments <- MCTruncatedSegments
    BufferBytes = 4
    MaxPending = 2
    MaxDeliveries = 3
SPECIFICATION CallSpec
INVARIANT StreamContiguous
