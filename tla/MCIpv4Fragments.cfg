CONSTANTS
    Traffics <- MCTraffics
    Unit = 2
    MaxTotal = 8
    MaxDatagrams = 2
    MaxBytes = 6
    MaxRanges = 2
    Timeout = 2
    MallocMayFail = TRUE
    MaxFragments = 7
SPECIFICATION Spec
INVARIANTS
    BytesAccounted
    RangesDescribeData
    RebuiltFromFragments
    RebuiltIsSent
