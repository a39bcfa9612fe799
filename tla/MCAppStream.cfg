CONSTANTS
    HeaderLen = 6
    CountAt = 6
    TailLen = 1
    MaxCount = 2
    Reserved = 64
    PointerBase = 192
    OutSize = 6
    MaxName = 5
    MaxDepth = 1
    Methods <- MCMethods
    StatusMark <- MCStatusMark
    VersionLen = 4
    StatusLen = 8
    HeaderNames <- MCHeaderNames
    TextSize = 6
    RandomLen = 1
    FixedLen = 3
    Cookie <- MCCookie
    CidMax = 3
    Traffic <- MCTraffic
    Begins <- MCBegins
    SegmentSizes <- MCSizes
    Windows = {8, 100}
    PreviewBytes = 5
SPECIFICATION StreamSpec
INVARIANTS
    ClassifiedAsSent
    VerdictFinal
    PacketAgreesWithStream
    CsvRowIntact
    TextIntact
