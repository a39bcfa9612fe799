CONSTANTS
    Links = {"EN10MB", "RAW", "IPV4", "IPV6", "NULL", "LINUX_SLL", "LINUX_SLL2"}
    MaxCaptured = 100
    Frames <- MCFrames
    DecodeLimit = 4
SPECIFICATION Spec
INVARIANTS
    ReadsInside
    PayloadInDatagram
    TransportFound
