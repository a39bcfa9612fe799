CONSTANTS
    Off = Off
    Rejected = Rejected
    Canonical <- MCCanonical
    CommandLines <- MCCommandLines
    IntMax = 2147483647
    SizeMax = 2147483647
    MAX_FLOWS = 1024
    MAX_STREAM_BUFFER_BYTES = 1048576
    MAX_TOTAL_REASSEMBLY_BYTES = 134217728
    DEFAULT_MAX_FLOWS = 512
    DEFAULT_STREAM_BUFFER_BYTES = 32768
    Datagrams <- MCWithExtension
    MaxDeliveries = 4
SPECIFICATION Spec
INVARIANTS
    CaptureConfigSound
    ReadAsWritten
    TransparentWithoutPort
