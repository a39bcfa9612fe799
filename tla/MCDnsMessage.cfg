CONSTANTS
    Octets = {0, 1, 2, 4, 64, 192}
    Buffers <- MCBuffers
    HeaderLen = 2
    CountAt = 1
    TailLen = 1
    MaxCount = 2
    Reserved = 64
    PointerBase = 192
    OutSize = 5
    MaxName = 3
    MaxDepth = 2
SPECIFICATION Spec
INVARIANTS
    StaysInside
    DecodesTheName
PROPERTY
    DecodingEnds
