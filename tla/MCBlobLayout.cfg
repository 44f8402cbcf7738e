SPECIFICATION LayoutSpec
CONSTANTS
    MaxLen = 26
    ChunkLen = {1, 2, 4}
    HrefLen = {3, 5}
    Mac = 1
    Nonce = 1
    Access = 3
    Digest = 2
    Radix = 4
    MaxBlobs = 2
INVARIANTS
    BlobIsExact
    SlicesAreReadable
    RefsInStep
CHECK_DEADLOCK FALSE
