SPECIFICATION VfsSpec
CONSTANTS
    famA = famA
    famB = famB
    tree = tree
    sub = sub
    none = none
    big = big
    empty = empty
    link = link
    d1 = d1
    d2 = d2
    Snapshots <- SnapshotsDef
    HiddenFamily = HiddenFamily
    NoRef = NoRef
    Listing <- ListingDef
    Chunks <- ChunksDef
    Desc = {d1, d2}
    ReadSize = {2, 4}
    Rewind = FALSE
    ReplySize = 2
SYMMETRY DescSymmetry
INVARIANTS
    OffsetAssertion
CHECK_DEADLOCK FALSE
