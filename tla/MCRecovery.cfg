SPECIFICATION RecoverySpec
CONSTANTS
    c1 = c1
    c2 = c2
    node1 = node1
    node2 = node2
    file = file
    dirA = dirA
    dirB = dirB
    list1 = list1
    list2 = list2
    Hash <- HashDef
    Kids <- KidsDef
    Lists <- ListsDef
    BlobOf <- BlobOfDef
    Roots = {list1, list2}
    Listing <- ListingDef
    NoHash = NoHash
    MaxRestarts = 3
INVARIANTS
    CountedIsThere
    WalkLeavesNothing
    RecoveredCountsExact
    RecoveredExactly
    GcSparesRecovered
PROPERTY
    RecoveryEnds
CHECK_DEADLOCK FALSE
