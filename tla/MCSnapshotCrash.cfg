SPECIFICATION FairSpec
CONSTANTS
    chunk = chunk
    file = file
    dir = dir
    r0 = r0
    rA = rA
    rB = rB
    NoHash = NoHash
    Hash <- HashDef
    Rank <- RankDef
    Tree <- TreeDef
    File <- FileDef
    Root <- RootDef
    EmptyRoot = r0
    Tops <- TopsDef
    MaxCommits = 2
    MaxRestarts = 2
INVARIANTS
    SnapshotsAreKept
    NoUndercount
    CountsAreExact
    FirstGcIsExact
    NothingUnfinished
    GcSparesPending
    PanicHasCause
PROPERTY
    ResumeEnds
CHECK_DEADLOCK FALSE
