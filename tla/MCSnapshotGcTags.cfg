SPECIFICATION Spec
CONSTANTS
    chunk = chunk
    file = file
    dir = dir
    r0 = r0
    rA = rA
    rB = rB
    NoHash = NoHash
    Hash <- HashDef
    Rank <- RankDef
    Tree <- TreeDef
    File <- FileDef
    Root <- RootDef
    EmptyRoot = r0
    Tops <- TopsDef
    MaxCommits = 2
    MaxRestarts = 0
INVARIANT GcEmptiesRepository
CHECK_DEADLOCK FALSE
