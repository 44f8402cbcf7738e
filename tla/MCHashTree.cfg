SPECIFICATION TreeSpec
CONSTANTS
    EmptyBlock = EmptyBlock
    NoBlock = NoBlock
    Block = {a, b}
    Order = {2, 3}
    MaxBlocks = 11
    MaxHash = 2
SYMMETRY BlockSymmetry
INVARIANTS
    ReadsBackWhatWasWritten
    ChildrenPrecedeParents
    VisitorMeetsEveryNode
    WalkFindsNoCycle
CHECK_DEADLOCK FALSE
