SPECIFICATION FairSpec
CONSTANTS
    leaf1 = leaf1
    leaf2 = leaf2
    node = node
    t1 = t1
    t2 = t2
    bs1 = bs1
    bs2 = bs2
    Hash <- MCHash
    Childs <- MCChilds
    PRef <- MCPRef
    NoRef = NoRef
    MaxId = 6
    Thread = {t1, t2}
    Stores <- SharedStores
    StoreOf <- SharedStoreOf
    EmptyHash = {}
    BlobCap = 1
    MaxBlob = 10
    MaxRestarts = 1
    Async = FALSE
    MaxConcurrent = 1
    Main = Main
INVARIANTS
    ReadyIsStored
    CallbackFindsEntry
    FlushLeavesNothing
PROPERTIES
    ImplementsHashIndex
    PiggybackReturns
    StoreReturns
