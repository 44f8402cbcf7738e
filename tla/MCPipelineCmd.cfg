SPECIFICATION Spec
CONSTANTS
    leaf1 = leaf1
    leaf2 = leaf2
    node = node
    t1 = t1
    t2 = t2
    bs1 = bs1
    bs2 = bs2
    Hash <- MCHash
    Childs <- MCChilds
    PRef <- MCPRef
    NoRef = NoRef
    MaxId = 6
    Thread = {t1, t2}
    Stores <- OwnStores
    StoreOf <- OwnStoreOf
    EmptyHash = {leaf2}
    BlobCap = 1
    MaxBlob = 12
    MaxRestarts = 1
    Async = TRUE
    MaxConcurrent = 1
    Main = Main
INVARIANTS
    ReadyIsStored
    NoOrphanReservation
