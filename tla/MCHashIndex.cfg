SPECIFICATION HashSpec
CONSTANTS
    leaf1 = leaf1
    leaf2 = leaf2
    node1 = node1
    node2 = node2
    Hash <- MCHash
    Childs <- MCChilds
    PRef = {p1}
    NoRef = NoRef
    MaxId = 5
INVARIANTS
    QueueMirrorsTable
    EachHashStoredOnce
    NoDanglingChilds
PROPERTY
    ImplementsDurableHashSet
