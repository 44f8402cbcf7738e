SPECIFICATION KeySpec
CONSTANTS
    Top = Top
    d = d
    f = f
    g = g
    h1 = h1
    h2 = h2
    None = None
    NoData = NoData
    Link = Link
    Path <- PathDef
    Parent <- ParentDef
    Versions <- VersionsDef
    Hash = {h1, h2}
    EmptyHash = h2
    Unreadable = {}
    KeyStores = 1
    MaxChanges = 2
    MaxRestarts = 2
INVARIANTS
    ScanIsExact
    ListedHashIsKnown
    ReferentialIntegrity
    ScanNeverStuck
PROPERTY
    OtherPathsStay
CHECK_DEADLOCK FALSE
