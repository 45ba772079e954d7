SPECIFICATION StandaloneSpec
CONSTANTS
    Checkouts = {c1, c2, c3}
    InitialStock = 3
    MaxResets = 2
    Keys = {k1, k2}
    NoKey = NoKey
    Hashes = {h1}
    NoSnapshot = NoSnapshot
    MaxRecords = 3
    Readers = {a, b}
    CatalogSize = 2
    NoList = NoList
    ItemHeight = 9
    ContainerHeight = 60
    MaxItems = 12
INVARIANTS
    SafeOrdersAddUp
    NothingVanishes
    KeysMatchLedger
    ChargedOnce
    RowsInViewAreRendered
PROPERTIES
    OldListsEnd
CHECK_DEADLOCK FALSE
