CONSTANTS
    a = a
    b = b
    s1 = s1
    s2 = s2
    Content = {a, b}
    Sizes <- MCSizes
    BLOB_OVERHEAD = 3
    U32_MAX = 3
    LongPaths <- MCLongPaths
    SnapshotId = {s1, s2}
    KeyPair <- MCKeyPair
    DAMAGE = 1
    Orders <- MCOrders
    BATCH_MAX_CHUNKS = 2
    BATCH_MAX_BYTES = 5
    CHANNEL = 1
    PLATFORM = "windows"
    Unsafe <- MCUnsafe
    Targets <- MCTargets
    Restorable = {s1}
SPECIFICATION Spec
CHECK_DEADLOCK FALSE
INVARIANTS
    TypeOK
    ListedIsReadable
    RestoredIsExact
    LedgerBalances
    FinalTickMatches
PROPERTIES
    RestoreEnds
    StreamTaskEnds
