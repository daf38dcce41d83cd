CONSTANTS
    DEPTH = 1
    Content <- MCContent
    Sizes <- MCSizes
    BLOB_OVERHEAD = 40
    U32_MAX = 100
    LongPaths = {}
    HEADER_BYTES = 28
    FILE_FIXED_BYTES = 32
    ID_LEN = 32
    WIRE_SIZE = 48
    RETENTION_TIERS <- MCTiers
    Extensions <- MCExtensions
    Commands <- MCCommands
    BLOCK = 100
    KIB = 2
    USIZE_MAX = 1000
    Limits <- MCLimits
    HORIZON = 320
SPECIFICATION Spec
CHECK_DEADLOCK FALSE
INVARIANTS
    FanOutIsWhole
    ReportAddsUp
    RecommendationHolds
PROPERTIES
    BenchEnds
