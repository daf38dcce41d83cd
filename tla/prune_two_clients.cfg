SPECIFICATION Spec
CONSTANTS
    Tiers <- MCTwoTiers
    SnapshotId = {0, 1}
    UlidTime <- MCUlidTime
    Handler = {h1, h2}
    Timer = timer
    Operator = operator
    AutoPrune = TRUE
    Skew = 0
    MaxTime = 1
    None = None
PROPERTIES
    AcknowledgedIsListed
