SPECIFICATION Spec
CONSTANTS
    Tiers <- MCTwoTiers
    SnapshotId = {0, 1, 2, 4}
    UlidTime <- MCUlidTime
    Handler = {h1}
    Timer = timer
    Operator = operator
    AutoPrune = TRUE
    Skew = 1
    MaxTime = 4
    None = None
INVARIANTS
    TypeOK
    NewestSurvives
    HistoryCovered
    PruneThinned
