SPECIFICATION Spec
CONSTANTS
    Tiers <- MCTiers
    Inputs <- MCInputs
    Instants <- MCInstants
CHECK_DEADLOCK FALSE
INVARIANTS
    TypeOK
    PlanKeepsSurvivors
    OneSurvivorPerCell
    Idempotent
