SPECIFICATION Spec
CONSTANTS
    Process = {serve, enroll_token}
    Generation = {g1, g2, g3, g4, g5}
    Overlap = FALSE
    None = None
SYMMETRY Symmetry
INVARIANTS
    CASurvives
    IdentityCoherent
