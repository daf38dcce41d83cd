CONSTANTS
    MAX_KEY_BACKUPS = 3
    Passphrases <- MCPassphrases
    Foreign <- MCForeign
    Paths = {1, 2}
    MAX_ENROLMENTS = 3
SPECIFICATION Spec
CHECK_DEADLOCK FALSE
INVARIANTS
    SuccessIsWhole
PROPERTIES
    NothingDestroyed
