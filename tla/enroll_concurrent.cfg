SPECIFICATION Spec
CONSTANTS
    Token = {t1, t2, t3}
    Name = {a}
    Fingerprint = {f1, f2, f3}
    Handler = {h1, h2}
    Torn = Torn
    None = None
SYMMETRY Symmetry
INVARIANTS
    TypeOK
    PublishedIsWhole
    EachClientSpentItsToken
    RevokedStaysRevoked
PROPERTIES
    NoServiceAfterRevocation
