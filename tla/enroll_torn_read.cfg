SPECIFICATION Spec
CONSTANTS
    Token = {t1, t2}
    Name = {a}
    Fingerprint = {f1, f2}
    Handler = {h1, h2}
    Torn = Torn
    None = None
INVARIANTS
    NoTornRead
