SPECIFICATION Spec
CONSTANTS
    User = {u1, u2}
    Family = {f1, f2}
    Token = {t1, t2, t3}
    Request = {p1, p2}
    Ttl = 1
    MaxClock = 1
    None = None
SYMMETRY Symmetry
INVARIANTS
    RevocationIsComplete
    TokensInv
PROPERTY FamilySpec
