SPECIFICATION Spec
CONSTANTS
    User = {u1}
    Family = {f1}
    Token = {t1, t2}
    Request = {p1, p2}
    Ttl = 1
    MaxClock = 0
    None = None
SYMMETRY Symmetry
INVARIANT LogoutEndsFamily
