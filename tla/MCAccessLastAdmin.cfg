SPECIFICATION AccessSpec
CONSTANTS
    Operator = {"u1", "u2"}
    Role = {"admin", "clerk"}
    Permission = {"mg", "mu"}
    ManageGrants = "mg"
    ManageUsers = "mu"
    RbacRequest = {q1, q2}
    SeedRoles <- TwoAdmins
    SeedGrants <- AdminGrants
    VersionBound = 1
INVARIANT AdminSurvives
CHECK_DEADLOCK FALSE
