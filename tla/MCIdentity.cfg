SPECIFICATION IdentitySpec
CONSTANTS
    LoginRequest = {q1, q2}
    MaxFailedLogins = 2
    LockTicks = 1
    MfaRequired = FALSE
    FailureBound = 4
    LoginClockBound = 3
    Operator = {"u1", "u2"}
    Role = {"admin", "clerk"}
    Permission = {"mg", "mu"}
    ManageGrants = "mg"
    ManageUsers = "mu"
    RbacRequest = {q1, q2}
    SeedRoles <- TwoAdmins
    SeedGrants <- AdminGrants
    VersionBound = 1
    MfaRequest = {q1, q2}
    Challenge = {c1}
    BackupCode = {b1}
    Device = {d1}
    MaxAttempts = 1
    StepBound = 1
    SecretBound = 1
    ResetCall = {q1, q2}
    ResetRequest = {1}
    ResetChallenge = {11, 12}
    MaxResetAttempts = 1
    OneOpenIndex = TRUE
    p1 = p1
    p2 = p2
    Process = {p1, p2}
    Writer = {w1, w2}
    ProcessOf <- TwoProcesses
    Rand = {0}
    MaxCounter = 1
    StepsBack = TRUE
    MaxClock = 2
    MaxMillis = 3
    MaxRows = 1
SYMMETRY IdentitySymmetry
INVARIANTS
    IdentityTypeOK
    LockoutSound
    SecondFactorHonoured
    AcceptedTokensCurrent
    AdminSurvivesAlone
    FactorsSpentOnce
    ResetsAreAuthorised
PROPERTY IdsNeverRegress
CHECK_DEADLOCK FALSE
