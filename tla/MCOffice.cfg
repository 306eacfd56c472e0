SPECIFICATION OfficeSpec
CONSTANTS
    p1 = p1
    p2 = p2
    Process = {p1}
    Writer = {q1, q2}
    ProcessOf <- OneProcess
    Rand = {0}
    MaxCounter = 1
    StepsBack = FALSE
    MaxClock = 2
    MaxMillis = 2
    MaxRows = 3
    OfficeCall = {q1, q2}
    Customer = {c1, c2}
    Email = {"a", "b"}
    NationalId = {n1, n2}
    Patch <- Edits
    VersionCap = 2
    NoteUser = {"u1"}
    EmitCall = {q1, q2}
    DedupeTicks = 0
    NoteBound = 3
    NoteClockBound = 1
    PageSize = 2
    InboxBound = 5
    Recipient = {c1, c2}
    PruneCall = {q1, q2}
    Connection <- Pools
    RetentionTicks = 1
    NoteCap = 1
    KeptBound = 3
    NightBound = 3
    TtlTicks = 3
    HitLimit = 2
    BlockTicks = 3
    ThrottleBound = 9
    Instance = {q1, q2}
    Browser = {"b1"}
    LiveUser = {c1, c2}
    Everyone = "all"
    EventBound = 2
    RollupRun = {q1, q2}
    VolumeCurrency = {"try"}
    LastDay = 1
    MovementBound = 1
SYMMETRY OfficeSymmetry
INVARIANTS
    OfficeTypeOK
    ChainInv
    CustomersCoherent
    NotificationsSound
    RateBounded
    DeliveredOnce
PROPERTIES
    CustomersEvolve
    NightJobsSound
CHECK_DEADLOCK FALSE
