SPECIFICATION MCScreensSpec
CONSTANTS
    WebUser = {u1, u2}
    NoUser = nobody
    WebCall = {me, c1}
    MeCall = me
    TokenBound = 3
    ListRow = {"c1", "c2"}
    ListView = {"all", "some"}
    FirstView = "all"
    NoView = NoView
    ShownIn <- TwoViews
    DeleteBound = 2
    TicksPerMinute = 2
    MinuteBound = 2
    PostBound = 1
    ZoneShift <- Zones
    FeedPage = 1
    FeedBound = 3
    WireBound = 2
    RiskCustomer = {"c1", "c2"}
    RiskAddress = {"a1", "a2"}
    Wallet = {"w1"}
    Null = Null
    DetailCustomer = {"c1", "c2"}
    None = None
    LimitsBound = 2
    ReloadBound = 1
    TrustedDevice = {"d1", "d2"}
    NoDevice = NoDevice
    DeviceLoads = 2
    CodesBound = 2
    DeskRequest = {"q1", "q2"}
    NoRequest = NoRequest
    FetchBound = 1
    FieldText = {"x", "y"}
    Masked = "masked"
    EmptyText = "empty"
    RowVersions = 2
INVARIANTS
    ScreensTypeOK
    SessionSound
    PollOnlyWhileWaiting
    ListHonest
    NewRowShown
    ItemsDistinct
    DecisionMatchesScreening
    DetailHonest
    SettingsHonest
    FormFaithful
CHECK_DEADLOCK FALSE
