CONSTANTS
    Req = {r1, r2}
    NoReq = NoReq
    IdleTTL = 3
    AbsoluteTTL = 5
    Slack = 1
    MaxKeys = 2
    MaxTokens = 2
    Sender = {s1}
    Namespace = {"a", "b"}
    Label = {"x", "y"}
    Name = {"n"}
    Addr <- Addresses
    RawPolicies <- PolicySettings
    RawAllowlists <- AllowlistSettings
    MaxRequests = 3
    MaxIdleConns = 1
    RowId = {1, 2, 3}
    PageSize = 1
    Window = 0
    MaxTime = 1
    MaxLeft = 1
    MinuteSize = 4
    HalfDay = 2
    DomSize = 4
    DowSize = 3
    MonthSize = 2
SPECIFICATION MCSpec
INVARIANTS
    EndedStaysEnded
    LifetimeKept
    OneKeyEach
    DestinationKept
    PageAgrees
    NothingHidden
    
SYMMETRY Symmetry
CHECK_DEADLOCK FALSE
