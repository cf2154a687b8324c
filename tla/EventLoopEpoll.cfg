SPECIFICATION Spec
CONSTANTS
    p1 = p1
    p2 = p2
    a1 = a1
    a2 = a2
    Peers = {p1, p2}
    Fds = {f1, f2}
    Addrs = {a1, a2}
    Dest <- SplitDest
    Script <- MixedScript
    StreamLen <- MixedLen
    ReadMax = 2
    ResponseLen = 2
    SendBuf = 1
    MaxEvents = 4
    RequestTimeout = 1
    IdleTimeout = 2
    Backend = "epoll"
    CtlMayFail = TRUE
INVARIANTS
    TypeOK
    DescriptorsAgree
    InterestFollowsOutput
    NoStrandedRequest
    BuffersMatchStream
    NothingSkipped
    EventsAreFresh
    HandledOnce
PROPERTIES
    ImplementsService
