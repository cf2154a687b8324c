SPECIFICATION DSpec
CONSTANTS
    p1 = p1
    a1 = a1
    Peers = {p1}
    Fds = {f1}
    Addrs = {a1}
    Dest <- SlowDest
    Script <- SlowScript
    StreamLen <- SlowLen
    ReadMax = 2
    ResponseLen = 2
    SendBuf = 1
    MaxEvents = 4
    RequestTimeout = 2
    IdleTimeout = 2
    Backend = "epoll"
    CtlMayFail = FALSE
PROPERTIES
    PartialRequestsExpire
