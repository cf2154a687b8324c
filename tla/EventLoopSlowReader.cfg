SPECIFICATION ServerFairSpec
CONSTANTS
    p1 = p1
    p2 = p2
    a1 = a1
    a2 = a2
    Peers = {p1}
    Fds = {f1}
    Addrs = {a1}
    Dest <- OneDest
    Script <- TwiceScript
    StreamLen <- TwiceLen
    ReadMax = 1
    ResponseLen = 2
    SendBuf = 1
    MaxEvents = 4
    RequestTimeout = 1
    IdleTimeout = 2
    Backend = "epoll"
    CtlMayFail = FALSE
PROPERTIES
    ConnectionsEnd
