SPECIFICATION HandlerSpec
CONSTANTS
    Streams = {t1, t2}
    Addrs = {"global", "special", "loopback", "private", "multicast"}
    ResolveBound = 1
CHECK_DEADLOCK FALSE
INVARIANTS
    DialedAllowed
    PayloadUntimed
    NothingLeftBehind
PROPERTIES
    SetupBounded
    HandlersEndWithSession
