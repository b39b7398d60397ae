SPECIFICATION HandlerSpec
CONSTANTS
    Streams = {t1, t2}
    Addrs = {"global", "linkLocal"}
    ResolveBound = 1
CHECK_DEADLOCK FALSE
INVARIANT LookupsBounded
