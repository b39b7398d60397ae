SPECIFICATION FairSpec
CONSTANTS
    Exits = {e1}
    Proxies = {p1}
    Sessions <- MCSessions
    NoSession = NoSession
    Streams = {t1, t2}
    NoStream = NoStream
    RoleOf <- MCRoleOf
    MaxStreams = 1
CHECK_DEADLOCK FALSE
PROPERTY PairsTornDown
