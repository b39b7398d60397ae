SPECIFICATION Spec
CONSTANTS
    Exits = {e1, e2}
    Proxies = {p1}
    Sessions <- MCSessions
    NoSession = NoSession
    Streams = {t1, t2}
    NoStream = NoStream
    RoleOf <- MCRoleOf
    MaxStreams = 1
CHECK_DEADLOCK FALSE
SYMMETRY Symmetry
INVARIANTS
    TypeOK
    GenerationsIdentify
    NoOrphanedSession
    SweepIsComplete
    ShutdownReleases
    PairsRunProxyToExit
    StalePairsDoomed
    ConnsExact
