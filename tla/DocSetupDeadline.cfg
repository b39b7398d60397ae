SPECIFICATION FairSpec
CONSTANTS
    Exits = {e1, e2}
    Proxies = {}
    Sessions <- MCSessions
    NoSession = NoSession
    Streams = {}
    NoStream = NoStream
    RoleOf <- MCRoleOf
    MaxStreams = 1
CHECK_DEADLOCK FALSE
PROPERTY ShutdownCompletes
