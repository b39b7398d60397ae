SPECIFICATION LiveSpec
CONSTANTS
    Exits = {e1, e2}
    Proxies = {p1}
    Sessions <- MCSessions
    NoSession = NoSession
    Streams = {}
    NoStream = NoStream
    RoleOf <- MCRoleOf
    MaxStreams = 1
CHECK_DEADLOCK FALSE
PROPERTIES
    ShutdownCompletes
    ClientsAnswered
    ImplementsOwnership
