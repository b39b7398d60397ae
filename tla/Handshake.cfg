SPECIFICATION HandSpec
CONSTANTS
    Bearers <- MCBearers
    Long = {"long"}
    Carried <- MCCarried
    MaxMux = 2
CHECK_DEADLOCK FALSE
INVARIANTS
    MuxOnlyIfTrusted
    MuxStartsClean
    VerdictsTrue
PROPERTY
    ClientDecides
