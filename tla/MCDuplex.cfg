SPECIFICATION DuplexFairSpec
CONSTANTS
    MaxChunks = 2
    Setups <- MCSetups
CHECK_DEADLOCK FALSE
INVARIANTS
    NoFinBeforeData
    NilMeansComplete
    ReturnJoinsCopiers
PROPERTIES
    FinIsPropagated
    DrainIsBounded
    CancelEndsRun
