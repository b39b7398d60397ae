SPECIFICATION ExitFairSpec
CONSTANTS
    MaxLinks = 2
    MinBackoff = 1
    MaxBackoff = 3
    Streams = {t1}
    NoStream = none
CHECK_DEADLOCK FALSE
INVARIANTS
    ExitTypeOK
    OneOpenSession
    StoppedAcceptorsUnblocked
PROPERTIES
    ImplementsPublisher
    StreamsResolved
    BrokerFollows
    ExitShutsDown
