SPECIFICATION ProxySpec
CONSTANTS
    MaxLinks = 2
    MaxPending = 1
    Conns = {b1, b2}
CHECK_DEADLOCK FALSE
INVARIANTS
    SlotsBalanced
PROPERTIES
    RequestsTakeNewest
    RidersEndWithLink
    ProxyShutsDown
