CONSTANTS
    p1 = p1  p2 = p2
    Addrs <- TwoAddrs
    Modulus = 16
    DeadLinkLimit = 3
    Mss = 16
    MaxInFlight = 2
    Scenarios <- All
SPECIFICATION Spec
INVARIANTS DeliveryIsReliable SessionCallbacksAreExact SessionsAreExact
CHECK_DEADLOCK FALSE
