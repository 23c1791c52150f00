CONSTANTS
    A = A
    B = B
    a = a
    b = b
    a0 = a0
    Sides <- Pair
    Addrs <- MCAddrs
    Target <- PlainTarget
    NatMap <- PlainNat
    PUNCH_WINDOW = 3
    DRAIN_WINDOW = 2
    SETTLE_WINDOW = 2
    Prompt = FALSE
SPECIFICATION Spec
INVARIANT ReturnedConnectionIsReady
CHECK_DEADLOCK FALSE
