CONSTANTS
    A = A
    B = B
    a = a
    b = b
    a0 = a0
    Sides <- Pair
    Addrs <- MCAddrs
    Target <- SymmetricTarget
    NatMap <- PlainNat
    PUNCH_WINDOW = 5
    DRAIN_WINDOW = 2
    SETTLE_WINDOW = 2
    Prompt = TRUE
SPECIFICATION Spec
INVARIANTS
    OverlapSucceeds
    TwoIntervalsSuffice
    ReturnedSocketIsDrained
CHECK_DEADLOCK FALSE
