CONSTANTS
    A = A
    B = B
    a = a
    b = b
    a0 = a0
    Sides <- Pair
    Addrs <- MCAddrs
    Target <- SymmetricTarget
    NatMap <- PlainNat
    PUNCH_WINDOW = 3
    DRAIN_WINDOW = 2
    SETTLE_WINDOW = 2
    Prompt = FALSE
SPECIFICATION FairSpec
INVARIANTS
    TypeOK
    SuccessWasHeard
PROPERTY PunchReturns
CHECK_DEADLOCK FALSE
