CONSTANTS
    A = A
    B = B
    C = C
    a1 = a1
    a2 = a2
    b1 = b1
    c1 = c1
    Keys <- MCKeys
    Addrs <- MCAddrs
    Sessions <- MCSessions
    Origins <- MCOrigins
    PeerLists <- MCPeerLists
    Ages <- MCAges
    REQUEST_TIMEOUT_S = 2
    SIGNED_MSG_VALID_S = 1
    MaxNow = 2
SPECIFICATION Spec
INVARIANTS
    TypeOK
    NoMutualSlots
    SlotsFromLatestRequest
    MatchIsMutualAndFresh
PROPERTY KeepsPromise
