CONSTANTS
    A = A
    B = B
    Keys <- MCKeys
    PublicKeys <- MCKeys
    Addrs <- MCIds
    Sessions <- MCIds
    Origins <- MCNone
    PeerLists <- MCPeerLists
    Ages <- MCNone
    REQUEST_TIMEOUT_S = 4
    SIGNED_MSG_VALID_S = 6
    MaxNow = 0
    MAX_PUBKEYS = 1
    RequestInterval = 3
    PunchTime = 1
    DetectTime = 1
    Disturbances <- MCOneLost
    Ids <- MCIds
    MaxFaults = 1
    RecoveryTime = 0
SPECIFICATION SysFairSpec
PROPERTY Reconnects
