CONSTANTS
    Peers <- MCTwoPeers
    RemoteSessions <- MCRemoteSessions
    NoSession = NoSession
    OwnSessions <- MCOwnSessions
    BATCH = 1
    REQUEST_PLACEMENT_INTERVAL = 1
    INITIAL_TIMEOUT = 1
    TIMEOUT_STEP = 1
    MAX_TIMEOUT = 2
    MaxConns = 2
SPECIFICATION QuicFairSpec
INVARIANTS
    TypeOK
    NobodyIsSkippedForLong
    OneConnectionPerPeer
    ActiveMeansConnected
PROPERTY EveryPeerIsAskedFor
