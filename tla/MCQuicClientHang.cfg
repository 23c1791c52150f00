CONSTANTS
    Peers <- MCTwoPeers
    RemoteSessions <- MCRemoteSessions
    NoSession = NoSession
    OwnSessions <- MCOwnSessions
    BATCH = 1
    REQUEST_PLACEMENT_INTERVAL = 1
    INITIAL_TIMEOUT = 1
    TIMEOUT_STEP = 1
    MAX_TIMEOUT = 1
    MaxConns = 1
SPECIFICATION QuicFairSpec
PROPERTY PollAcceptReturns
