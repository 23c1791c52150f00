CONSTANTS
    S = S
    C = C
    s1 = s1
    c1 = c1
    c2 = c2
    session = session
    None = None
    Services <- MCServices
    Connectors <- MCConnectors
    Handlers <- MCHandlers
    Owner <- MCOwner
    Sessions <- MCSessions
    SessionOf <- MCSessionOf
    ANNOUNCEMENT_DURATION = 4
    CONNECTION_REQUEST_TIMEOUT = 7
    MARGIN = 1
    RECV_TIMEOUT = 4
    SCHEDULE_CON = 1
    CONNECT_WINDOW = 1
    CONNECT_TIMEOUT = 2
    MaxAbandons = 1
SPECIFICATION SysFairSpec
INVARIANTS
    AnswersAreExpected
    TakenConnectorIsThere
PROPERTIES
    MatchedCallsMeet
    CallsReturn
