CONSTANTS
    H1 = H1
    H2 = H2
    H3 = H3
    S1 = S1
    S2 = S2
    None = None
    Handlers <- MCHandlers
    Sessions <- MCOneSession
    ANNOUNCEMENT_DURATION = 1
    CONNECTION_REQUEST_TIMEOUT = 3
    MARGIN = 1
SPECIFICATION Spec
PROPERTY RemovesOwnRequest
