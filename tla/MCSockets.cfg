CONSTANTS
    Interfaces <- MCInterfaces
    Listings <- MCListings
    Ports <- MCPorts
    None = None
SPECIFICATION Spec
INVARIANTS
    SelectionIsBest
    WrongInterfaceIsNoticed
    AttemptsLeaveFromSeenAddress
