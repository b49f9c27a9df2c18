SPECIFICATION Spec
CONSTANTS
    Node = {1, 2}
    Link <- MCPair
    MaxPing = 3
INVARIANTS
    ConnectionTypeOK
    HandshakeOnce
    Acquainted
    NothingHeldOnceConnected
    PortNeverStalls
    PingsAreAccountedFor
PROPERTY ImplementsPingService
