\* The handshake and two operations, either of which a handler may make,
\* over each of the three transports, with one notification.
CONSTANTS
    InitReq = init
    Calls = {a}
    Refetches = {b}
    Streamed = {a}
    Main = main
    None = None
    Kinds = {"stdio", "http", "sse"}
    MaxNotifications = 1
SPECIFICATION Spec
INVARIANTS
    ReaderNeverBlocks
PROPERTIES
    EveryRequestEnds
    CloseReturns
CHECK_DEADLOCK FALSE
