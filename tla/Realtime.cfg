\* Two tool calls for one slot, channels of one event, and enough events
\* to make both calls, cancel one and overrun the queue.
CONSTANTS
    MaxCalls = 2
    MaxEvents = 3
    ConnCap = 1
    Slots = 1
    EventCap = 1
SPECIFICATION Spec
INVARIANTS
    FailureSurfaces
    ClosedMeansOver
PROPERTIES
    CloseReturns
CHECK_DEADLOCK FALSE
