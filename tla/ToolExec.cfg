\* Three calls of any kind and two OnToolCallStart callbacks.
CONSTANTS
    N = 3
    StartHooks = 2
SPECIFICATION Spec
INVARIANTS
    GateFailsClosed
    AllAnswered
PROPERTIES
    Returns
CHECK_DEADLOCK FALSE
