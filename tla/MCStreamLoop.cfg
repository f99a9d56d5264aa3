CONSTANTS
    Calls <- MCCalls
    ServerCalls <- MCServerCalls
    MaxSteps = 2
    MaxChunks = 1
    OutCap = 2
    RawCap = 1
    Modes = {"raw", "text", "none"}
    ContextEnds = TRUE
    HooksPanic = TRUE
SPECIFICATION Spec
INVARIANTS
    NilErrMeansComplete
    FirstErrorTold
PROPERTIES
    FollowsLifecycle
    NoLeak
CHECK_DEADLOCK FALSE
