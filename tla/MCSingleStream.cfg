CONSTANTS
    MaxChunks = 3
    OutCap = 1
    Modes <- MCModes
    HooksPanic = TRUE
SPECIFICATION Spec
INVARIANTS
    IdleAfterHooks
    PanicSurfaces
PROPERTIES
    CancelFrees
CHECK_DEADLOCK FALSE
