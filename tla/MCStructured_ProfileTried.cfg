CONSTANTS
    Callers <- MCCallers
    Scenes <- SharedScenes
    MaxJSONDepth = 3
SPECIFICATION Spec
CHECK_DEADLOCK FALSE
INVARIANT ProfileTried
