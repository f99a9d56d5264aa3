CONSTANTS
    Callers <- MCCallers
    Scenes <- MCScenes
    MaxJSONDepth = 3
SPECIFICATION Spec
CHECK_DEADLOCK FALSE
INVARIANTS
    AsAsked
    ObjectIsWhole
    RefusedEverywhere
PROPERTIES
    PartialsGrow
    CallEnds
