CONSTANTS
    Calls <- MCCalls
    ServerCalls <- MCServerCalls
    MaxSteps <- MCMaxSteps
    Responses <- MCResponses
SPECIFICATION Spec
INVARIANTS
    FinishMatchesReturn
    ReplaySafe
    ToldOnceClientTools
    CutShortIsTold
PROPERTIES
    LifecycleSpec
CHECK_DEADLOCK FALSE
