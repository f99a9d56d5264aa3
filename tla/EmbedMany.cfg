\* Three values in chunks of two or one, in turn or at once, one retry,
\* each kind of token source and two tokens.
CONSTANTS
    Callers = {1, 2, 3}
    Sources = {"cached", "oauth", "static"}
    MaxTokens = 2
    Count = 3
    MaxPerCall = 2
    MaxRetries = 1
    Parallelisms = {1, 2}
    Models = {"indexed", "listed", "single", "lenient"}
SPECIFICATION Spec
INVARIANTS
    OrderKept
    RetryIsFresh
PROPERTIES
    FresherKept
    Returns
CHECK_DEADLOCK FALSE
