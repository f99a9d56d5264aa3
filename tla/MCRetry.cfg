CONSTANTS
    maxRetries = 6
    Millisecond = 2
    Modulus <- MCModulus
    Errors <- MCErrors
SPECIFICATION RetrySpec
INVARIANTS
    ExhaustedIsEarned
    DelayBounded
CHECK_DEADLOCK FALSE
