CONSTANTS
    Codecs <- MCCodecs
    Answers <- MCAnswers
    RawUsages <- MCRawUsages
    Turns <- MCTurns
    MaxMessages = 5
    OutCap = 1
    CompatMaxArgs = 2
SPECIFICATION Spec
CHECK_DEADLOCK FALSE
INVARIANTS
    StreamFaithful
    ReplayVerbatim
    FailureTold
    RequestPaired
PROPERTY StreamEnds
