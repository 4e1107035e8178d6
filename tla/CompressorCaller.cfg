SPECIFICATION FairSpec
CONSTANTS
    NIBBLE = 4
    TOKENS_PER_BLOCK = 2
    MAX_DISTANCE = 7
    MAX_MATCH = 6
    MAX_GIVE = 2
    MAX_ROOM = 2
    MAX_RESETS = 1
    STALE = STALE
    LEVELS <- AnyLevel
    SLACK <- AnySlack
    EARLY_FINISH = TRUE
    Inputs <- FewInputs
INVARIANTS SuspendedMeansExhausted RoundTrips
PROPERTIES CallReturns
