SPECIFICATION Spec
CONSTANTS
    NIBBLE = 4
    TOKENS_PER_BLOCK = 2
    MAX_DISTANCE = 7
    MAX_MATCH = 6
    MAX_GIVE = 5
    MAX_ROOM = 1
    MAX_RESETS = 0
    STALE = STALE
    LEVELS = {9}
    SLACK <- RightOrNothing
    EARLY_FINISH = TRUE
    Inputs <- OneLongInput
INVARIANTS WindowHoldsInput MatchCopiesInput SuspendedMeansExhausted RoundTrips ReceivedInReach
