SPECIFICATION Spec
CONSTANTS
    NIBBLE = 4
    TOKENS_PER_BLOCK = 2
    MAX_DISTANCE = 7
    MAX_MATCH = 6
    MAX_GIVE = 8
    MAX_ROOM = 2
    MAX_RESETS = 0
    STALE = STALE
    LEVELS = {0, 9}
    SLACK = {0}
    EARLY_FINISH = FALSE
    Inputs <- LongInputs
INVARIANTS TypeOK ModeOK WindowHoldsInput MatchCopiesInput WithinBound ChunkingInvisible
