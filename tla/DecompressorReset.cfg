SPECIFICATION FairSpec
CONSTANTS
    NIBBLE = 2
    TOKENS_PER_BLOCK = 2
    MAX_DISTANCE = 8
    MAX_MATCH = 7
    MAX_GIVE = 4
    MAX_ROOM = 3
    MAX_RESETS = 2
    STALE = STALE
    Inputs <- ResetInputs
INVARIANTS ChunkingInvisible
PROPERTIES CallReturns
