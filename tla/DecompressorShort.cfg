SPECIFICATION Spec
CONSTANTS
    NIBBLE = 2
    TOKENS_PER_BLOCK = 2
    MAX_DISTANCE = 8
    MAX_MATCH = 7
    MAX_GIVE = 3
    MAX_ROOM = 2
    MAX_RESETS = 0
    STALE = STALE
    Inputs <- ShortInputs
INVARIANTS TypeOK ModeOK SuspendedMeansExhausted ChunkingInvisible
PROPERTIES DecodesLz77
