SPECIFICATION Spec
CONSTANTS
    NIBBLE = 2
    TOKENS_PER_BLOCK = 2
    MAX_DISTANCE = 8
    MAX_MATCH = 7
    MAX_GIVE = 20
    MAX_ROOM = 15
    MAX_RESETS = 0
    STALE = STALE
    Inputs <- RingInputs
INVARIANTS RingHoldsTail ChunkingInvisible
PROPERTIES DecodesLz77
