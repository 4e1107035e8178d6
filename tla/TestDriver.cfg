SPECIFICATION FairTestSpec
CONSTANTS
    NIBBLE = 4
    TOKENS_PER_BLOCK = 3
    MAX_DISTANCE = 64
    MAX_MATCH = 21
    MAX_GIVE = 50
    MAX_ROOM = 217
    MAX_RESETS = 0
    STALE = STALE
    LEVELS = {9, 0}
    SLACK = {0}
    EARLY_FINISH = FALSE
    Inputs <- Files
    InChunks = {0, 1, 2, 50}
    OutChunks = {0, 1, 2, 7}
    MARGIN = 1
INVARIANTS Restored NeverGivesUp
PROPERTIES TestEnds
CHECK_DEADLOCK FALSE
