SPECIFICATION FairSpec
CONSTANTS
    NIBBLE = 4
    LANE_BITS = 4
    TOKENS_PER_BLOCK = 2
    MAX_DISTANCE = 8
    MAX_MATCH = 6
    Windows <- AllWindows
    Kernels <- AllKernels
INVARIANTS TypeOK NeverReadsPadding NothingMissed FindsLongest WordsAreLanes
PROPERTY Returns
CHECK_DEADLOCK FALSE
