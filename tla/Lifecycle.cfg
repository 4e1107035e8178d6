SPECIFICATION Spec
CONSTANTS
    Streams = {stream1, stream2}
    Allocators = {arena1, arena2}
    Addresses <- SomeAddresses
    Machines <- SomeMachines
    Levels = {9, 10}
    Requests = {"AUTO", "AVX2", "SWAR64"}
    MatcherRequests = {"AUTO", "STANDARD", "OTHER"}
    STATE_SIZE = 9
    MATCHER_SIZE = 5
    MATCHER_ALIGN = 4
INVARIANTS TypeOK BlocksAccounted MatcherUsable RequestsHonoured
PROPERTIES FailuresUndone
