CONSTANTS
    Uses <- OneAtATime
    IsUSART6 = FALSE
    U8MAX = 3
    MaxCalls = 2
SPECIFICATION Spec
CHECK_DEADLOCK FALSE
INVARIANT WireInOrder
