CONSTANTS
    Uses <- AllUses
    IsUSART6 = FALSE
    U8MAX = 3
    MaxCalls = 3
SPECIFICATION Spec
CHECK_DEADLOCK FALSE
INVARIANTS SendsInOrder ReceivedInOrder
PROPERTIES SendsComplete CallsReturn
