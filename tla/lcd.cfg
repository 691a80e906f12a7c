CONSTANTS
    LCD_BUFFERSIZE = 3
    CGRAM_BYTES = 1
    INIT_CALLS = 2
    Requests <- SomeRequests
    Modes = {4, 8}
    NumberModes = {8}
    None = None
SPECIFICATION Spec
CHECK_DEADLOCK FALSE
PROPERTIES ShowsRequests LowSlotsServed
