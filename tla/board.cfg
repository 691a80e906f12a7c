CONSTANTS
    Channels = {"USART1", "USART2"}
    Instances = {"USART1", "USART2", "NULL"}
    BaudRates = {1200, 9600, 38400, 57600}
    Parts <- MCParts
    TIME_OUT = 2
    Masks <- MCMasks
    Factors <- MCFactors
    Clock = 2
    MaxLoad = 7
    STK_MAX_TIME_MS = 2
    Times = {0, 1, 2, 3}
    CallBacks = {"TickCb", "NULL"}
    AllPins <- MCPins
    LEDS <- MCLeds
    KPD_Conf <- MCKeypad
    SWITCH <- MCSwitch
    HLCD <- MCLcd
    AFPin <- MCAFPin
    AF = 7
    Interrupts = {5, 31, 37, 90}
    Priorities = {0, 1, 2}
SPECIFICATION Spec
INVARIANTS BusyWaitLasts LedsReady RateHolds AsAsked
PROPERTIES RunsFromReady
