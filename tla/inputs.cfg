CONSTANTS
    Tables <- MCTables
    Columns = 3
    Rows = 1
    KPD_ARRAY <- MCKeys
    Readers = {"APP1", "APP2"}
    NUM_SWITCH = 3
    SWITCH <- MCSwitch
    THRESHOLD = 5
    LEDS <- MCLeds
SPECIFICATION InputsSpec
INVARIANTS ReportedAfterTwoReadings SwitchesSettle
PROPERTIES EachTakenOnce HeldKeyTaken NoBounceReported LampsFollowRound
