CONSTANTS
    Starts <- MCStarts
    MaxCommands = 5
    MaxRefreshes = 5
    Step = 200
    MsWrap = 400
    SecsWrap = 2
    MinsWrap = 2
    HrsWrap = 2
SPECIFICATION Spec
INVARIANTS ShownValid FrozenOnlyWhileEdited
PROPERTIES FieldHeld DayFollows IsStopwatch
