CONSTANTS
    RUNNABLE_NUM = 3
    PeriodicityMs <- MCPeriodicityMs
    FirstDelayMs <- MCFirstDelayMs
    CallBack <- MCCallBack
    U32MAX = 4
    MaxTicks = 9
SPECIFICATION Spec
INVARIANTS NoUnpaidPass NeverOverdue
PROPERTIES LossOnlyInDecrement RunsPeriodicTasks ServedWhileRead
