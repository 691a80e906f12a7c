SPECIFICATION Spec
CONSTANTS
  Tasks <- MCTasks
  Idle = "idle"
  End = "end"
  EventLists <- MCEventLists
  configMAX_PRIORITIES = 4
  portMAX_DELAY = 15
  Scenarios <- NestedScenarios
  MaxPended = 1
  QueueNames <- MCQueueNames
  NewQueue <- MCNewQueue
  NoTask = "none"
  Items <- MCItems
  DataQueues <- MCDataQueues
  ForBits <- MCForBits
  StreamLength = 4
  NoReader = "none"
  Timers <- MCTimers
  NewTimer <- MCNewTimer
  TimerQueue = "timers"
INVARIANT NeverNothingToSelect
CHECK_DEADLOCK FALSE
