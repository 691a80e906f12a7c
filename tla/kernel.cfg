SPECIFICATION Spec
CONSTANTS
  Tasks <- MCTasks
  Idle = "idle"
  End = "end"
  EventLists <- MCEventLists
  configMAX_PRIORITIES = 4
  portMAX_DELAY = 15
  Scenarios <- MCScenarios
  MaxPended = 1
  QueueNames <- MCQueueNames
  NewQueue <- MCNewQueue
  NoTask = "none"
  Items <- MCItems
  DataQueues <- MCDataQueues
  ForBits <- MCForBits
  StreamLength = 4
  NoReader = "none"
  Timers <- MCTimers
  NewTimer <- MCNewTimer
  TimerQueue = "timers"
INVARIANTS KernelLists HighestRuns NoLostWakeup TimeoutsExact InheritanceHolds Rendezvous StreamInOrder TimersExact
PROPERTIES QueueIsFifo
CHECK_DEADLOCK FALSE
