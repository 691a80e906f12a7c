CONSTANTS
    configMAX_PRIORITIES = 7
    Tasks = {1, 2, 3}
    Period <- MCPeriod
    portMAX_DELAY = 3
    MaxPended = 1
SPECIFICATION FairSpec
INVARIANTS OnTime HighestRuns
PROPERTIES LossOnlyByLower BlinksForever
