SPECIFICATION PoolLiveSpec
CONSTANTS
  MaxTasks = 2
  MaxCrashes = 0
  MaxClock = 0
  Retention = 1
  Requests <- MCWarmOnly
  FlushOutcomes = {"ok"}
  LoadOutcomes = {"ok"}
  MaxWorkers = 1
  WarmCount = 1
  RateLimited = FALSE
PROPERTIES WaitingTasksAreTaken
CHECK_DEADLOCK FALSE
