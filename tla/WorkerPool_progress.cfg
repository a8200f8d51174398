SPECIFICATION MidwaySpec
CONSTANTS
  MaxTasks = 4
  MaxCrashes = 1
  MaxClock = 0
  Retention = 0
  Requests <- MCWarmAndCold
  FlushOutcomes = {"ok"}
  LoadOutcomes = {"ok"}
  MaxWorkers = 1
  WarmCount = 1
  RateLimited = FALSE
INVARIANTS ReportedOnce
 
CHECK_DEADLOCK FALSE
