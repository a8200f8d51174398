SPECIFICATION PoolSpec
CONSTANTS
  MaxTasks = 3
  MaxCrashes = 0
  MaxClock = 0
  Retention = 1
  Requests <- MCWarmOnly
  FlushOutcomes = {"ok", "unwritten"}
  LoadOutcomes = {"ok"}
  MaxWorkers = 1
  WarmCount = 1
  RateLimited = TRUE
INVARIANTS PoolTypeOK ColdWithinLimit BusyIsHeld ExchangeHasProcess RunningHasDispatcher
CHECK_DEADLOCK FALSE
