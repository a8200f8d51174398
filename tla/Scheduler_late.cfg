SPECIFICATION SchedulerSpec
CONSTANTS
  Names = {"daily"}
  MaxPerName = 1
  Period <- EveryTick
  MaxTime = 5
  MaxSchedFaults = 0
  MaxRestarts = 1
INVARIANTS SkippedIsNotRun
CHECK_DEADLOCK FALSE
