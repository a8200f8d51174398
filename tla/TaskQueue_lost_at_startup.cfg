SPECIFICATION Spec
CONSTANTS
  MaxTasks = 1
  MaxCrashes = 1
  MaxClock = 0
  Retention = 1
  Requests <- MCOneRequest
  FlushOutcomes = {"ok"}
  LoadOutcomes = {"ok", "unwritten"}
INVARIANTS AcceptedSurvives
CHECK_DEADLOCK FALSE
