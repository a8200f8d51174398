SPECIFICATION Spec
CONSTANTS
  MaxTasks = 3
  MaxCrashes = 1
  MaxClock = 0
  Retention = 0
  Requests <- MCOneRequest
  FlushOutcomes = {"ok", "unwritten"}
  LoadOutcomes = {"ok"}
INVARIANTS RefusedNeverRuns
PROPERTIES ImplementsLedger
CHECK_DEADLOCK FALSE
