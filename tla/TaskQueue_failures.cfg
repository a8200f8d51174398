SPECIFICATION Spec
CONSTANTS
  MaxTasks = 2
  MaxCrashes = 1
  MaxClock = 2
  Retention = 1
  Requests <- MCRequests
  FlushOutcomes = {"ok", "unwritten", "unsynced"}
  LoadOutcomes = {"ok"}
INVARIANTS TypeOK InFlightNotQueued RunningIsOwned NoOvertaking AcceptedSurvives
PROPERTIES SettledNeverRuns ResultKept
CHECK_DEADLOCK FALSE
