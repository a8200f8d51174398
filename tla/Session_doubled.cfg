SPECIFICATION SessionSpec
CONSTANTS
  Supervisors = {"run","again"}
  First = "run"
  MaxRestartAttempts = 2
  MaxSpawns = 4
INVARIANTS OneSession
CHECK_DEADLOCK FALSE
