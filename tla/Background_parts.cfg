SPECIFICATION BackgroundSpec
CONSTANTS
  Names = {"daily"}
  MaxPerName = 2
  Period <- EveryTick
  MaxTime = 5
  MaxSchedFaults = 1
  MaxRestarts = 1
  MaxEntries = 3
  Selected = {1, 3}
  Limit = 1
  MaxMemFaults = 1
  MaxMemCrashes = 1
  MaxSearches = 1
  Supervisors = {"run", "again"}
  First = "run"
  MaxRestartAttempts = 2
  MaxSpawns = 4
  Messages = {"talk", "more", "yes", "knock", "other", "room"}
  Batches <- MCBatches
  Mail <- MCMail
  Prompts = {"q"}
  ToolCalls = {"k"}
  GroupMembers <- MCGroups
  Owner = "me"
  DMPolicy = "pairing"
INVARIANTS BackgroundTypeOK RunOncePerDueTime RoutesAreDurable StoreIsDurable SearchIsRight LoneSupervisor VerdictIsOperators OnlyPairedReachClaude EyesHaveAnOwner
PROPERTIES DueIsRun  PromptIsAnswered
CHECK_DEADLOCK FALSE
