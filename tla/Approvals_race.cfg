SPECIFICATION ApprovalsSpec
CONSTANTS
  Ids = {"old", "a"}
  Leftover = {"old"}
  Callers = {"tap"}
  Decisions <- MCDecisions
  Buffer = 1
  MaxCrashes = 1
  MaxConnects = 2
INVARIANTS ApprovalsTypeOK HandledOnce ResolutionIsTrue NoApprovalMissed NoStaleCard StagedHasOwner
PROPERTIES ExpiredIsRemoved
CHECK_DEADLOCK FALSE
