SPECIFICATION ServicesSpec
CONSTANTS
  Bundles = {"v1", "v2"}
  Slugs = {"mail"}
  SystemSlugs = {"mail"}
  SlugOf <- SameSlug
  Carriers = {"v2"}
  Proposed <- MCProposed
  Removers = {"u"}
  MaxFaults = 1
  MaxDeaths = 1
  Results = {"plain", "both", "leak"}
  ResultsTogether <- MCResultsTogether
  ReplyTo <- MCReplyTo
  Leaking = {"leak"}
  sseBufferSize = 1
  MaxConnections = 3
  Calls = {"list", "read", "send", "reply", "agenda", "get", "create", "update", "delete", "blank", "refused"}
  CallsTogether <- MCCallsTogether
  Ask <- MCAsk
  Accounts = {"work"}
  AllowWrites <- MCAllowWrites
  MaxRetries = 2
  MaxTransient = 3
  MaxEdits = 1
INVARIANTS ServicesTypeOK InstalledAsApproved LoadedIsOneVersion PushedOnce CommandsAreHonest
CHECK_DEADLOCK FALSE
