SPECIFICATION FairSpec
CONSTANTS
  NumCommands = 1
  TTL = 1
  Lease = 1
  Skew = 0
  UnverifiedTTL = 1
  MaxBatch = 1
  MaxOutstanding = 2
  NoticeCap = 2
  Builds = {"v3", "v2"}
  MaxClock = 2
  MaxOpenHeartbeats = 1
  MaxLateReports = 0
  MaxInterruptions = 1
  MaxSaveFaults = 0
  MaxQuarantines = 1
  Revocable = FALSE
  Stoppable = TRUE
PROPERTIES EveryCommandResolves OutboxDrains
