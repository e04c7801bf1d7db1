SPECIFICATION Spec
CONSTANTS
  NumCommands = 2
  TTL = 1
  Lease = 1
  Skew = 0
  UnverifiedTTL = 1
  MaxBatch = 1
  MaxOutstanding = 2
  NoticeCap = 2
  Builds = {"v3"}
  MaxClock = 2
  MaxOpenHeartbeats = 1
  MaxLateReports = 1
  MaxInterruptions = 0
  MaxSaveFaults = 2
  MaxQuarantines = 0
  Revocable = FALSE
  Stoppable = FALSE
PROPERTIES ImplementsContract
