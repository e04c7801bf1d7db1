SPECIFICATION Spec
CONSTANTS
  NumCommands = 1
  TTL = 1
  Lease = 1
  Skew = 0
  UnverifiedTTL = 1
  MaxBatch = 1
  MaxOutstanding = 2
  NoticeCap = 2
  Builds = {"v3"}
  MaxClock = 2
  MaxOpenHeartbeats = 2
  MaxLateReports = 0
  MaxInterruptions = 1
  MaxSaveFaults = 0
  MaxQuarantines = 0
  Revocable = TRUE
  Stoppable = FALSE
INVARIANTS AtMostOnce NoResultLost ResultsAreTrue
