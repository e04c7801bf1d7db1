CHECK_DEADLOCK FALSE
SPECIFICATION FairUpdateSpec
CONSTANTS
  NumVersions = 3
  MaxHealthAttempts = 2
  MaxUpdates = 2
  MaxRollbacks = 1
  MaxUpdateCrashes = 2
  MaxFaults = 3
INVARIANTS TrialCanBeUndone OnlyProvenBuildsKept TrialsBounded OneVerdict
PROPERTIES TrialEnds
