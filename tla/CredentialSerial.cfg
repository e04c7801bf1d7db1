SPECIFICATION FairSpec
CONSTANTS
  Lifetime = 3
  Overlap = 2
  Window = 1
  NumTokens = 7
  MaxClock = 5
  MaxOpenRequests = 1
  MaxSaveFaults = 1
  MaxAclFaults = 0
  MaxQuarantines = 1
  MaxCrashes = 1
  Revocable = TRUE
  Timely = TRUE
INVARIANTS HeldCredentialKnown
PROPERTIES CurrentAgain
