SPECIFICATION Spec
CONSTANTS
  None = None
  ann = ann  bob = bob  cyd = cyd  eve = eve  t1 = t1  t2 = t2
  Staff = {ann, bob, cyd}
  Emergency = eve
  InitialAccount <- MCInitialAccount
  InitialKeys <- MCInitialKeys
  InitialSessions <- MCInitialSessions
  InitialFactor <- MCInitialFactor
  Enforcement = "required"
  RequiredRole = "admin"
  EmailPolicy = "always"
  MaxConcurrent = 1
  MaxKeys = 3
  MaxAttempts = 2
  MaxFailures = 2
  TokenTtl = 2
  PendingTtl = 1
  Absolute = 2
  GlassLifetime = 1
  Idle = 2
  ChallengeTtl = 1
  CodeTtl = 1
  StepUpAge = 1
  Slots <- MCSlots
  NumSessions = 4
  NumKeys = 3
  NumChallenges = 2
  NumRecovery = 2
  NumCodes = 1
  MaxClock = 1
  Budgets <- MCBudgets
INVARIANTS
  SecondFactorOnce
  EmergencyNeverProvisions
PROPERTIES
  AdminRemains
CHECK_DEADLOCK FALSE
SYMMETRY Symmetry
