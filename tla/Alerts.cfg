SPECIFICATION MonitoringSpec
CONSTANTS
  None = None
  t1 = t1  t2 = t2  w1 = w1  w2 = w2  ops = ops  hook = hook
  Recipients = {ops}
  Endpoints = {hook}
  EndpointTerms <- MCEndpointTerms
  MaxAttempts = 2
  ManualLimit = 3
  BackoffBase = 1
  BackoffMax = 1
  Lease = 1
  Batch = 2
  MaxEndpoints = 1
  RetryRequests = {"again"}
  Workers <- MCWorkers
  NumDeliveries = 2
  MaxVersion = 3
  Policies = {1, 2}
  Scope <- MCScope
  Keys = {"cpu", "offline", "patch_age"}
  CheckType <- MCType
  CheckLists <- MCCheckLists
  InitialPolicies <- MCInitialPolicies
  AgentStatuses = {"ok", "critical", "unknown"}
  Warning = 0
  Critical = 1
  RaiseSamples = 2
  ClearSamples = 2
  Interval = 1
  MaxAge = 1
  Skews = {0}
  MaxSkew = 0
  KeepResults = 2
  WindowTerms <- MCWindows
  MaxWindows = 1
  MaxPolicies = 2
  ActionRequests = {1, 2}
  Slots <- MCSlots
  NumResults = 4
  MaxClock = 3
  CheckOrder <- MCCheckOrder
  MaxPendingResults = 3
  FlushBatch = 2
  EvaluateEvery = 1
  AcceptedAge = 1
  FutureSkew = 0
  Leads = {0, 1}
  Revisions = {0, 1, 2}
  Budgets <- MCBudgets
INVARIANTS
  ActedOnWhatWasSeen
  AlertFollowsResults
  RepeatsExplained
PROPERTIES
  EveryNotificationEnds
  ResultsReported
CHECK_DEADLOCK FALSE
