SPECIFICATION SchedulerSpec
CONSTANTS
  None = None
  x = x  y = y  site = site  s1 = s1  w1 = w1  w2 = w2  o1 = o1
  Agents = {x, y}
  PatchPolicyIds = {1, 2}
  PatchScope <- MCPatchScope
  PatchCovers <- MCPatchCovers
  RevisionTerms <- MCRevisionTerms
  Updates <- MCUpdates
  Scans <- MCScans
  StaleAfter = 1
  Tasks = {1, 2}
  TaskTerms <- MCTaskTerms
  Edits <- MCEdits
  SiteAgents <- MCSiteAgents
  Governed <- MCGoverned
  MinutesPerHour = 2
  HoursPerDay = 2
  SearchDays = 1
  MisfireGrace = 1
  Payloads <- MCPayloads
  Workers = {w1, w2}
  Operators = {o1}
  Budgets <- MCBudgets
INVARIANTS
  WorkNotDoubled
  ComplianceAgrees
PROPERTIES
  DueTaskRuns
CHECK_DEADLOCK FALSE
