SPECIFICATION Spec
CONSTANTS
  None = None
  Txns = {1, 2}
  Replicas = {"p", "q"}
  RecordIds = {1, 2}
  HoldIds = {1, 2}
  Retention = 1
  BatchSize = 1
  Budgets <- MCBudgets
INVARIANTS
  ChainUnbroken
  NoFalseAlarm
  DisposalsExplained
PROPERTIES
  HoldsReconcile
  DamageFound
CHECK_DEADLOCK FALSE
