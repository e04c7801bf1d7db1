SPECIFICATION Spec
CONSTANTS
  None = None
  Chats = {1, 2}
  MaxMessages = 2
  Sessions = {1, 2}
  Operators = {"o1", "o2"}
  Inputs = {"a", "b"}
  MaxConcurrent = 1
  BufferFrames = 2
  ReadLimit = 1
  OutputLimit = 2
  IdleTimeout = 1
  MaxLifetime = 2
  RetryWindow = 1
  MaxShells = 2
  Budgets <- MCBudgets
INVARIANTS
  StreamsInOrder
  ClosedChatShut
PROPERTIES
  EverySessionEnds
CHECK_DEADLOCK FALSE
