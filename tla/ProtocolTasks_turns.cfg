SPECIFICATION Spec
CONSTANTS
  t1 = t1
  t2 = t2
  t3 = t3
  s1 = s1
  Ids = {t1, t2, t3}
  Sessions = {s1}
  SessionOf <- OneContext
  Capacity = 2
  MaxTasks = 2
  ContextTurns = 1
  MaxStarts = 1
  None = None
SYMMETRY Symmetry
INVARIANTS AtMostCapacity AsksTakeTurns TurnsAreKept WorkIsOnRecord NothingOutlivesShutdown
CHECK_DEADLOCK FALSE
