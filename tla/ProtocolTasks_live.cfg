SPECIFICATION FairSpec
CONSTANTS
  t1 = t1
  t2 = t2
  t3 = t3
  s1 = s1
  Ids = {t1, t2}
  Sessions = {s1}
  SessionOf <- Mixed
  Capacity = 2
  MaxTasks = 2
  ContextTurns = 1
  MaxStarts = 2
  None = None
INVARIANTS AnswersAgree
PROPERTIES TasksSettle ShutdownReturns
CHECK_DEADLOCK FALSE
