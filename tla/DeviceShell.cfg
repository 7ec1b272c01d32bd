SPECIFICATION FairSpec
CONSTANTS
  Procs = {p1, p2}
  Tasks = {t1, t2}
  p1 = p1
  p2 = p2
  t1 = t1
  t2 = t2
  Owner <- OneEach
  MaxStarted = 2
  MaxJobs = 1
  None = None
INVARIANTS UiIsExclusive NothingIsForgotten ShutdownLeavesNothing
PROPERTIES JobsEnd
CHECK_DEADLOCK FALSE
