SPECIFICATION FairSpec
CONSTANTS
  Procs = {p1}
  Tasks = {t1}
  p1 = p1
  p2 = p2
  t1 = t1
  t2 = t2
  Owner <- OneTask
  MaxStarted = 0
  MaxJobs = 1
  None = None
PROPERTIES CommandEnds
CHECK_DEADLOCK FALSE
