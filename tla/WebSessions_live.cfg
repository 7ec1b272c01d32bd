SPECIFICATION FairSpec
CONSTANTS
  Names = {a}
  Terminals = {t1}
  MaxSessions = 1
  MaxObjects = 1
  MaxTasks = 1
  MaxStarts = 1
  MaxScheduled = 1
  ContextTurns = 1
  Disconnects = TRUE
  None = None
INVARIANTS BusyHasTask DialogHasWaiter
PROPERTIES CancelEndsTask
