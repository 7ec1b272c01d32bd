SPECIFICATION Spec
CONSTANTS
  Names = {a}
  Terminals = {}
  MaxSessions = 1
  MaxObjects = 1
  MaxTasks = 1
  MaxStarts = 1
  MaxScheduled = 1
  ContextTurns = 1
  Disconnects = FALSE
  None = None
INVARIANT DeletedStaysDeleted
