SPECIFICATION Spec
CONSTANTS
  Names = {a, b}
  Terminals = {}
  MaxSessions = 1
  MaxObjects = 2
  MaxTasks = 2
  MaxStarts = 2
  MaxScheduled = 1
  ContextTurns = 1
  Disconnects = FALSE
  None = None
INVARIANTS OneTaskPerSession AnswersAreKept
