SPECIFICATION FairSpec
CONSTANTS
  r1 = r1
  r2 = r2
  Commands = {"ls"}
  Outcomes = {r1, r2}
  Kinds = {"invalid", "read", "diagnostic", "operation", "background", "trace"}
  MaxCalls = 3
  AgentSteps = 3
  HardSteps = 2
  MaxToolCalls = 3
  SameRetries = 2
  ReplanAfter = 1
  AbortAfter = 2
  QueueLimit = 1
  None = None
INVARIANTS RoundsArePaired StatsMatchTranscript CancelStops RepeatsAreBounded ModelSeesEverything
PROPERTIES CancelEnds TimeLimitEnds
CHECK_DEADLOCK FALSE
