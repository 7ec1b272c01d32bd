SPECIFICATION FairSpec
CONSTANTS
  wx = wx
  alice = alice
  Kinds = {wx}
  Routes = {alice}
  KindOf <- OneChannel
  Ops = {"wipe"}
  Dangerous = {"wipe"}
  Root = {}
  Words <- Dialog
  MaxRequests = 2
  MaxEdits = 1
  MaxFailures = 1
  MaxStarts = 2
  SeenLimit = 3
  QueueLimit = 1
  None = None
INVARIANTS AskedOnce PendingHasWaiter StopIsComplete
PROPERTY ShutdownReturns
CHECK_DEADLOCK FALSE
