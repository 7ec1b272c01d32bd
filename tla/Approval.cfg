SPECIFICATION FairSpec
CONSTANTS
  Commands = {"read", "write", "wipe", "su"}
  Effects <- FourEffects
  Granted <- Scope
  Configs <- SomeConfigs
  FullAccess = FALSE
  MaxUses = 1
  MaxRequests = 2
  None = None
  Open = Open
INVARIANTS ReleasedForThis StrongIsConfirmedTwice
PROPERTIES NoAutomaticReleaseAfterCancel CancelStopsTask
