SPECIFICATION FairSpec
CONSTANTS
  MaximumAssets = 2
  MaximumFileSize = 4
  MaximumTotalSize = 5
  WordSize = 16
  Contents = {"dff", "txd"}
  TrueSize <- TwoSizes
  Faults = {"disk", "memory"}
  MaxGeneration = 2
  Messages <- EitherServer
INVARIANTS NoStaleReport PendingIsHeld ReadyIsCached
PROPERTIES OnlyVerifiedCommits CommittedAvoidsRequest WorkerExits ImplementsVerdicts
CHECK_DEADLOCK FALSE
