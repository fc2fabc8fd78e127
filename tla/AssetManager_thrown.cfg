SPECIFICATION CleanSpec
CONSTANTS
  MaximumAssets = 2
  MaximumFileSize = 4
  MaximumTotalSize = 5
  WordSize = 16
  Contents = {"dff"}
  TrueSize <- TwoSizes
  Faults = {"memory"}
  MaxGeneration = 3
  Messages <- SharedContent
PROPERTY FailureRemovesTemporary
CHECK_DEADLOCK FALSE
