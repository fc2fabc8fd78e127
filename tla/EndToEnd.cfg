SPECIFICATION FairSystemSpec
CONSTANTS
  Players = {p1}
  Me = p1
  MaxOutbox = 5
  Hellos <- OneHello
  Identity <- Supported
  ServerCapabilities <- Phase3Required
  RequiredCapabilities <- Phase3Required
  MinimumClientRuntime <- Runtime030
  MaximumAssets = 2
  MaximumFileSize = 4
  MaximumTotalSize = 5
  WordSize = 16
  Lines <- TwoAssets
  Catalogue <- TwoAssets
  Reports = {}
INVARIANTS BothSidesAgree RecordsAreTrue ManifestNeverRefused
PROPERTIES HelloIsAnswered EveryAssetIsReported
CHECK_DEADLOCK FALSE
