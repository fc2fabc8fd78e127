SPECIFICATION Spec
CONSTANTS
  Players = {p1}
  MaxOutbox = 7
  Hellos <- AllHellos
  ServerCapabilities <- DeclaredCapabilities
  RequiredCapabilities <- Phase3Required
  MinimumClientRuntime <- Runtime030
  MaximumAssets = 2
  MaximumFileSize = 4
  MaximumTotalSize = 5
  WordSize = 16
  Lines <- TwoAssetsAndBadLine
  Reports <- MixedReports
INVARIANTS TypeOK OneManifestPerConnection ManifestFollowsWelcome RejectIsFinal
           OneIdentityPerConnection ReportsAddUp SessionFollowsHandshake
CHECK_DEADLOCK FALSE
