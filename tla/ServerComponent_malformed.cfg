SPECIFICATION Spec
CONSTANTS
  Players = {p1}
  MaxOutbox = 4
  Hellos <- OneIdentity
  ServerCapabilities <- DeclaredCapabilities
  RequiredCapabilities <- Phase3Required
  MinimumClientRuntime <- Runtime030
  MaximumAssets = 2
  MaximumFileSize = 4
  MaximumTotalSize = 5
  WordSize = 16
  Lines <- OneAsset
  Reports <- FewReports
INVARIANT MalformedFrameRejects
CHECK_DEADLOCK FALSE
