SPECIFICATION Spec
CONSTANTS
  Base = 4
  MagicBytes <- Magic
  kRakNetPacketId = 2
  kMaximumPacketSize = 51
  DigestSize = 2
  MaximumNameLength = 3
  MaximumUrlLength = 4
  DeclaredFlags = 32
  Outgoing <- AllMessages
  MaximumAssets = 2
  MaximumFileSize = 4
  MaximumTotalSize = 5
  WordSize = 65536
INVARIANTS RoundTrip Canonical RefusalNamesDamage
CHECK_DEADLOCK FALSE
