SPECIFICATION FairSpec
CONSTANTS
  MaximumConsumed = 2
  MaxInbox = 4
INVARIANTS TypeOK HelloFollowsFirstPacket OneHelloPerConnection
PROPERTIES ConnectionIsAnnounced EndIsAnnounced
