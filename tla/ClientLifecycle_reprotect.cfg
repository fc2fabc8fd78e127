SPECIFICATION Spec
CONSTANTS
  Builds = {"Unknown", "NoTransport", "Supported"}
  MaxAttempts = 2
  ProtectFailures = {"Reprotect"}
INVARIANTS ChainedHookKeepsPointers
CHECK_DEADLOCK FALSE
