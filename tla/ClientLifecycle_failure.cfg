SPECIFICATION Spec
CONSTANTS
  Builds = {"Unknown", "NoTransport", "Supported"}
  MaxAttempts = 2
  ProtectFailures = {}
INVARIANTS FailureDisables
CHECK_DEADLOCK FALSE
