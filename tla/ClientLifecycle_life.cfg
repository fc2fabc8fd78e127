SPECIFICATION FairSpec
CONSTANTS
  Builds = {"Unknown", "NoTransport", "Supported"}
  MaxAttempts = 3
  ProtectFailures = {"Install", "Reprotect", "Restore"}
INVARIANTS HookIsWhole AllOrNothing PointersOutliveHook
PROPERTIES InitializationEnds ForeignHookKept ShutdownIsFinal
CHECK_DEADLOCK FALSE
