SPECIFICATION FairSpec
CONSTANTS
  Processes = {a, b}
  ExpectedSize = 3
  BufferSize = 2
  TransferTimeout = 1
  CallTimeout = 1
  WordSize = 16
INVARIANTS DeadlineHolds FileIsWhatWasReceived
PROPERTIES RenamedIsVerified AttemptsEnd
