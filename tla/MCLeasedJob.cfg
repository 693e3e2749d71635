SPECIFICATION Spec
CONSTANTS
  LogQueueCapacity = 1
  LogUploadAttempts = 2
  HeartbeatFailureLimit = 3
  CompletionAttempts = 2
  MaxChunks = 2
  DecisionBody = "string"
  JournalFaults = TRUE
INVARIANTS
  TypeOK
  LogLossReported
  CancellationHasCause
  RefusalCancels
  RenewedThenQuiet
PROPERTIES
  UploadsInOrder
  WorkerEnds
  CancelEndsHeartbeat
  KeepsContract
