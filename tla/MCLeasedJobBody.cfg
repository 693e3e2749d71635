SPECIFICATION Spec
CONSTANTS
  LogQueueCapacity = 1
  LogUploadAttempts = 2
  HeartbeatFailureLimit = 3
  CompletionAttempts = 2
  MaxChunks = 1
  DecisionBody = "object"
  JournalFaults = FALSE
INVARIANT CancellationHasCause
