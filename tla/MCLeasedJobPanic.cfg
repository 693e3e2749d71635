SPECIFICATION Spec
CONSTANTS
  LogQueueCapacity = 1
  LogUploadAttempts = 2
  HeartbeatFailureLimit = 2
  CompletionAttempts = 2
  MaxChunks = 1
  DecisionBody = "string"
  JournalFaults = FALSE
INVARIANT ResultRecorded
