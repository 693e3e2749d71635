SPECIFICATION Spec
CONSTANTS
  Kinds <- Workflow
  ServiceCount = 0
  DockerFaults = FALSE
  JournalFaults = FALSE
  CleanupWhen = "never"
  MaxCleanups = 0
INVARIANTS
  RequiredIsPublished
