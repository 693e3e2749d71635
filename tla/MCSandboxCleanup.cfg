SPECIFICATION Spec
CONSTANTS
  Kinds <- Both
  ServiceCount = 1
  DockerFaults = FALSE
  JournalFaults = FALSE
  CleanupWhen = "any"
  MaxCleanups = 1
PROPERTIES
  CleanupSparesLeased
