SPECIFICATION FairSpec
CONSTANTS
  Kinds <- Both
  ServiceCount = 2
  DockerFaults = TRUE
  JournalFaults = TRUE
  CleanupWhen = "quiet"
  MaxCleanups = 2
INVARIANTS
  TypeOK
  OkLeavesNothing
  CleanupDoneIsClean
  DestroyedIsGone
  CompletedIsEarned
PROPERTIES
  LifecycleForward
  RunEnds
