SPECIFICATION FairSpec
CONSTANTS
  Sources <- AllSources
  MaxFiles = 2
  MaxBytes = 3
  MaxDownload = 3
  Sizes <- MCSizes
  MaxRevision = 3
INVARIANTS
  TypeOK
  StagedWithinLimits
  PreparedIsPinned
PROPERTIES
  PreparationEnds
