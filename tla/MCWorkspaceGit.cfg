SPECIFICATION Spec
CONSTANTS
  Sources <- GitOnly
  MaxFiles = 1
  MaxBytes = 1
  MaxDownload = 1
  Sizes <- MCSizes
  MaxRevision = 1
INVARIANTS
  PreparationBounded
