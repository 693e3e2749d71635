SPECIFICATION Spec
CONSTANTS
  r1 = r1
  r2 = r2
  Runs <- MCRuns
  Documents <- MCDocuments
  MaxAttempt = 3
  MaxCommits = 1
  EarlierRows <- MCEarlier
  AllowNetwork = FALSE
  AllowedEnvironment <- MCAllowed
  MaxMemory = 8
  MaxTimeout = 60
SYMMETRY RunSymmetry
INVARIANTS
  TypeOK
  PublishedIsPushed
  DerivedStaysOut
  OwnDirectory
  TraceIsAdmitted
