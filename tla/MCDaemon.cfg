SPECIFICATION RecoverySpec
CONSTANTS
  k1 = k1
  k2 = k2
  Keys <- MCKeys
  Reissued <- MCReissued
  MaxLeases = 3
  Concurrency = 2
  CompletionAttempts = 2
INVARIANTS TypeOK PermitsConserved OutboxMatchesPlane
PROPERTIES KeepsOutboxContract ShutdownDrains PendingRecovered
