SPECIFICATION Spec
CONSTANTS
  FreeRunning = TRUE
  Unreadable = TRUE
  MaxDelay = 2
  MaxDrift = 1
  MaxEpoch = 4
INVARIANTS
  TypeOK
  EpochsAccounted
  LifetimesDisjoint
