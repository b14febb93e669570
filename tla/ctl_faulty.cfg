SPECIFICATION Spec
CONSTANTS
  e1 = e1
  e2 = e2
  v1 = v1
  v2 = v2
  Entities <- MCEntities
  Values <- MCValues
  Scopes <- MCScopes
  Delays <- MCShort
  ControlEpoch = TRUE
  RequireEnforcement = TRUE
  ScopedPlanners = FALSE
  Refusals = TRUE
  Faults = TRUE
  ShortAdvance = TRUE
  MaxEpoch = 3
  MaxTime = 1
INVARIANTS
  TypeOK
  SameVersionSameContent
  InterventionsAreVersions
  AppliedIsPlanned
  NoEarlyActivation
  EpochSeesCurrent
PROPERTIES
  NoActivationWhileSplit
  ImplementsSafely
