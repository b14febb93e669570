SPECIFICATION Spec
CONSTANTS
  e1 = e1
  e2 = e2
  v1 = v1
  v2 = v2
  Entities <- MCEntities
  Values <- MCValues
  Scopes <- MCScopes
  Delays <- MCDelays
  ControlEpoch = TRUE
  RequireEnforcement = TRUE
  ScopedPlanners = TRUE
  Refusals = TRUE
  Faults = FALSE
  ShortAdvance = FALSE
  MaxEpoch = 2
  MaxTime = 2
INVARIANT IdleWorldRuns
