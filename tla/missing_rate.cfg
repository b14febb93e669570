SPECIFICATION Spec
CONSTANTS
  Entities <- MCEntities
  Monitors <- MCMonitors
  Settings <- MCSettings
  Planners <- MCPlanners
  Horizon = 4
  Stall = 1000
  MaxEpochs = 2
  None = none
  NaN = nan
INVARIANT InterventionsPay
CHECK_DEADLOCK FALSE
