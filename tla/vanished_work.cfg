SPECIFICATION Spec
CONSTANTS
  l1 = l1
  l2 = l2
  Leos <- MCLeos
  Neighbours <- MCNeighbours
  Visible <- MCVisible
  Lifetime <- MCLifetime
  Transit <- MCTransit
  TxPace <- MCTxPace
  CpuPace <- MCCpuPace
  Margin = 1
  Arrivals = {0, 2}
  Capacities = {1}
  QueueCap = 3
  EpisodeLen = 2
  MaxEpisodes = 1
  Setups <- MCPhysical
INVARIANTS
  WorkKept
CHECK_DEADLOCK FALSE
