SPECIFICATION Spec
CONSTANTS
  TotalEpisodes = 4
  EpisodeLen = 3
  Capacity = 4
  Rewards = {0, 1}
  Values = {0, 1}
  Setups <- MCSetups
INVARIANTS
  TypeOK
  ReplayIsWindow
  OnPolicyRollout
  ContextIsWindow
  ReturnsAreTargets
  EpochsUseEachStepOnce
  CountersFollowCadence
PROPERTIES
  TrainingEnds
CHECK_DEADLOCK FALSE
