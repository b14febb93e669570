SPECIFICATION Spec
CONSTANTS
  s1 = s1
  s2 = s2
  n1 = n1
  vm1 = vm1
  vm2 = vm2
  Sources <- MCSources
  Nodes <- MCNodes
  Targets <- MCTargets
  Absent = absent
  Default = default
  Scopes <- MCScopes
  MaxRounds = 2
SYMMETRY TargetSymmetry
INVARIANTS
  TypeOK
  GreedyScopedUnlessDefault
PROPERTIES
  OutsideScopeFrozen
  ExecutionFollowsPlan
