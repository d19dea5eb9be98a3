SPECIFICATION FairSpec
CONSTANTS
  o1 = o1
  o2 = o2
  o3 = o3
  b1 = b1
  b2 = b2
  g1 = g1
  Ops = {o1, o2, o3}
  Targets = {g1}
  TargetOf <- OneTarget
  Backup = {b1, b2}
  Scenarios <- AllScenarios
INVARIANTS
  BackupInvariant
PROPERTIES
  TransientSettles
  GoneWithCluster
