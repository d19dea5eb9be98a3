SPECIFICATION FairSpec
CONSTANTS
  o1 = o1
  o2 = o2
  o3 = o3
  g1 = g1
  Ops = {o1, o2, o3}
  Targets = {g1}
  TargetOf <- OneTarget
  Scenarios <- AllScenarios
INVARIANTS
  ClusterInvariant
PROPERTIES
  PurgesOnlyChecked
  DeletionCompletes
  WorkingPhaseSettles
  PendingIsStarted
