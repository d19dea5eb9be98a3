SPECIFICATION FairSpec
CONSTANTS
  o1 = o1
  o2 = o2
  n1 = n1
  n2 = n2
  c1 = c1
  c2 = c2
  g1 = g1
  NoOp = NoOp
  Ops = {o1, o2}
  Targets = {g1}
  Nodes = {n1}
  Ctrls = {c1}
  TargetOf <- OneTarget
  Plan <- PlainPlan
  SingleLeader = TRUE
  SameSecond = FALSE
  ClockSync = TRUE
  MaxGen <- NoRetry
  MaxFaults = 1
PROPERTIES
  EveryOperationSettles
  LockIsReleased
