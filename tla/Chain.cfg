SPECIFICATION Spec
CONSTANTS
  o1 = o1
  o2 = o2
  n1 = n1
  n2 = n2
  c1 = c1
  c2 = c2
  g1 = g1
  NoOp = NoOp
  Ops = {o1}
  Targets = {g1}
  Nodes = {n1, n2}
  Ctrls = {c1}
  TargetOf <- OneTarget
  Plan <- ChainPlan
  SingleLeader = TRUE
  SameSecond = FALSE
  ClockSync = TRUE
  MaxGen <- OneRetryOfO1
  MaxFaults = 1
INVARIANTS
  StepBarrier
  AttemptsInSequence
  AttemptBudget
  InvalidFactsOnlyForMissingOutput
  SuccessIffComplete
  TerminalIsQuiescent
