SPECIFICATION MCSpec
CONSTANTS
  a = a
  b = b
  m1 = m1
  m2 = m2
  Names = {a, b}
  MaxTasks = 3
  MaxFailures = 2
  Masters = {m1, m2}
  Scenarios <- AllScenarios
CHECK_DEADLOCK FALSE
INVARIANTS
  AgentInvariant
  RestoreInvariant
  VerdictIsTrue
PROPERTIES
  PendingIsExecuted
  ImplementsContract
