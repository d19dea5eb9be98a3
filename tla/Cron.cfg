SPECIFICATION MCSpec
CONSTANTS
  MaxBackupNum = 1
  MaxTime = 2
  Scenarios <- AllScenarios
  Days <- TwoYears
CHECK_DEADLOCK FALSE
INVARIANTS
  CronInvariant
PROPERTIES
  DueIsServed
  KeepsNewest
