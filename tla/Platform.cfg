SPECIFICATION MCSpec
CONSTANTS
  d1 = d1
  d2 = d2
  c1 = c1
  c2 = c2
  w1 = w1
  w2 = w2
  Domains = {d1, d2}
  Clusters = {c1, c2}
  Workers = {w1, w2}
  Scenarios <- AllScenarios
  Grace = 2
  Startup = 1
  Lag = 1
CHECK_DEADLOCK FALSE
INVARIANTS
  HealthInvariant
PROPERTIES
  DomainsSettle
  NoFalseAlarm
  Recovers
