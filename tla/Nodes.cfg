SPECIFICATION MCSpec
CONSTANTS
  n1 = n1
  n2 = n2
  n3 = n3
  c1 = c1
  c2 = c2
  None = None
  Nodes = {n1}
  Machines = {n1, n2, n3}
  Scenarios <- ImportScenarios
  Clusters = {c1, c2}
  Owner = c1
  Kinds = {"create", "add", "remove", "delete", "disable"}
  MaxRequests = 3
  MaxCollisions = 1
INVARIANT
  TypesOK
PROPERTIES
  LabelsSettle
  LabelsNotStolen
  KeepsConsistent
  DrainsOnlyLeavers
