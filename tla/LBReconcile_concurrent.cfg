CONSTANTS
  p1 = p1
  p2 = p2
  n1 = n1
  n2 = n2
  c1 = c1
  c2 = c2
  acl = acl
  Ports = {p1, p2}
  NodePorts = {n1, n2}
  Confs = {c1, c2}
  Acls = {NoAcl, acl}
  NoAcl = NoAcl
  Pools = {a, b}
  Specs <- OnePortSpecs
  ExtModes = {TRUE, FALSE}
  UniquePorts = TRUE
  MaxId = 4
  SvcWorker = sw
  NodeSyncs = {ns}
  MaxEdits = 2
  MaxFails = 0
SPECIFICATION LoneSpec
SYMMETRY PoolSymmetry
CHECK_DEADLOCK FALSE
INVARIANTS
  NoCrossWiring
  LoneCallMatches
PROPERTIES
  OwnersObjectsUntouched
  NoOutage
