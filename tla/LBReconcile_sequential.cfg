CONSTANTS
  p1 = p1
  p2 = p2
  n1 = n1
  n2 = n2
  c1 = c1
  c2 = c2
  acl = acl
  Ports = {p1, p2, p3}
  NodePorts = {n1, n2}
  Confs = {c1, c2}
  Acls = {NoAcl, acl}
  NoAcl = NoAcl
  Pools = {a, b}
  Specs <- TCPSpecs
  ExtModes = {TRUE, FALSE}
  UniquePorts = FALSE
  MaxId = 5
  SvcWorker = sw
  NodeSyncs = {}
  MaxEdits = 2
  MaxFails = 1
SPECIFICATION FairSpec
CHECK_DEADLOCK FALSE
INVARIANTS
  TypeOK
  SuccessMeansMatch
  MatchesAtRest
  RemovedBackendsUnreferenced
PROPERTIES
  NoOutage
  Converges
