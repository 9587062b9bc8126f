CONSTANTS
  n1 = n1
  n2 = n2
  k1 = k1
  v1 = v1
  v2 = v2
  NodeNames = {n1, n2}
  IPs <- IPsDef
  Describable <- DescribableDef
  Values = {v1, v2}
  AnyValue = AnyValue
  LabelsOf <- LabelsOfDef
  HasPN = FALSE
  Services <- ServicesDef
  InvalidCIDR = 0
  Everyone = Everyone
  MaxEntriesPerACL = 2
  MaxChanges = 4
SPECIFICATION FairSpec
CHECK_DEADLOCK FALSE
INVARIANTS
  TypeOK
  SyncedExactly
  FollowsNodesAtRest
PROPERTIES
  SyncsComplete
  PoolComplete
