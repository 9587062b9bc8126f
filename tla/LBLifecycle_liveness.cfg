CONSTANTS
  LBIds = {lb1, lb2}
  ForeignLBs = {}
  NoLB = NoLB
  StaticIPs = {}
  NoIP = NoIP
  Flexible = Flexible
  ExtValues = {"no"}
  SvcWorker = sw
  NodeSyncs = {ns}
  HasPN = TRUE
  MaxEdits = 1
  MaxFails = 1
  MaxLag = 1
SPECIFICATION FairSpec
CHECK_DEADLOCK FALSE
PROPERTIES
  Settles
  DeletionCompletes
  ImplementsServiceLB
