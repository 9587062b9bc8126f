CONSTANTS
  LBIds = {lb1, lb2, lb3}
  ForeignLBs = {}
  NoLB = NoLB
  StaticIPs = {ip1}
  NoIP = NoIP
  Flexible = Flexible
  ExtValues = {"no"}
  SvcWorker = sw
  NodeSyncs = {}
  HasPN = TRUE
  MaxEdits = 1
  MaxFails = 1
  MaxLag = 2
SPECIFICATION Spec
SYMMETRY Symmetry
CHECK_DEADLOCK FALSE
INVARIANT
  EphemeralIPReleased
