CONSTANTS
  LBIds = {lb1, lb2}
  ForeignLBs = {f1}
  NoLB = NoLB
  StaticIPs = {ip1}
  NoIP = NoIP
  Flexible = Flexible
  ExtValues = {"no", "yes"}
  SvcWorker = sw
  NodeSyncs = {ns}
  HasPN = TRUE
  MaxEdits = 1
  MaxFails = 2
  MaxLag = 1
SPECIFICATION Spec
SYMMETRY Symmetry
CHECK_DEADLOCK FALSE
INVARIANTS
  TypeOK
  OwnUnique
  NoLeak
  ForeignSafe
  NoChurn
  ReleasedOnlyIfDropped
  SettledAtRest
