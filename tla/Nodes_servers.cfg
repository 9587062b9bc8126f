CONSTANTS
  n1 = n1
  i1 = i1
  i2 = i2
  b1 = b1
  z1 = z1
  z2 = z2
  p1 = p1
  p2 = p2
  NodeNames = {n1}
  ServerIds = {i1, i2, b1}
  Zones = {z1, z2}
  NoZone = NoZone
  DefaultZone = z1
  ProductOf <- ProductOfDef
  ZoneOf <- ZoneOfDef
  NameOf <- NameOfDef
  PNs = {p1, p2}
  NoPN = NoPN
  pnID = p1
  Nics <- NicsDef
  NicIP <- NicIPDef
  LegacyIP <- LegacyIPDef
  PublicIP <- PublicIPDef
  IPs <- IPsDef
  NoIP = NoIP
  NoPID = NoPID
  BadPID = BadPID
  Labels <- LabelsDef
  PIDForms = {"none", "full", "zoneless"}
  MaxEvents = 1
  MaxJoins = 2
  MaxFails = 1
SPECIFICATION NodesFairSpec
CHECK_DEADLOCK FALSE
INVARIANTS
  NodesTypeOK
PROPERTIES
  NodeKept
  ImplementsNodeLife
  GhostNodesGo
  NodesDescribed
