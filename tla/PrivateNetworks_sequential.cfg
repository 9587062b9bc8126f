CONSTANTS
  pn1 = pn1
  pn2 = pn2
  pn3 = pn3
  i1 = i1
  i2 = i2
  i3 = i3
  PNs = {pn1, pn2, pn3}
  ClusterPN = pn1
  IPs = {i1, i2, i3}
  NetOf <- Nets
  AutoIP = AutoIP
  ExtModes = {TRUE, FALSE}
  Workers = {sw}
  MaxEdits = 1
  MaxFails = 2
SPECIFICATION FairSpec
CHECK_DEADLOCK FALSE
INVARIANTS
  TypeOK
  SuccessMeansAttached
  AttachedAtRest
PROPERTIES
  NoNeedlessCut
  OwnersNetworksUntouched
  AttachmentsConverge
