CONSTANTS
  x = x
  v1 = v1
  v2 = v2
  Names = {x}
  Values = {v1, v2}
  NoValue = NoValue
  Exclude = Exclude
  Managed = v2
  Queue = q
  Periodic = p
  Kinds = {"node"}
  TagLists <- TaintTagLists
  OtherKeys = {}
  MaxRetries = 1
  MaxEdits = 1
  MaxFails = 0
  MaxLag = 2
SPECIFICATION FairSpec
PROPERTY
  NonPrefixedTaintsKept
