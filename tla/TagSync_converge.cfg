CONSTANTS
  x = x
  v1 = v1
  v2 = v2
  Names = {x}
  Values = {v1, v2}
  NoValue = NoValue
  Exclude = Exclude
  Managed = v2
  Queue = q
  Periodic = p
  Kinds = {"node", "service"}
  TagLists <- SomeTagLists
  OtherKeys <- PlainX
  MaxRetries = 1
  MaxEdits = 1
  MaxFails = 2
  MaxLag = 2
SPECIFICATION FairSpec
INVARIANT
  TypeOK
PROPERTIES
  OthersLabelsKept
  PatchSyncs
  TagsConverge
