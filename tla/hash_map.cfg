SPECIFICATION FairSpec
CONSTANTS
  FirstCapacity = 1
  Key = {"k1", "k2", "k3", "k4"}
  Val = {"u", "v"}
  None = "none"
  Hash <- MCHash
  FirstCount = 1
  MaxBuckets = 4
  OomBudget = 2
INVARIANTS
  Findable
  SizeIsCount
  LoadBounded
PROPERTIES
  IsPartialMap
  PutReturns
