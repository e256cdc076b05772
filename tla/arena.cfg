SPECIFICATION FairSpec
CONSTANTS
  SizeMax = 1023
  MallocMax = 300
  DefaultCapacity = 64
  Capacities <- MCCapacities
  Sizes <- MCSizes
  MaxBlocks = 4
  MaxGiven = 5
CHECK_DEADLOCK FALSE
INVARIANTS
  InBlock
  Disjoint
  HeapIsList
PROPERTIES
  AllocReturns
