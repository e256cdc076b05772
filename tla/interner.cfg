SPECIFICATION Spec
CONSTANTS
  FirstCapacity = 1
  Slice = {"a", "b", "c"}
  Meta = {"x", "y"}
  NULL = NULL
  MaxResults = 5
  OomBudget = 2
INVARIANTS
  FiledUnderItsName
  DenseOrder
  ListedIsFound
  IndexWithoutPushFailure
PROPERTIES
  Stable
