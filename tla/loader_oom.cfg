SPECIFICATION Spec
CONSTANTS
  FieldSeq <- TwoSeq
  Kind <- MCKind
  Home <- MCHome
  Name <- MCName
  Default <- MCDefault
  EnvFields = {"name", "port", "nodes", "alias"}
  Required = {"name"}
  RequiredIf <- MCRequiredIf
  RowKey = "host"
  RowDefault = "none"
  RowRequired = TRUE
  Root = "root"
  Other = "other"
  Text <- MCText
  Numeric = {"7", "8"}
  Parts <- MCParts
  TrueTexts = {"true"}
  Yes = "yes"
  Bad = {"b", "7"}
  Hook <- MCHook
  FlagText = "--flag"
  None = "none"
  Cfgs = {"c1"}
  Requests <- OomRequests
  MaxCalls = 3
  OomBudget = 2
  Reload = TRUE
CHECK_DEADLOCK FALSE
INVARIANT ZeroedPointsIntoPool
PROPERTY LostNotStale
