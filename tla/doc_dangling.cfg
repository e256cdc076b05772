SPECIFICATION Spec
CONSTANTS
  FieldSeq <- MCFieldSeq
  Kind <- MCKind
  Home <- MCHome
  Name <- MCName
  Default <- MCDefault
  EnvFields = {"name", "port", "nodes", "net.bind"}
  Required = {"name"}
  RequiredIf <- MCRequiredIf
  RowKey = "host"
  RowDefault = "none"
  RowRequired = TRUE
  Root = "root"
  Other = "other"
  Text <- MCText
  Numeric = {"7", "8"}
  Parts <- MCParts
  TrueTexts = {"true"}
  Yes = "yes"
  Bad = {"b", "7"}
  Hook <- MCHook
  FlagText = "--flag"
  None = "none"
  Cfgs = {"c1"}
  Requests <- SyntaxRequests
  MaxCalls = 2
  OomBudget = 0
  Reload = FALSE
CHECK_DEADLOCK FALSE
INVARIANT NothingDangles
