SPECIFICATION FairSpec
CONSTANTS
  Alpha = {"a", "n"}
  Digit = {"0"}
  Space = {" ", "nl"}
  Single = {"{"}
  Keyword <- MCKeyword
  Width = 16
  Sources <- MCSources
CHECK_DEADLOCK FALSE
INVARIANT TokensAreTheSource
PROPERTY LexReturns
