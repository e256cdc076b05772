SPECIFICATION FairSpec
CONSTANTS
  Chars <- MCChars
  Rank <- MCRank
  Patterns <- MCPatterns
  Texts <- MCTexts
CHECK_DEADLOCK FALSE
INVARIANTS
  AcceptedMatches
  DirectIsComplete
  ReadsTheText
PROPERTY MatchReturns
