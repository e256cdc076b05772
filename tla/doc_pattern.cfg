SPECIFICATION Spec
CONSTANTS
  Chars <- MCChars
  Rank <- MCRank
  Patterns <- MCPatterns
  Texts <- MCTexts
CHECK_DEADLOCK FALSE
INVARIANT StarIsZeroOrMore
