SPECIFICATION FairSpec
CONSTANTS
  FirstCapacity = 1
  Numeral <- MCNumeral
  IntMax = 127
  Inputs <- MCInputs
CHECK_DEADLOCK FALSE
INVARIANTS
  AcceptedIsTheText
  ErrorIsFirstOffence
  TokensInReach
PROPERTY ParseReturns
