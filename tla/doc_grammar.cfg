SPECIFICATION Spec
CONSTANTS
  FirstCapacity = 1
  Numeral <- MCNumeral
  IntMax = 127
  Inputs <- MCInputs
CHECK_DEADLOCK FALSE
INVARIANT InTheGrammar
