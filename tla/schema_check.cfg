SPECIFICATION FairSpec
CONSTANTS
  Nesting = 1
  Name = {"A", "B", "C", "D", "x", "y", "z", "s"}
  Programs <- MCPrograms
CHECK_DEADLOCK FALSE
INVARIANTS
  StackIsOpen
  CheckedOnce
  AcceptedIsEmittable
  WellFormedIsAccepted
  CyclesAreReported
  ExactBottomUp
PROPERTY Finishes
