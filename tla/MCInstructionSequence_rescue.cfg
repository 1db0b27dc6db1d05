\* A method with a rescue clause.
CONSTANTS
  Iseqs = {1, 2}
  Programs <- RescuePrograms
  MaxWalks = 2
  Null = Null
SPECIFICATION Spec
INVARIANTS RescueLinesToo
\* Profiling stops after MaxWalks methods.
CHECK_DEADLOCK FALSE
