\* Two methods profiled one after another, whatever they hold.
CONSTANTS
  Iseqs = {1, 2, 3}
  Programs <- OperandPrograms
  MaxWalks = 2
  Null = Null
SPECIFICATION Spec
INVARIANTS TypeOK InjectedThroughout EncodedAgrees OnlyLinesChange
PROPERTIES InjectReturns
\* Profiling stops after MaxWalks methods.
CHECK_DEADLOCK FALSE
