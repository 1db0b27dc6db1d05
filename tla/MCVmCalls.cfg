\* Up to two parameters of each kind, three classes.  A call that has been made is made.
CONSTANTS
  MaxParams = 2
  MaxArgs = 7
  ManyArgs = 7
  Depth = 3
  SafeLevel = 0
  None = None
  Calls <- MCCalls
SPECIFICATION Spec
INVARIANTS CallBindsAsDeclared BlockBindsCutAndFilled CCodeGetsArguments AssignmentTakesApart
INVARIANTS RunsWhatWasAsked StackIsBalanced BlockReachesTheBody
PROPERTIES DispatchEnds
\* A call that has been made is over.
CHECK_DEADLOCK FALSE
