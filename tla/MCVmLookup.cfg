\* A version that comes around after three changes; two bodies, one of a singleton class.
\* With all contexts entered and no file left to load, names may come to an end.
CONSTANTS
  Fixnum = Fixnum
  String = String
  Object = Object
  A = A
  Address = Address
  Module = Module
  Objects = {o1, o2}
  Names = {x, y}
  X = x
  Embedded = 1
  Versions = 3
  None = None
  Bodies = {"M", "S"}
  Singletons = {"S"}
  TopClass = "Object"
  Kernel = "Kernel"
  Ancestors <- MCAncestors
  MaxEntries = 3
  MaxContexts = 3
  MaxNesting = 4
  Nil = Nil
SPECIFICATION Spec
INVARIANTS EqCallsTheMethod IvarsAreOwn NamesAreLexical
