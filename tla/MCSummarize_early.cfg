\* A method that returns before its last line.
CONSTANTS
  f = f
  g = g
  a = a
  b = b
  c = c
  d = d
  Threads = {t1}
  Methods = {a}
  Files = {f}
  Definition <- OneMethod
  ClassEnds <- NoClass
  SourceLength <- SourceLines
  Unreadable <- AllReadable
  ShortMod = 16
  MaxProfiles = 1
  None = None
SPECIFICATION Spec
INVARIANTS MeasuredIsReported
\* Once the report has ended, the process does.
CHECK_DEADLOCK FALSE
