\* Two threads profile three methods of two files while the report is made.
CONSTANTS
  f = f
  g = g
  a = a
  b = b
  c = c
  d = d
  Threads = {t1, t2}
  Methods = {a, b, c, d}
  Files = {f, g}
  Definition <- FourMethods
  ClassEnds <- OneClass
  SourceLength <- SourceLines
  Unreadable <- OneUnreadable
  ShortMod = 16
  MaxProfiles = 2
  None = None
SPECIFICATION Spec
INVARIANTS TypeOK EventsMeasuredOnce NothingDueForgotten AbortedForCause RangeOfMethod
PROPERTIES SummaryEnds
\* Once the report has ended, the process does.
CHECK_DEADLOCK FALSE
