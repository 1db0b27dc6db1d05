\* Two threads, a file loaded twice.  The process may have crashed: see fault.
CONSTANTS
  t1 = t1
  t2 = t2
  p1 = p1
  s1 = s1
  s2 = s2
  Threads = {t1, t2}
  Paths = {p1}
  Strings = {s1, s2}
  PathOf <- MCPathOf
  MaxEvents = 3
  Qnil = Qnil
SPECIFICATION Spec
INVARIANTS DanglingKeyIsUnregistered ScoresAreFound
\* A memory fault ends the process.
CHECK_DEADLOCK FALSE
