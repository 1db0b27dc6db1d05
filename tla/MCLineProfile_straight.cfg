\* Two threads in a straight-line method that calls one of another file.
CONSTANTS
  f = f
  g = g
  h = h
  Threads = {t1, t2}
  Files = {f, g}
  MaxLine = 3
  MaxClock = 3
  TimeMod = 16
  ClockSteps = FALSE
  MemoryFails = FALSE
  Qnil = Qnil
  Entries <- StraightEntries
  Flow <- StraightFlow
  Calls <- StraightCalls
  Exits <- StraightExits
  Raises = TRUE
  MaxDepth = 2
SYMMETRY Symmetry
SPECIFICATION SpecProfile
INVARIANTS NeverOvercharged NeverUndercharged StopwatchRuns
