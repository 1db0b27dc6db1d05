\* Two threads measuring one file, the clock set back at times, allocations
\* failing, and times that wrap.
CONSTANTS
  Threads = {t1, t2}
  Files = {f}
  MaxLine = 3
  MaxClock = 2
  TimeMod = 5
  ClockSteps = TRUE
  MemoryFails = TRUE
  ExactBound = 2
  Qnil = Qnil
SYMMETRY Symmetry
SPECIFICATION SpecHistory
INVARIANTS TypeOK OnlyLineZeroFaults CachedPrevIsScored TimeIsNotInvented ReportIsExact
PROPERTIES ImplementsLineTimers
