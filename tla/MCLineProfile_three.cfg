\* One thread in methods with an if, with a loop, and with a call within the file.
CONSTANTS
  f = f
  g = g
  h = h
  Threads = {t1}
  Files = {f, g, h}
  MaxLine = 4
  MaxClock = 4
  TimeMod = 16
  ClockSteps = FALSE
  MemoryFails = FALSE
  Qnil = Qnil
  Entries <- ThreeEntries
  Flow <- ThreeFlow
  Calls <- ThreeCalls
  Exits <- ThreeExits
  Raises = FALSE
  MaxDepth = 2
SPECIFICATION SpecProfile
INVARIANTS SomeFileIsExact
