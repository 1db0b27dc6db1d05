\* Four frames, one of them in a thread that a Proc was started in.  Threads end.
CONSTANTS
  Threads = {main, t2}
  Main = main
  Places = {1, 2, 3, 4}
  MaxFrames = 4
  Room <- MCRoom
  MaxProcs = 1
  None = None
  Iseqs <- MCIseqs
SPECIFICATION Spec
INVARIANTS PointersAreLive ThrowsLand ReturnIsLexical BreakEndsItsCall SuperIsOfTheMethod SpecialsAreOfTheMethod
