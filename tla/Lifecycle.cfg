SPECIFICATION Spec
CONSTANTS
  r1 = r1
  r2 = r2
  b1 = b1
  b2 = b2
  s1 = s1
  s2 = s2
  Requests <- MCRequests
  Backends <- MCBackends
  Stoppers <- MCStoppers
  MaxSignals = 2
INVARIANTS
  TypeOK
  CleanupAfterDrain
  ListedIsReachable
  OrderlyExit
  CrashNeedsStop
PROPERTIES
  ImplementsServerLife
  InterruptStops
  StopStops
