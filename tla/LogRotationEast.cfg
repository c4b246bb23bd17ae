SPECIFICATION Spec
CONSTANTS
  Settings <- EastByDay
  Ticks <- Short
  Grace = 2
  Late = 1
  MaxTime = 10
  MaxLines = 2
INVARIANTS
  RotatedOncePerDay
