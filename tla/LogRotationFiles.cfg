SPECIFICATION Spec
CONSTANTS
  Settings <- NotEastByDay
  Ticks <- Short
  Grace = 2
  Late = 1
  MaxTime = 10
  MaxLines = 2
INVARIANTS
  TypeOK
  LinesKept
  LinesFiled
  RotatedOncePerDay
