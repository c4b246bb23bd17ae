SPECIFICATION HealthSpec
CONSTANTS
  r1 = r1
  r2 = r2
  r3 = r3
  Requests <- MCThree
  MaxPolled = 2
  Messages <- MCFewMessages
  Settings <- MCStrict
  Backends <- MCBackends
  Hooked <- MCHooked
  Chosen <- MCFewChosen
SYMMETRY Symmetric
INVARIANTS
  TypeOK
  ActiveIsOpen
  CountersExact
  AtMostOnce
PROPERTY
  AnswerBounded
