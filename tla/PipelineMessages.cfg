SPECIFICATION Spec
CONSTANTS
  r1 = r1
  r2 = r2
  r3 = r3
  Requests = {r1}
  Messages <- MCMessages
  Settings <- MCSettings
  Backends <- MCBackends
  Hooked <- MCHooked
  Chosen <- MCChosen
INVARIANTS
  Gate
  TruthfulAnswer
  SignCovers
