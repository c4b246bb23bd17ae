SPECIFICATION Spec
CONSTANTS
  r1 = r1
  r2 = r2
  r3 = r3
  Requests = {r1}
  Messages <- MCMessages
  Settings <- MCNoAuth
  Backends <- MCBackends
  Hooked <- MCHooked
  Chosen <- MCFewChosen
INVARIANT
  AuthorizationOptional
