SPECIFICATION Spec
CONSTANTS
  r1 = r1
  r2 = r2
  r3 = r3
  Requests = {r1}
  Messages <- MCMessages
  Settings <- MCFlags
  Backends <- MCBackends
  Hooked <- MCHooked
  Chosen <- MCFewChosen
INVARIANT
  FlagGovernsVerification
