SPECIFICATION Spec
CONSTANTS
  r1 = r1
  r2 = r2
  r3 = r3
  Requests <- MCTwo
  Messages <- MCHookedMessages
  Settings <- MCFew
  Backends <- MCBackends
  Hooked <- MCHooked
  Chosen <- MCFewChosen
PROPERTIES
  Answered
  GaugeDrains
  ImplementsApiService
