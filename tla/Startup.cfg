SPECIFICATION MCSpec
CONSTANTS
  Names = {"a", "b"}
  Late = {"c"}
  MaxCalls = 2
  Files <- MCFiles
  Centrals <- MCCentrals
  Confs <- MCConfs
  Auths <- MCAuths
  Second = 2
  Half = 5
  Resolution = 2
  MaxNow = 4
  MaxTokens = 2
  Structs <- MCStructs
  Graphs <- MCGraphs
  Endpoints <- MCEndpoints
  MaxEndpoints = 2
  MaxAsked = 2
INVARIANTS
  TypeOK RoutesComplete ClientsAccounted PartsAgree
  TokensTrue AcceptedInTime TypesDescribed AllOrNothing
