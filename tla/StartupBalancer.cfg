SPECIFICATION MCSpec
CONSTANTS
  Names = {"a", "b"}
  Late = {"c"}
  MaxCalls = 0
  Files <- MCFiles
  Centrals <- MCCentrals
  Confs <- MCConfs
  Auths <- MCAuths
  Second = 2
  Half = 5
  Resolution = 2
  MaxNow = 4
  MaxTokens = 0
  Structs <- MCStructs
  Graphs <- MCGraphs
  Endpoints <- MCEndpoints
  MaxEndpoints = 1
  MaxAsked = 2
INVARIANT BalancerWithConsul
