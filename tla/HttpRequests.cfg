SPECIFICATION Spec
CONSTANTS
  q1 = q1
  q2 = q2
  P = P
  U = U
  Param = P
  Undecodable = U
  NoHandler = NoHandler
  Requests = {q1, q2}
  Input <- MCInput
  Chain <- MCChain
  Patterns <- MCPatterns
  Routers <- MCRouters
  Probes <- MCProbes
  Served <- MCServed
  MaxRoutes = 3
  MaxPerWindow = 1
  Window = 2
  MaxClock = 2
  DrainMs = 1
INVARIANTS RoutesFit 
PROPERTIES RefusalsJustified HandlerRunsOnce FirstResponseStands RequestsEnd
