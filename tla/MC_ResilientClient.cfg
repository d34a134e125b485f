\* One request goroutine making two calls to n1 while p1 and p2 register,
\* re-put and deregister; the application may Discover on its own once.
CONSTANTS
  p1 = p1
  p2 = p2
  n1 = n1
  Nil = Nil
  Ids <- MCIds
  PeerName <- MCPeerName
  PeerScheme <- MCPeerScheme
  Schemes <- MCSchemes
  OwnScheme = ""
  Callers = {c1}
  MaxEvents = 3
  MaxDiscovers = 1
  MaxRestarts = 1
  PeerMeta <- MCPeerMeta
  Metas = {}
  MaxLookups = 0
  Target = n1
  RetryCount = 2
  RetryDelay = 1
  Codes = {0, 200, 408}
  RawJitters = {5}
  HasVerify = FALSE
  MaxCalls = 2
SPECIFICATION ClientSpec
INVARIANTS ClientTypeOK
 
\* The process may sit idle: no call, no event.
CHECK_DEADLOCK FALSE
