\* One caller: Discover called sequentially (startup and the re-Discover of
\* a request), peers registering, re-putting and deregistering, one restart.
CONSTANTS
  p1 = p1
  p2 = p2
  n1 = n1
  Nil = Nil
  Ids <- MCIds
  PeerName <- MCPeerName
  PeerScheme <- MCPeerScheme
  Schemes <- MCSchemes
  OwnScheme = ""
  Callers = {c1}
  MaxEvents = 4
  MaxDiscovers = 3
  MaxRestarts = 1
  PeerMeta <- MCPeerMeta
  Metas <- MCMetas
  MaxLookups = 0
SPECIFICATION Spec
\* A DELETE for a service name the cache has never seen. No GetService call:
\* its own panic (rand.Intn(0)) would end the process as well.
INVARIANT WatcherNeverPanics
CHECK_DEADLOCK FALSE
