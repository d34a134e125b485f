\* One caller: Discover called sequentially (startup and the re-Discover of
\* a request), peers registering, re-putting and deregistering, one restart.
CONSTANTS
  p1 = p1
  p2 = p2
  n1 = n1
  Nil = Nil
  Ids <- MCIds
  PeerName <- MCPeerName
  PeerScheme <- MCPeerScheme
  Schemes <- MCSchemes
  OwnScheme = ""
  Callers = {c1}
  MaxEvents = 4
  MaxDiscovers = 3
  MaxRestarts = 1
  PeerMeta <- MCPeerMeta
  Metas <- MCMetas
  MaxLookups = 1
SPECIFICATION Spec
INVARIANTS TypeOK CaughtUpCacheHasLivePeers
PROPERTIES DeleteLeavesNoCopy
\* The process is long-lived but may be quiescent: no call, no event.
CHECK_DEADLOCK FALSE
