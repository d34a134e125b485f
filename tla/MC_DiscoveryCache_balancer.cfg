\* One caller that Discovers the service and then asks GetService or
\* GetServiceArray for it, with the tags region=us and zone=a or no Meta.
CONSTANTS
  p1 = p1
  p2 = p2
  n1 = n1
  Nil = Nil
  Ids <- MCIds
  PeerName <- MCPeerName
  PeerScheme <- MCPeerScheme
  Schemes <- MCSchemes
  OwnScheme = ""
  Callers = {c1}
  MaxEvents = 4
  MaxDiscovers = 3
  MaxRestarts = 1
  PeerMeta <- MCPeerMeta
  Metas <- MCMetas
  MaxLookups = 1
SPECIFICATION Spec
\* Spec 4.3: a record must carry every tag asked for.
PROPERTY GetServiceMeetsSpec
CHECK_DEADLOCK FALSE
