------------------------ MODULE MC_ResilientClient ------------------------
(* Two http instances p1 and p2 of the target service n1.                 *)
EXTENDS ResilientClient

CONSTANTS p1, p2, n1

MCIds == {p1, p2}
MCPeerName == [i \in MCIds |-> n1]
MCPeerScheme == [i \in MCIds |-> "http"]
MCSchemes == {"http", "https", "grpc"}

(* The client passes no Meta; GetService is not called in this model.     *)
MCPeerMeta == [i \in MCIds |-> {}]
=============================================================================
