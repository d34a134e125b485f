------------------------- MODULE MC_DiscoveryCache -------------------------
(* Instances p1 (http) and p2 (https) of one service n1; the caller has   *)
(* not registered an http/https service, so DelServiceList picks "http".  *)
EXTENDS DiscoveryCache

CONSTANTS p1, p2, n1

MCIds == {p1, p2}
MCPeerName == [i \in MCIds |-> n1]
MCPeerScheme == (p1 :> "http") @@ (p2 :> "https")
MCPeerSchemeHttp == [i \in MCIds |-> "http"]
MCSchemes == {"http", "https", "grpc"}

(* p1 is tagged region=us; p2 region=us and zone=a. A caller asks for     *)
(* region=us and zone=a together, or passes no Meta.                      *)
MCPeerMeta == (p1 :> {<<"region", "us">>}) @@ (p2 :> {<<"region", "us">>, <<"zone", "a">>})
MCMetas == {Nil, {<<"region", "us">>, <<"zone", "a">>}}
=============================================================================
