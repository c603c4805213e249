------------------------------ MODULE MCGateway ------------------------------
(***************************************************************************)
(* Instances of the gateway for TLC.                                       *)
(***************************************************************************)
EXTENDS GatewayProperties, TLC

CONSTANTS m1, m2, m3, prov1, prov2, prov3

\* One model with a fallback.
RouteFallback == m1 :> <<prov1, prov2>>

\* Two models on the same primary, one of them listing it as a fallback too.
RouteShared == (m1 :> <<prov1, prov2>>) @@ (m2 :> <<prov1, prov1>>)

\* One provider.
RouteSingle == m1 :> <<prov1>>

\* A model with a fallback, a model nobody serves, and a provider without a key.
RouteUneven == (m1 :> <<prov1, prov2>>) @@ (m2 :> <<>>) @@ (m3 :> <<prov3>>)

OneEach == [k \in Kinds |-> 1]

RequestSymmetry == Permutations(Requests)
=============================================================================
