----------------------------- MODULE MCRouting -----------------------------
(* Two nodes; of the actors 1, 2, 3 the second lives on the first node. *)
EXTENDS Routing, TLC

CONSTANTS n1, n2, role, gateway

TwoNodes == {n1, n2}
ThreeGuids == {1, 2, 3}
TwoTypes == {role, gateway}
HomeOf == 1 :> n2 @@ 2 :> n1 @@ 3 :> n2
Roles == 1 :> role @@ 2 :> role @@ 3 :> gateway
=============================================================================
