---------------------------- MODULE MCNodeParts ----------------------------
(* Parts of a node and the loop of a gateway, which share no state, side by *)
(* side for their safety: a behaviour exercises the part it has chosen, the *)
(* others keep their initial state.                                         *)
EXTENDS NodeStorageCrash, Circuits, GatewayLoop, CellRouting, Bridge,
        AdaptiveRouting, TLC

CONSTANTS t1, a, b, f, g, c1, c2, p1, p2, p3, p4, p5, me, r1, r2, cx, n1, none,
          g1, g2, g3, d1, d2

VARIABLE part

TwoManifests == a :> <<f>> @@ b :> <<g>>
TwoSizes     == f :> 1 @@ g :> 2
DeclaredTwo  == a :> 1 @@ b :> 2

Hop(c, i) == IF i = 1 THEN p1 ELSE p2

RegionOf(p) == IF p = p2 THEN p1 ELSE p
TwoOrders == {<<p1, p2, p3, p4, p5>>, <<p5, p3, p4, p2, p1>>}

PartsInit == /\ part \in {"storage", "circuits", "routing", "loop", "cells", "bridge"}
             /\ CrashInit /\ ZInit /\ AInit /\ GInit /\ RInit /\ BridgeInit
             /\ part # "circuits" => skew = 0
             /\ part # "routing" => relays = {p1, p2, p3, p4, p5}
             /\ part # "loop" => key = [r \in {r1, r2} |-> cx]

PartsNext ==
    /\ UNCHANGED part
    /\ \/ /\ part = "storage" /\ CrashNext
          /\ UNCHANGED <<zvars, avars, gvars, rvars, bridgeVars>>
       \/ /\ part = "circuits" /\ ZNext
          /\ UNCHANGED <<crashVars, avars, gvars, rvars, bridgeVars>>
       \/ /\ part = "routing" /\ ANext
          /\ UNCHANGED <<crashVars, zvars, gvars, rvars, bridgeVars>>
       \/ /\ part = "loop" /\ GNext
          /\ UNCHANGED <<crashVars, zvars, avars, rvars, bridgeVars>>
       \/ /\ part = "cells" /\ RNext
          /\ UNCHANGED <<crashVars, zvars, avars, gvars, bridgeVars>>
       \/ /\ part = "bridge" /\ BridgeNext
          /\ UNCHANGED <<crashVars, zvars, avars, gvars, rvars>>

PartsSpec ==
    PartsInit /\ [][PartsNext]_<<part, crashVars, zvars, avars, gvars, rvars, bridgeVars>>
=============================================================================
