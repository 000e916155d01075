------------------------- MODULE MCAdaptiveRouting -------------------------
(* AdaptiveRouting for TLC.                                                *)
EXTENDS AdaptiveRouting

CONSTANTS p1, p2, p3, p4, p5

ThreeOrders == {<<p1, p2, p3, p4, p5>>, <<p2, p4, p1, p5, p3>>, <<p5, p3, p4, p2, p1>>}
RegionOf(p) == IF p = p2 THEN p1 ELSE p

\* A caller goes on with its call.
Spec == AInit /\ [][ANext]_avars /\ WF_avars(Returning)
=============================================================================
