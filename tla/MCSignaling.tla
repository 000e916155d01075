---------------------------- MODULE MCSignaling ----------------------------
(* Two browsers, one of which connects a second time.                       *)
EXTENDS Signaling, TLC

CONSTANTS peer1, peer2, c1, c2, c3

BrowserOf == c1 :> peer1 @@ c2 :> peer1 @@ c3 :> peer2
Symmetry == Permutations({c1, c2})
=============================================================================
