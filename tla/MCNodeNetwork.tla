--------------------------- MODULE MCNodeNetwork ---------------------------
(* A node and the network: the commands to its event loop and their          *)
(* answers; content that spreads between two nodes on a network that loses   *)
(* nothing; and the disks of two nodes on one that loses whatever it can.    *)
(* A behaviour exercises the part it has chosen, the others keep their       *)
(* initial state.                                                            *)
EXTENDS PeerRequests, Mesh, TLC

CONSTANTS r1, r2, r3, c1, a1, a2, n1, n2

VARIABLE part

\* One node of two holds a content.
OneHolds == n1 :> {a1} @@ n2 :> {}

Reliable == INSTANCE Mesh WITH
        Held <- [n \in {n1, n2} |-> {}], Lossy <- FALSE, MaxItems <- 2, MaxStops <- 1

PartsInit ==
    /\ Init
    /\ \/ part \in {"requests", "lossy"} /\ MInit
       \/ part = "mesh" /\ Reliable!MInit

PartsNext ==
    /\ UNCHANGED part
    /\ \/ part = "requests" /\ Next /\ UNCHANGED meshVars
       \/ part = "mesh" /\ Reliable!MNext /\ UNCHANGED vars
       \/ part = "lossy" /\ MNext /\ UNCHANGED vars

\* The fairness of the parts' own specifications.
PartsFairness ==
    /\ WF_vars(part = "requests" /\ \E r \in Request : Handle(r))
    /\ \A r \in Request : /\ WF_vars(part = "requests" /\ Settled(r))
                          /\ WF_vars(part = "requests" /\ QueryEnd(r))
    /\ WF_vars(part = "requests" /\ Cleanup)
    /\ \A n \in Node :
          /\ WF_meshVars(part = "mesh" /\ Reliable!RequestStep(n))
          /\ WF_meshVars(part = "mesh" /\ Reliable!CycleStep(n))

PartsSpec == PartsInit /\ [][PartsNext]_<<part, vars, meshVars>> /\ PartsFairness

ContentSpreads == part = "mesh" => Reliable!Spreads
=============================================================================
