------------------------- MODULE MCGatewayRequests -------------------------
(* Builds with the streams that watch them, and requests for content: two   *)
(* parts of the gateway that share no state, side by side.  A behaviour     *)
(* exercises the part it has chosen.                                        *)
EXTENDS BuildSessions, ContentPath, TLC

CONSTANTS r2, n1, n2

VARIABLE part

\* One name stands for itself.
RecordOf == n1 :> n1 @@ n2 :> r2

PartsInit == part \in {"builds", "content"} /\ Init /\ CInit

PartsNext ==
    \/ part = "builds" /\ Next /\ UNCHANGED <<part, cvars>>
    \/ part = "content" /\ CNext /\ UNCHANGED <<part, vars>>

\* The fairness of BuildSessions, and that every source of content answers or
\* times out.
PartsFairness ==
    /\ \A b \in Build : /\ SF_vars(part = "builds" /\ Acquire(b))
                        /\ WF_vars(part = "builds" /\ BuildStep(b))
                        /\ WF_vars(part = "builds" /\ Expire(b))
    /\ \A w \in Watcher : WF_vars(part = "builds" /\ StreamStep(w))
    /\ \A q \in Request : WF_cvars(part = "content" /\ Serving(q))

PartsSpec == PartsInit /\ [][PartsNext]_<<part, vars, cvars>> /\ PartsFairness
=============================================================================
