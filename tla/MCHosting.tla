----------------------------- MODULE MCHosting -----------------------------
(* How a gateway hosts projects: the processes of dynamic deployments, and   *)
(* what a build does, once with a cache that two builds share and once with  *)
(* commands that print.  The parts share no state; a behaviour exercises the *)
(* part it has chosen.                                                       *)
EXTENDS ProcessManager, Builds, TLC

CONSTANTS t1, t2, c1, c2, c3, b1, b2, b3, k1, k2, k3, p1, p2

VARIABLE part

\* Two builds that stream, at a time, of projects with any lockfiles (b3 is left
\* idle, see PartsNext).
Locked == [package : {TRUE}, script : {TRUE}, command : {FALSE}, key : {k1, k2, k3}]
Oldest == <<k1>>

\* One build at a time: one that streams, one that does not, and one that does
\* not and whose commands do not end.
Plain == [package : BOOLEAN, script : {TRUE}, command : {TRUE}, key : {k1, Absent}]
           \cup [package : {TRUE}, script : {FALSE}, command : {FALSE}, key : {k1}]
Cm == INSTANCE Builds WITH
        Build <- {b1, b2, b3}, Key <- {k1, k2, k3}, Pkg <- {p1, p2}, Project <- Plain,
        Streaming <- {b1}, Slow <- {b3}, Heirs <- BOOLEAN, Output <- 2, PipeSize <- 1,
        Limit <- 3, Cached <- <<>>, Rivals <- 1

PartsInit ==
    /\ part \in {"processes", "cache", "commands"} /\ Init
    /\ IF part = "cache" THEN BuildsInit ELSE Cm!BuildsInit

PartsNext ==
    /\ UNCHANGED part
    /\ \/ part = "processes" /\ Next /\ UNCHANGED buildVars
       \/ part = "cache" /\ (BuildsStep(b1) \/ BuildsStep(b2)) /\ UNCHANGED vars
       \/ part = "commands" /\ Cm!BuildsNext /\ UNCHANGED vars

\* The fairness of ProcessManager, and that a build and its command go on.
PartsFairness ==
    /\ \A t \in Task : /\ WF_vars(part = "processes" /\ Step(t))
                       /\ SF_vars(part = "processes" /\ Deadline(t))
    /\ \A b \in {b1, b2, b3} : WF_buildVars(part = "commands" /\ Cm!BuildsStep(b))

PartsSpec == PartsInit /\ [][PartsNext]_<<part, vars, buildVars>> /\ PartsFairness

CommandsEnd == part = "commands" => Cm!BuildsEnd
=============================================================================
