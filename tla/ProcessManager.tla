--------------------------- MODULE ProcessManager ---------------------------
(***************************************************************************)
(* The manager of the gateway's dynamic deployments                        *)
(* (gateway/src/process_manager.rs): one server process per deployment,    *)
(* each on a port of its own.  Deploys, restart requests, the health loop  *)
(* and the shutdown work on the same map, without a lock that spans more   *)
(* than one access; between two accesses they wait for a port to answer or *)
(* for a process to end.                                                   *)
(*                                                                         *)
(* Abstracted: time (a deadline may have passed whenever it is looked at), *)
(* how many probes have failed in a row and how often a process has been   *)
(* restarted (a failed probe may or may not have consequences), the memory *)
(* of a process (it may be over the limit).  A process that is dropped is  *)
(* killed (kill_on_drop).                                                  *)
(***************************************************************************)
EXTENDS Naturals, FiniteSets, FiniteSetsExt

CONSTANTS
    Task,           \* requests that can be in progress at once
    Cid,            \* deployments
    Ports,          \* how many ports there are
    MaxProcesses,   \* max_processes
    Refusals,       \* whether a start command may be refused or fail
    OnePerCid,      \* whether one request at a time works on a deployment,
                    \* which nothing in the code ensures
    None,           \* no process
    MaxRequests     \* bound: requests started in a behaviour

ASSUME TaskAssumption == IsFiniteSet(Task) /\ Task # {}
ASSUME CidAssumption == IsFiniteSet(Cid) /\ Cid # {}
ASSUME LimitAssumption == MaxProcesses \in Nat /\ Ports \in Nat
ASSUME RequestsAssumption == MaxRequests \in Nat

Port == 1..Ports

VARIABLES
    entry,          \* processes: Cid -> the process of a deployment, or None
    allocated,      \* the ports the allocator has given out
    pc,             \* the next step of each task, "idle" when it has none
    op,             \* what a task was started for
    cid,            \* the deployment it works on
    port,           \* the port it has allocated or read
    victim,         \* the process it has taken out of the map to stop it
    next,           \* what follows when it is stopped
    requests        \* requests started so far

locals == <<op, cid, port, victim, next>>
vars   == <<entry, allocated, pc, locals, requests>>

Process == [port : Port, os : {"booting", "listening", "exited"},
            health : {"starting", "healthy", "unhealthy"}]

ASSUME NoneAssumption == None \notin Process

Ops        == {"deploy", "restart", "stop", "probe"}
SpawnSteps == {"check", "allocate", "launch", "dial", "mark", "poll", "forget"}
StopSteps  == {"stop", "reap", "release"}
ProbeSteps == {"probe", "judgeUp", "judgeDown"}

TypeOK ==
    /\ entry \in [Cid -> Process \cup {None}]
    /\ allocated \in SUBSET Port
    /\ pc \in [Task -> {"idle"} \cup SpawnSteps \cup StopSteps \cup ProbeSteps]
    /\ op \in [Task -> Ops] /\ cid \in [Task -> Cid]
    /\ port \in [Task -> Port \cup {0}]
    /\ victim \in [Task -> Process \cup {None}]
    /\ next \in [Task -> {"idle", "check"}]
    /\ requests \in 0..MaxRequests

Init ==
    /\ entry = [c \in Cid |-> None]
    /\ allocated = {}
    /\ pc = [t \in Task |-> "idle"]
    /\ op = [t \in Task |-> "deploy"]
    /\ cid = [t \in Task |-> CHOOSE c \in Cid : TRUE]
    /\ port = [t \in Task |-> 0]
    /\ victim = [t \in Task |-> None]
    /\ next = [t \in Task |-> "idle"]
    /\ requests = 0

Goto(t, step) == pc' = [pc EXCEPT ![t] = step]

Listed == { c \in Cid : entry[c] # None }

\* Who has a process that has not ended, on port p.
Holders(p) ==
    { <<"map", c>> : c \in { d \in Listed : entry[d].port = p
                                            /\ entry[d].os # "exited" } }
    \cup { <<"stopping", t>> : t \in { u \in Task : victim[u] # None
                                                    /\ victim[u].port = p } }

\* Whether a connection to port p succeeds.
Answers(p) ==
    \/ \E c \in Listed : entry[c].port = p /\ entry[c].os = "listening"
    \/ \E t \in Task : /\ victim[t] # None
                       /\ victim[t].port = p /\ victim[t].os = "listening"

-----------------------------------------------------------------------------
(* Requests.                                                               *)

Begin(t, o, c, step) ==
    /\ pc[t] = "idle" /\ requests < MaxRequests
    /\ OnePerCid => \A u \in Task : pc[u] # "idle" => cid[u] # c
    /\ requests' = requests + 1
    /\ op' = [op EXCEPT ![t] = o]
    /\ cid' = [cid EXCEPT ![t] = c]
    /\ Goto(t, step)
    /\ UNCHANGED <<entry, allocated, victim>>

Deploy(t, c) ==
    /\ Begin(t, "deploy", c, "check")
    /\ next' = [next EXCEPT ![t] = "idle"]
    /\ UNCHANGED port

\* restart_process reads how the process was started, stops it and spawns it.
Restart(t, c) ==
    /\ c \in Listed
    /\ Begin(t, "restart", c, "stop")
    /\ next' = [next EXCEPT ![t] = "check"]
    /\ UNCHANGED port

\* shutdown_all stops what it finds in the map.
StopOne(t, c) ==
    /\ c \in Listed
    /\ Begin(t, "stop", c, "stop")
    /\ next' = [next EXCEPT ![t] = "idle"]
    /\ UNCHANGED port

\* The health loop, one process at a time; one that starts is passed over.
Look(t, c) ==
    /\ c \in Listed /\ entry[c].health # "starting"
    /\ \A u \in Task : pc[u] = "idle" \/ op[u] # "probe"
    /\ Begin(t, "probe", c, "probe")
    /\ port' = [port EXCEPT ![t] = entry[c].port]
    /\ next' = [next EXCEPT ![t] = "idle"]

-----------------------------------------------------------------------------
(* spawn_process.                                                          *)

\* Mutant: no check.
CheckNever(t) ==
    /\ pc[t] = "check"
    /\ Goto(t, "allocate")
    /\ UNCHANGED <<entry, allocated, locals, requests>>

\* The process enters the map only after the next two steps.
Check(t) ==
    /\ pc[t] = "check"
    /\ Goto(t, IF Cardinality(Listed) >= MaxProcesses THEN "idle" ELSE "allocate")
    /\ UNCHANGED <<entry, allocated, locals, requests>>

\* Mutant: the index of the port is one too low.
LowestMinusOne == Min(Port \ allocated) - 1

Lowest == Min(Port \ allocated)

Allocate(t) ==
    /\ pc[t] = "allocate"
    /\ \/ /\ allocated = Port
          /\ Goto(t, "idle") /\ UNCHANGED <<allocated, port>>
       \/ /\ allocated # Port
          /\ port' = [port EXCEPT ![t] = Lowest]
          /\ allocated' = allocated \cup {port'[t]}
          /\ Goto(t, "launch")
    /\ UNCHANGED <<entry, op, cid, victim, next, requests>>

\* An empty or forbidden command, a bad directory or a failing spawn returns
\* and keeps the port; else the new process takes the place of the old one.
Launch(t) ==
    /\ pc[t] = "launch"
    /\ \/ Refusals /\ Goto(t, "idle") /\ UNCHANGED entry
       \/ /\ entry' = [entry EXCEPT ![cid[t]] =
                           [port |-> port[t], os |-> "booting", health |-> "starting"]]
          /\ Goto(t, "dial")
    /\ UNCHANGED <<allocated, locals, requests>>

\* After startup_timeout the deployment is stopped.
Deadline(t) ==
    /\ pc[t] = "dial"
    /\ next' = [next EXCEPT ![t] = "idle"]
    /\ Goto(t, "stop")
    /\ UNCHANGED <<entry, allocated, op, cid, port, victim, requests>>

Dial(t) ==
    /\ pc[t] = "dial"
    /\ Goto(t, IF Answers(port[t]) THEN "mark" ELSE "poll")
    /\ UNCHANGED <<entry, allocated, locals, requests>>

\* Whatever the map has for the deployment by now is set to healthy.
MarkHealthy ==
    [c \in Cid |-> IF entry[c] = None THEN None
                   ELSE [entry[c] EXCEPT !.health = "healthy"]]

Mark(t) ==
    /\ pc[t] = "mark"
    /\ entry' = [entry EXCEPT ![cid[t]] = MarkHealthy[cid[t]]]
    /\ Goto(t, "idle")
    /\ UNCHANGED <<allocated, locals, requests>>

\* Whether the process of the deployment has exited; the port that becomes
\* free is the one the task has allocated.
Poll(t) ==
    /\ pc[t] = "poll"
    /\ IF cid[t] \in Listed /\ entry[cid[t]].os = "exited"
       THEN allocated' = allocated \ {port[t]} /\ Goto(t, "forget")
       ELSE Goto(t, "dial") /\ UNCHANGED allocated
    /\ UNCHANGED <<entry, locals, requests>>

Forget(t) ==
    /\ pc[t] = "forget"
    /\ entry' = [entry EXCEPT ![cid[t]] = None]
    /\ Goto(t, "idle")
    /\ UNCHANGED <<allocated, locals, requests>>

-----------------------------------------------------------------------------
(* stop_process.                                                           *)

\* Mutant: the port is given back before the process has ended.
TakeOutEarly(t) ==
    /\ pc[t] = "stop"
    /\ IF cid[t] \in Listed
       THEN /\ victim' = [victim EXCEPT ![t] = entry[cid[t]]]
            /\ port' = [port EXCEPT ![t] = entry[cid[t]].port]
            /\ entry' = [entry EXCEPT ![cid[t]] = None]
            /\ allocated' = allocated \ {port'[t]}
            /\ Goto(t, "reap")
       ELSE Goto(t, "idle") /\ UNCHANGED <<victim, port, entry, allocated>>
    /\ UNCHANGED <<op, cid, next, requests>>

TakeOut(t) ==
    /\ pc[t] = "stop"
    /\ IF cid[t] \in Listed
       THEN /\ victim' = [victim EXCEPT ![t] = entry[cid[t]]]
            /\ port' = [port EXCEPT ![t] = entry[cid[t]].port]
            /\ entry' = [entry EXCEPT ![cid[t]] = None]
            /\ Goto(t, "reap")
       ELSE Goto(t, "idle") /\ UNCHANGED <<victim, port, entry>>
    /\ UNCHANGED <<allocated, op, cid, next, requests>>

\* Mutant: a process that does not end by itself is waited for.
ReapGently(t) ==
    /\ pc[t] = "reap"
    /\ victim[t].os = "exited"
    /\ victim' = [victim EXCEPT ![t] = None]
    /\ Goto(t, "release")
    /\ UNCHANGED <<entry, allocated, op, cid, port, next, requests>>

\* The process ends by itself, or is killed after ten seconds.
Reap(t) ==
    /\ pc[t] = "reap"
    /\ victim' = [victim EXCEPT ![t] = None]
    /\ Goto(t, "release")
    /\ UNCHANGED <<entry, allocated, op, cid, port, next, requests>>

Release(t) ==
    /\ pc[t] = "release"
    /\ allocated' = allocated \ {port[t]}
    /\ Goto(t, next[t])
    /\ UNCHANGED <<entry, locals, requests>>

-----------------------------------------------------------------------------
(* run_health_loop.                                                        *)

Probe(t) ==
    /\ pc[t] = "probe"
    /\ Goto(t, IF Answers(port[t]) THEN "judgeUp" ELSE "judgeDown")
    /\ UNCHANGED <<entry, allocated, locals, requests>>

\* Healthy, or over the memory limit and stopped.
JudgeUp(t) ==
    /\ pc[t] = "judgeUp"
    /\ \/ /\ entry' = [entry EXCEPT ![cid[t]] = MarkHealthy[cid[t]]]
          /\ Goto(t, "idle")
       \/ Goto(t, "stop") /\ UNCHANGED entry
    /\ UNCHANGED <<allocated, locals, requests>>

\* A failure is counted; the third makes the process unhealthy, and the fifth
\* restarts it unless it was restarted too often.
JudgeDown(t) ==
    /\ pc[t] = "judgeDown"
    /\ \/ Goto(t, "idle") /\ UNCHANGED <<entry, next>>
       \/ /\ cid[t] \in Listed
          /\ entry' = [entry EXCEPT ![cid[t]].health = "unhealthy"]
          /\ \/ Goto(t, "idle") /\ UNCHANGED next
             \/ Goto(t, "stop") /\ next' = [next EXCEPT ![t] = "check"]
    /\ UNCHANGED <<allocated, op, cid, port, victim, requests>>

-----------------------------------------------------------------------------
(* The processes.  One that finds its port taken exits.                    *)

Started(p) == [p EXCEPT !.os = IF Answers(p.port) THEN "exited" ELSE "listening"]

Boot ==
    /\ \/ \E c \in Listed : /\ entry[c].os = "booting"
                            /\ entry' = [entry EXCEPT ![c] = Started(@)]
                            /\ UNCHANGED victim
       \/ \E t \in Task : /\ victim[t] # None /\ victim[t].os = "booting"
                          /\ victim' = [victim EXCEPT ![t] = Started(@)]
                          /\ UNCHANGED entry
    /\ UNCHANGED <<allocated, pc, op, cid, port, next, requests>>

Exit ==
    /\ \E c \in Listed : /\ entry[c].os # "exited"
                         /\ entry' = [entry EXCEPT ![c].os = "exited"]
    /\ UNCHANGED <<allocated, pc, locals, requests>>

Spawning(t) ==
    \/ Check(t) \/ Allocate(t) \/ Launch(t) \/ Deadline(t) \/ Dial(t)
    \/ Mark(t) \/ Poll(t) \/ Forget(t)
Stopping(t) == TakeOut(t) \/ Reap(t) \/ Release(t)
Probing(t)  == Probe(t) \/ JudgeUp(t) \/ JudgeDown(t)
Step(t)     == Spawning(t) \/ Stopping(t) \/ Probing(t)

Next ==
    \/ \E t \in Task : \/ \E c \in Cid : \/ Deploy(t, c) \/ Restart(t, c)
                                         \/ StopOne(t, c) \/ Look(t, c)
                       \/ Step(t)
    \/ Boot \/ Exit

\* The runtime polls every task that can go on, and deadlines pass.
Fairness == \A t \in Task : WF_vars(Step(t)) /\ SF_vars(Deadline(t))

Spec == Init /\ [][Next]_vars /\ Fairness

-----------------------------------------------------------------------------
(* Properties.                                                             *)

(* The check of max_processes and the insertion are separate, so spawns     *)
(* that run together can exceed it together, but never by more than one     *)
(* process for each other spawn.                                            *)
ProcessesBounded == Cardinality(Listed) <= MaxProcesses + Cardinality(Task) - 1

(* A process that has not ended has its port to itself, and the allocator   *)
(* knows: nobody else is given the port before the process has ended.       *)
PortsExclusive ==
    \A p \in Port : /\ Cardinality(Holders(p)) <= 1
                    /\ Holders(p) # {} => p \in allocated

\* The processes that keep a port and the requests that bear one to give it back.
Keeping == { c \in Listed : \A t \in Task : pc[t] = "forget" => cid[t] # c }
Bearing == { t \in Task : pc[t] \in {"launch", "reap", "release"} }

InHand == { entry[c].port : c \in Keeping } \cup { port[t] : t \in Bearing }

(* A port that has been given out stays in the hands of a process or of a   *)
(* request, whichever way a start or a stop ends.  Only a launch loses one: *)
(* the port of a start that is refused, or of the process it replaces.      *)
LostAtLaunchOnly ==
    (\E p \in allocated' : p \notin InHand' /\ (p \in allocated => p \in InHand))
        => \E t \in Task : pc[t] = "launch" /\ pc'[t] # "launch"

\* Why: one request works on a deployment; while it waits for the process it has
\* launched, the map has that process, which is starting; a process that is being
\* stopped is out of the map; and a port is in the hands of one process or request.
Alone ==
    \A t, u \in Task : pc[t] # "idle" /\ pc[u] # "idle" /\ cid[t] = cid[u] => t = u

Launched ==
    \A t \in Task : pc[t] \in {"dial", "mark", "poll", "forget"} =>
        /\ cid[t] \in Listed /\ entry[cid[t]].port = port[t]
        /\ entry[cid[t]].health = "starting"
        /\ pc[t] = "forget" => entry[cid[t]].os = "exited"

Stopped ==
    \A t \in Task : IF pc[t] = "reap" THEN victim[t] # None /\ victim[t].port = port[t]
                    ELSE victim[t] = None

OneHand ==
    /\ \A c \in Keeping : entry[c].port \in allocated
    /\ \A t \in Bearing : port[t] \in allocated
    /\ \A c, d \in Keeping : entry[c].port = entry[d].port => c = d
    /\ \A t, u \in Bearing : port[t] = port[u] => t = u
    /\ \A c \in Keeping, t \in Bearing : entry[c].port # port[t]

(* get_port sends the requests for a deployment to the port of a healthy    *)
(* process; if something answers there, it is that process ("Check if this  *)
(* is a dynamic deployment with an active process", gateway/src/main.rs).   *)
RoutedToOwn ==
    \A c \in Listed :
        entry[c].health = "healthy" /\ Answers(entry[c].port) =>
            entry[c].os = "listening"

(* A process becomes healthy when its own port was seen to answer ("Wait    *)
(* for the process to become healthy (TCP connect to port)").               *)
HealthyIsOwn ==
    [][\A t \in Task : pc[t] = "mark" /\ pc'[t] = "idle" /\ cid[t] \in Listed =>
           entry[cid[t]].port = port[t]]_vars

(* The ports of the gateway are accounted for: each one in use is known and *)
(* has one process, a healthy deployment is answered by its own process     *)
(* whatever entry a failing spawn removes, and only a launch loses a port.   *)
PortsAccounted == [][PortsExclusive' /\ RoutedToOwn' /\ LostAtLaunchOnly]_vars

(* Every deploy, restart, stop and probe ends, whatever the processes do.   *)
Ends == \A t \in Task : pc[t] # "idle" ~> pc[t] = "idle"
=============================================================================
