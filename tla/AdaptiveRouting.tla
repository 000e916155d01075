-------------------------- MODULE AdaptiveRouting --------------------------
(***************************************************************************)
(* The router that looks for paths around blocked links (AdaptiveRouter of *)
(* protocol/src/adaptive_routing.rs), with the lock on its backup routes:  *)
(* a failover that finds no backup computes a new route, and that stores   *)
(* backup routes of its own.                                               *)
(*                                                                         *)
(* One caller, as in the event loops of p2p.rs, which own their router.    *)
(* Those only report failures of links (LinkFails); the calls that compute *)
(* routes are the library's.  Scores are abstracted to the order they put  *)
(* the relays in, latencies and statistics are left out.                   *)
(***************************************************************************)
EXTENDS Integers, Sequences, FiniteSets, SequencesExt

CONSTANTS RelayId,
          Transient,         \* the relays that come and go
          Guards, Exits,     \* the relays that may be first, or last
          Region(_),         \* region and ASN of a relay
          Orders,            \* the orders that scores may put RelayId in
          MinHops, NumHops,  \* min_hops, and the hops of the strategy
          MinSamples,        \* MIN_SAMPLES_FOR_DETECTION
          Consecutive,       \* failures in a row that make a link avoided: 3
          MaxRoutes, MaxFailures   \* bounds of the model

\* The relays that a router may know are scored in some order.
ASSUME RoutingAssumption == Orders \subseteq Seq(RelayId)

VARIABLES relays,        \* the registered relays that are healthy
          activeRoutes,  \* active_routes: the id of a route is its place
          backups,       \* backup_routes: id -> its backup routes
          health,        \* path_health: link -> weights of recent failures (in
                         \* tenths), failures in a row, whether status is bad
          blockedPaths,  \* blocked_paths
          call,          \* what the caller is doing
          failures

avars == <<relays, activeRoutes, backups, health, blockedPaths, call, failures>>

Link == RelayId \X RelayId
Links(r) == {<<r[i], r[i + 1]>> : i \in 1 .. Len(r) - 1}
Resting == [step |-> "idle"]
Healthy == [recent |-> <<>>, row |-> 0, bad |-> FALSE]

AInit ==
    /\ relays \in {RelayId \ X : X \in SUBSET Transient} /\ activeRoutes = <<>> /\ backups = <<>>
    /\ health = [l \in Link |-> Healthy]
    /\ blockedPaths = {} /\ call = Resting /\ failures = 0

----------------------------------------------------------------------------
(* Selecting the relays of a route.                                        *)

\* should_avoid, and is_path_ok for a relay after those selected.
Avoided(l) == l \in blockedPaths \/ health[l].bad \/ health[l].row >= Consecutive

\* Mutant: a link that is not blocked is good.
BlockedOnly(sel, p) == sel # <<>> => <<Last(sel), p>> \notin blockedPaths

PathOk(sel, p) == sel = <<>> \/ ~Avoided(<<Last(sel), p>>)

\* What a loop over the scored relays does with the next one: it appends one of
\* `from` that the selection lacks, up to a number of hops, over a link that is
\* not avoided and, if regions are to differ, from a region of its own.
Extended(sel, p, hops, from, apart) ==
    IF /\ p \in from \ ToSet(sel) /\ Len(sel) < hops /\ PathOk(sel, p)
       /\ apart => \A x \in ToSet(sel) : Region(x) # Region(p)
    THEN Append(sel, p) ELSE sel

Appending(sel, scored, hops, from, apart) ==
    LET upto[i \in 0 .. Len(scored)] ==
          IF i = 0 THEN sel ELSE Extended(upto[i - 1], scored[i], hops, from, apart)
    IN  upto[Len(scored)]

\* The guard, or else whoever is best.  Of the scored relays those in S are
\* available.
Best(S, scored) ==
    LET available == SelectSeq(scored, LAMBDA p : p \in S)
        able == SelectSeq(available, LAMBDA p : p \in Guards)
    IN  IF able # <<>> THEN able[1] ELSE available[1]
WithGuard(S, scored) == <<Best(S, scored)>>

\* The middle of the route: regions differ.
WithMiddle(sel, S, scored) == Appending(sel, scored, NumHops - 1, S, TRUE)

\* One exit.
WithExit(sel, S, scored) ==
    Appending(sel, scored, IF Len(sel) < NumHops THEN Len(sel) + 1 ELSE NumHops,
              S \cap Exits, FALSE)

\* Whoever may follow, while hops are missing.
Filled(sel, S, scored) == Appending(sel, scored, NumHops, S, FALSE)

\* select_relays, in the order of their scores.
Selected(S, scored) ==
    {Filled(exit, S, scored) : exit \in {WithExit(middle, S, scored) :
        middle \in {WithMiddle(guard, S, scored) : guard \in {WithGuard(S, scored)}}}}
Selections(S) ==
    IF Cardinality(S) < MinHops THEN {}
    ELSE {r \in UNION {Selected(S, x) : x \in Orders} : Len(r) >= MinHops}

----------------------------------------------------------------------------
(* The calls.                                                              *)

\* register_relay and remove_relay.
Register(p) ==
    /\ call = Resting /\ relays' = IF p \in relays THEN relays \ {p} ELSE relays \cup {p}
    /\ UNCHANGED <<activeRoutes, backups, health, blockedPaths, call, failures>>

\* compute_route up to the lock: the route is active before it has backups.
\* The caller holds the lock already if it comes from failover.
Activate(step, r) ==
    /\ activeRoutes' = Append(activeRoutes, r)
    /\ call' = [step |-> "backups", id |-> Len(activeRoutes) + 1, locked |-> step = "failover"]

ComputeRoute ==
    /\ call = Resting /\ Len(activeRoutes) < MaxRoutes
    /\ \E r \in Selections(relays) : Activate("idle", r)
    /\ UNCHANGED <<relays, backups, health, blockedPaths, failures>>

\* generate_backup_routes: two (the same selection twice) from the relays the
\* route does not use.  Taking the lock for writing waits for its readers.
GenerateBackups ==
    /\ call.step = "backups" /\ ~call.locked
    /\ LET rest == relays \ ToSet(activeRoutes[call.id])
       IN  \E r \in IF Selections(rest) = {} THEN {{}} ELSE {{s} : s \in Selections(rest)} :
             backups' = [i \in DOMAIN backups \cup {call.id} |->
                            IF i = call.id THEN r ELSE backups[i]]
    /\ call' = Resting
    /\ UNCHANGED <<relays, activeRoutes, health, blockedPaths, failures>>

\* update_censorship_status: every attempt a router records is a failure, so
\* that enough of them are suspect at least.
Tally(s, w) == Len(SelectSeq(s, LAMBDA x : x = w))
Confirmed(s) ==
    Len(s) >= MinSamples /\ 10 * Tally(s, 10) + 6 * Tally(s, 6) > 7 * Len(s)

\* record_failure on a hop of a known route.  (10 for a reset connection, 6
\* for a timeout, 0 for what does not indicate censorship.)  The last hop has no
\* link that could be at fault.
RecordFailure(id, weight) ==
    /\ call = Resting /\ failures < MaxFailures /\ failures' = failures + 1
    /\ \/ \E l \in Links(activeRoutes[id]) :
            LET recent == Append(health[l].recent, weight)
            IN  /\ health' = [health EXCEPT ![l] =
                       [recent |-> recent, row |-> @.row + 1, bad |-> Len(recent) >= MinSamples]]
                /\ blockedPaths' = IF Confirmed(recent) THEN blockedPaths \cup {l} ELSE blockedPaths
       \/ UNCHANGED <<health, blockedPaths>>
    /\ call' = [step |-> "failover", id |-> id]
    /\ UNCHANGED <<relays, activeRoutes, backups>>

\* record_success counts, and leaves the health of the links alone.

\* record_censorship_failure of the event loops, which finds no route: the ends
\* of the link are relays from now on (neither guards nor exits, and healthy
\* unless they were registered before), and it is blocked if it was confirmed.
LinkFails(l) ==
    /\ call = Resting
    /\ \E S \in SUBSET ({l[1], l[2]} \ (Guards \cup Exits)) : relays' = relays \cup S
    /\ \/ health[l].bad /\ blockedPaths' = blockedPaths \cup {l}
       \/ UNCHANGED blockedPaths
    /\ UNCHANGED <<activeRoutes, backups, health, call, failures>>

\* failover with a backup that is valid: it is promoted as it is.
FailoverToBackup ==
    /\ call.step = "failover" /\ call.id \in DOMAIN backups
    /\ \E r \in backups[call.id] : activeRoutes' = Append(activeRoutes, r)
    /\ call' = Resting
    /\ UNCHANGED <<relays, backups, health, blockedPaths, failures>>

\* failover without one: "No backup available, compute new route".
FailoverToNew ==
    /\ call.step = "failover"
    /\ call.id \in DOMAIN backups => backups[call.id] = {}
    /\ IF Selections(relays) = {}
         THEN call' = Resting /\ UNCHANGED activeRoutes
         ELSE \E r \in Selections(relays) : Activate("failover", r)
    /\ UNCHANGED <<relays, backups, health, blockedPaths, failures>>

\* Backup routes are valid for five minutes, failures count for as long.
Age ==
    /\ call = Resting
    /\ \E l \in Link : health[l].recent # <<>>
    /\ backups' = [i \in DOMAIN backups |-> {}]
    /\ health' = [l \in Link |-> [health[l] EXCEPT !.recent = <<>>]]
    /\ UNCHANGED <<relays, activeRoutes, blockedPaths, call, failures>>

\* unblock_path.
Unblock ==
    /\ call = Resting /\ \E l \in blockedPaths : blockedPaths' = blockedPaths \ {l}
    /\ UNCHANGED <<relays, activeRoutes, backups, health, call, failures>>

Returning == GenerateBackups \/ FailoverToBackup \/ FailoverToNew

ANext ==
    \/ \E p \in Transient : Register(p)
    \/ ComputeRoute \/ Returning \/ Age \/ Unblock
    \/ \E id \in DOMAIN activeRoutes, w \in {0, 6, 10} : RecordFailure(id, w)
    \/ \E l \in Link : LinkFails(l)

ASpec == AInit /\ [][ANext]_avars

----------------------------------------------------------------------------
\* "Routes around blocked paths": no route is computed over a link that is
\* blocked or has failed too often, and none visits a relay twice.  A backup
\* is promoted as it was computed, whatever has failed since.
ComputedAvoidsBlocked ==
    [][call'.step = "backups" /\ call.step # "backups" =>
         LET r == Last(activeRoutes')
         IN  /\ IsInjective(r)
             /\ \A l \in Links(r) : ~Avoided(l)]_avars

\* "Automatic Failover": a call returns.
CallsReturn == call # Resting ~> call = Resting
=============================================================================
