---------------------------- MODULE PeerRequests ----------------------------
(***************************************************************************)
(* The P2P event loop of a node (node-runner/src/p2p.rs) and its callers,  *)
(* the API handlers and the replication cycle.  A caller sends a command   *)
(* with a oneshot reply channel and waits; the loop remembers the reply    *)
(* channel in one of its maps until the network answers.  An action is one *)
(* turn of the loop, one event of the network or one step of a caller.     *)
(*                                                                         *)
(* FetchFragment, FetchManifest and ListPeerContent are one kind, "fetch": *)
(* they differ in the data only.  BuildCircuit has at least two hops.      *)
(* Left out: commands without a reply, cells relayed for other peers, and  *)
(* FetchViaCircuit, which an unfinished circuit answers with an error at   *)
(* once.  The path-health guard never refuses: no path is ever recorded.   *)
(***************************************************************************)
EXTENDS Naturals, Sequences, FiniteSets

CONSTANTS
    Request,        \* commands that can be in progress at once
    Cid,            \* contents whose providers are looked up
    None,           \* no request, no content
    ChannelCap,     \* capacity of the command channel
    ForeignRecords  \* whether a DHT record may fail to parse or name
                    \* another content than its key

ASSUME NoneAssumption == None \notin Request \cup Cid
ASSUME CidAssumption == Cid # {}
ASSUME ChannelAssumption == ChannelCap \in Nat \ {0}

VARIABLES
    phase,          \* what the caller of a request knows of it
    kind,           \* the command
    cid,            \* the content a lookup is about
    commands,       \* the channel from the callers to the loop
    pending,        \* pending_requests: those whose message is tracked
    wire,           \* messages sent that the network has not yet settled
    dht,            \* pending_dht_queries: Cid -> the caller, or None
    lookups,        \* Kademlia queries that run
    found,          \* those that have reported a record
    builds,         \* pending_circuit_builds
    running         \* whether the loop runs

callers == <<kind, cid>>
loop    == <<pending, dht, builds, running>>
network == <<wire, lookups, found>>
vars    == <<phase, callers, commands, loop, network>>

Kinds   == {"fetch", "find", "build"}
Waits   == {"sent", "waiting"}
Answers == {"ok", "notFound", "error", "closed"}

\* The first message of a request, and the EXTEND cell of a circuit.
Message == Request \X {"first", "extend"}

InChannel(r) == \E i \in DOMAIN commands : commands[i] = r

\* Whether the loop or the network still knows request r.
Traced(r) ==
    \/ InChannel(r) \/ r \in pending \cup lookups \cup builds
    \/ \E m \in wire : m[1] = r
    \/ \E c \in Cid : dht[c] = r

TypeOK ==
    /\ phase \in [Request -> {"idle", "left"} \cup Waits \cup Answers]
    /\ kind \in [Request -> Kinds] /\ cid \in [Request -> Cid]
    /\ commands \in Seq(Request) /\ Len(commands) <= ChannelCap
    /\ pending \in SUBSET Request /\ builds \in SUBSET Request
    /\ wire \in SUBSET Message
    /\ dht \in [Cid -> Request \cup {None}]
    /\ lookups \in SUBSET Request /\ found \in SUBSET lookups
    /\ running \in BOOLEAN

Init ==
    /\ phase = [r \in Request |-> "idle"]
    /\ kind = [r \in Request |-> "fetch"]
    /\ cid = [r \in Request |-> CHOOSE c \in Cid : TRUE]
    /\ commands = <<>>
    /\ pending = {} /\ wire = {} /\ lookups = {} /\ found = {} /\ builds = {}
    /\ dht = [c \in Cid |-> None]
    /\ running = TRUE

\* The callers S that still wait learn a; a send to one that left is lost.
Tell(S, a) == [r \in Request |-> IF r \in S /\ phase[r] = "waiting"
                                 THEN a ELSE phase[r]]

-----------------------------------------------------------------------------
(* The callers.                                                            *)

\* A request is asked anew when nothing remembers what it was before.  The
\* send waits for room in the channel.
Ask(r, k, c) ==
    /\ phase[r] \notin Waits /\ ~Traced(r)
    /\ running /\ Len(commands) < ChannelCap
    /\ commands' = Append(commands, r)
    /\ phase' = [phase EXCEPT ![r] = "sent"]
    /\ kind' = [kind EXCEPT ![r] = k]
    /\ cid' = [cid EXCEPT ![r] = c]
    /\ UNCHANGED <<loop, network>>

\* Without the loop the send fails at once.
AskTooLate(r) ==
    /\ ~running /\ phase[r] \notin Waits
    /\ phase' = [phase EXCEPT ![r] = "closed"]
    /\ UNCHANGED <<callers, commands, loop, network>>

\* The HTTP client goes away, or the time-out of a replication step passes:
\* the receiving end of the reply channel is dropped.
Leave(r) ==
    /\ phase[r] \in Waits
    /\ phase' = [phase EXCEPT ![r] = "left"]
    /\ UNCHANGED <<callers, commands, loop, network>>

-----------------------------------------------------------------------------
(* handle_command.                                                         *)

Receive(r, k) ==
    /\ running /\ commands # <<>>
    /\ r = Head(commands) /\ kind[r] = k
    /\ commands' = Tail(commands)
    /\ UNCHANGED <<callers, running>>

\* The caller of r waits for the loop now; another one may learn something.
NowWaiting(r, S, a) ==
    phase' = [Tell(S \ {r}, a) EXCEPT ![r] = IF @ = "sent" THEN "waiting" ELSE @]

HandleFetch(r) ==
    /\ Receive(r, "fetch")
    /\ NowWaiting(r, {}, "ok")
    /\ pending' = pending \cup {r}
    /\ wire' = wire \cup {<<r, "first">>}
    /\ UNCHANGED <<dht, lookups, found, builds>>

\* The map is keyed by the content: the insert drops the reply channel of an
\* earlier lookup for it.
HandleFind(r) ==
    /\ Receive(r, "find")
    /\ NowWaiting(r, {dht[cid[r]]}, "closed")
    /\ dht' = [dht EXCEPT ![cid[r]] = r]
    /\ lookups' = lookups \cup {r}
    /\ found' = found \ {r}
    /\ UNCHANGED <<pending, wire, builds>>

HandleBuild(r) ==
    /\ Receive(r, "build")
    /\ NowWaiting(r, {}, "ok")
    /\ pending' = pending \cup {r}
    /\ wire' = wire \cup {<<r, "first">>}
    /\ builds' = builds \cup {r}
    /\ UNCHANGED <<dht, lookups, found>>

\* Fewer than two peers, or a circuit the client cannot create.
RefuseBuild(r) ==
    /\ Receive(r, "build")
    /\ phase' = [phase EXCEPT ![r] = IF @ = "sent" THEN "error" ELSE @]
    /\ UNCHANGED <<pending, dht, builds, network>>

-----------------------------------------------------------------------------
(* handle_content_response, handle_relay_cell_response and OutboundFailure. *)

\* The message is settled and no longer tracked.
Settle(r) ==
    /\ <<r, "first">> \in wire /\ r \in pending
    /\ pending' = pending \ {r}
    /\ UNCHANGED <<callers, commands, dht, lookups, found, running>>

\* A response whose request is not tracked is dropped, as is its failure.
Ignore(m) ==
    /\ m \in wire /\ ~(m[2] = "first" /\ m[1] \in pending)
    /\ wire' = wire \ {m}
    /\ UNCHANGED <<phase, callers, commands, loop, lookups, found>>

\* The content asked for, NotFound, an error, a wrong hash or another kind of
\* response.
FetchResponse(r) ==
    /\ kind[r] = "fetch" /\ Settle(r)
    /\ wire' = wire \ {<<r, "first">>}
    /\ \E a \in {"ok", "notFound", "error"} : phase' = Tell({r}, a)
    /\ UNCHANGED builds

\* Mutant: the entry is removed and nobody is told.
FetchFailureUntold(r) ==
    /\ kind[r] = "fetch" /\ Settle(r)
    /\ wire' = wire \ {<<r, "first">>}
    /\ UNCHANGED <<phase, builds>>

\* OutboundFailure, a time-out included.
FetchFailure(r) ==
    /\ kind[r] = "fetch" /\ Settle(r)
    /\ wire' = wire \ {<<r, "first">>}
    /\ phase' = Tell({r}, "error")
    /\ UNCHANGED builds

\* CREATED of the first hop: the EXTEND cell for the second is sent, but
\* nothing is put into pending_requests for it.
Created(r) ==
    /\ kind[r] = "build" /\ r \in builds /\ Settle(r)
    /\ wire' = (wire \ {<<r, "first">>}) \cup {<<r, "extend">>}
    /\ UNCHANGED <<phase, builds>>

\* A cell or a handshake that does not parse or does not verify.
InvalidCell(r) ==
    /\ kind[r] = "build" /\ r \in builds /\ Settle(r)
    /\ wire' = wire \ {<<r, "first">>}
    /\ builds' = builds \ {r}
    /\ phase' = Tell({r}, "error")

\* NotFound, an error, padding, another kind of response, a CREATED for a build
\* that was cleaned up, or a failure of the message: logged only.
RelayFailure(r) ==
    /\ kind[r] = "build" /\ Settle(r)
    /\ wire' = wire \ {<<r, "first">>}
    /\ UNCHANGED <<phase, builds>>

Settled(r) ==
    \/ FetchResponse(r) \/ FetchFailure(r)
    \/ Created(r) \/ InvalidCell(r) \/ RelayFailure(r)
    \/ \E n \in {"first", "extend"} : Ignore(<<r, n>>)

-----------------------------------------------------------------------------
(* handle_kademlia_get_record.                                             *)

\* The contents a record found under the key of r may name, None for a record
\* that does not parse.
Names(r) == IF ForeignRecords THEN Cid \cup {None} ELSE {cid[r]}

\* A record: whoever waits for the content it names gets its providers.  The
\* query goes on and may find further records.
QueryFound(r) ==
    /\ r \in lookups
    /\ found' = found \cup {r}
    /\ \E c \in Names(r) :
        IF c = None THEN UNCHANGED <<phase, dht>>
        ELSE phase' = Tell({dht[c]}, "ok") /\ dht' = [dht EXCEPT ![c] = None]
    /\ UNCHANGED <<callers, commands, pending, wire, lookups, builds, running>>

\* FinishedWithNoAdditionalRecord.
QueryFinished(r) ==
    /\ r \in found
    /\ lookups' = lookups \ {r} /\ found' = found \ {r}
    /\ UNCHANGED <<phase, callers, commands, loop, wire>>

\* Mutant: an error is logged and resolves nothing.
QueryErrorLogged(r) ==
    /\ r \in lookups
    /\ lookups' = lookups \ {r} /\ found' = found \ {r}
    /\ UNCHANGED <<phase, callers, commands, loop, wire>>

\* NotFound, QuorumFailed or Timeout: whoever waits for the key's content.
QueryError(r) ==
    /\ r \in lookups
    /\ lookups' = lookups \ {r} /\ found' = found \ {r}
    /\ phase' = Tell({dht[cid[r]]}, "notFound")
    /\ dht' = [dht EXCEPT ![cid[r]] = None]
    /\ UNCHANGED <<callers, commands, pending, wire, builds, running>>

-----------------------------------------------------------------------------
(* The clean-up every 60 s, and the end of the loop.                        *)

Closed == { r \in Request : phase[r] = "left" }

\* Mutant: circuit builds are kept.
CleanupNoBuilds ==
    /\ running
    /\ pending' = pending \ { r \in Closed : kind[r] = "fetch" }
    /\ dht' = [c \in Cid |-> IF dht[c] \in Closed THEN None ELSE dht[c]]
    /\ UNCHANGED <<phase, callers, commands, network, builds, running>>

\* is_closed is false for relay messages.
Cleanup ==
    /\ running
    /\ pending' = pending \ { r \in Closed : kind[r] = "fetch" }
    /\ dht' = [c \in Cid |-> IF dht[c] \in Closed THEN None ELSE dht[c]]
    /\ builds' = builds \ Closed
    /\ UNCHANGED <<phase, callers, commands, network, running>>

Shutdown ==
    /\ running /\ running' = FALSE
    /\ commands' = <<>> /\ pending' = {} /\ builds' = {}
    /\ dht' = [c \in Cid |-> None]
    /\ wire' = {} /\ lookups' = {} /\ found' = {}
    /\ phase' = [r \in Request |-> IF phase[r] \in Waits THEN "closed" ELSE phase[r]]
    /\ UNCHANGED callers

Handle(r) == HandleFetch(r) \/ HandleFind(r) \/ HandleBuild(r) \/ RefuseBuild(r)

QueryEnd(r) == QueryFinished(r) \/ QueryError(r)

Next ==
    \/ \E r \in Request :
        \/ \E k \in Kinds, c \in Cid : Ask(r, k, c)
        \/ AskTooLate(r) \/ Leave(r)
        \/ Handle(r) \/ Settled(r) \/ QueryFound(r) \/ QueryEnd(r)
    \/ Cleanup
    \/ Shutdown

\* The select! of the loop serves every source in turn; libp2p settles every
\* message and ends every query, by a time-out if need be; the timer ticks.
Fairness ==
    /\ WF_vars(\E r \in Request : Handle(r))
    /\ \A r \in Request : WF_vars(Settled(r)) /\ WF_vars(QueryEnd(r))
    /\ WF_vars(Cleanup)

Spec == Init /\ [][Next]_vars /\ Fairness

-----------------------------------------------------------------------------
(* Properties.                                                             *)

Waiting(r, k) == phase[r] = "waiting" /\ kind[r] = k

(* Nobody waits for an answer that nothing will bring: a caller that waits  *)
(* is in the map its kind is answered from, a fetch with a message that is  *)
(* still outstanding, a lookup with a query of its own that has reported    *)
(* nothing yet; nobody waits for a loop that has ended.                     *)
Awaited(r) ==
    /\ phase[r] = "sent" => InChannel(r)
    /\ Waiting(r, "fetch") => r \in pending
    /\ Waiting(r, "find") => dht[cid[r]] = r /\ r \in lookups \ found
    /\ Waiting(r, "build") => r \in builds
    /\ r \in pending => <<r, "first">> \in wire
    /\ phase[r] \in Waits => running

Tracked == \A r \in Request : Awaited(r)

(* Every fetch and every lookup is answered unless its caller leaves: the   *)
(* HTTP handlers wait for the reply without a time-out.                     *)
Answered ==
    \A r \in Request :
        phase[r] \in Waits /\ kind[r] # "build" ~> phase[r] \notin Waits

(* What a caller that left has asked for does not stay in the maps of the   *)
(* loop for ever, whatever it was and however far it had come.              *)
LeftIsForgotten == \A r \in Request : phase[r] = "left" ~> ~Traced(r)

(* BuildCircuit "Returns the circuit ID on success" and an error otherwise. *)
BuildAnswered ==
    \A r \in Request :
        phase[r] \in Waits /\ kind[r] = "build" ~> phase[r] \notin Waits

(* A relay message that fails ends the build it belongs to: "errors are     *)
(* handled through the circuit build or relay fetch tracking maps".         *)
FailureEndsBuild ==
    [][\A r \in pending \ pending' :
           <<r, "extend">> \in wire' \/ r \notin builds']_vars

(* A reply channel closes without an answer only when the loop ends         *)
(* ("Internal channel error (event loop shut down)").                       *)
ClosedMeansShutdown == (\E r \in Request : phase[r] = "closed") => ~running
=============================================================================
