---------------------------- MODULE GatewayLoop ----------------------------
(***************************************************************************)
(* The P2P event loop of the gateway (gateway/src/p2p.rs), the connections *)
(* it knows of, and its callers: the resolver of contents (p2p_resolver.rs)*)
(* and the look-up of names.  A resolver asks the DHT for providers, may   *)
(* build a circuit through connected peers, and fetches the manifest and   *)
(* the fragments from one provider after the other.                        *)
(*                                                                         *)
(* Left out: what the loop answers other peers from the cache, which leaves*)
(* no state; announcements; discovery, which ends in a dial; and the health*)
(* of paths: a failure is recorded under the id of no route, which changes *)
(* nothing, so that no fetch is refused.  CellRouting models cells.        *)
(***************************************************************************)
EXTENDS Naturals, Sequences, FiniteSets

CONSTANTS Resolver, Name, Cid,   \* callers, names and contents they look up
          Peer, Hops,    \* zk_relay_hops; more than the peers: no circuits
          MaxLinks,      \* bound: connections to one peer
          MaxProviders, MaxFragments,   \* bounds of the model
          Patient,       \* whether resolve_timeout_seconds outlasts the network
          None

ASSUME LoopAssumption ==
    /\ None \notin Resolver
    /\ {Hops, MaxLinks, MaxProviders, MaxFragments} \subseteq Nat /\ Patient \in BOOLEAN

VARIABLES links,     \* connections to each peer
          peers,     \* P2pState.peers
          caller,    \* what each caller waits for or has left to do
          key,       \* the content or name it is about
          channel,   \* commands to the loop
          pending,   \* pending_requests
          sent,      \* messages the network has not settled, tracked or not
          waiting,   \* pending_dht_queries and pending_name_queries
          queries,   \* Kademlia queries that have not reported
          further,   \* those that have, and run on
          builds     \* pending_circuit_builds

maps  == <<pending, sent, waiting, queries, further, builds>>
gvars == <<links, peers, caller, key, channel, maps>>

Key == Name \cup Cid
Idle == [at |-> "idle", cmd |-> "none"]
Done(result) == [at |-> result, cmd |-> "none"]
Gone(r) == caller[r].at = "left"
Waits(r, cmd) == caller[r].at = "waiting" /\ caller[r].cmd = cmd

GInit ==
    /\ links = [p \in Peer |-> 0] /\ peers = {}
    /\ caller = [r \in Resolver |-> Idle] /\ key \in [Resolver -> Key]
    /\ channel = <<>> /\ pending = {} /\ sent = {}
    /\ waiting = [k \in Key |-> None] /\ queries = {} /\ further = {} /\ builds = {}

----------------------------------------------------------------------------
(* Connections.                                                            *)

Established(p) ==
    /\ links[p] < MaxLinks /\ links' = [links EXCEPT ![p] = @ + 1]
    /\ peers' = peers \cup {p}
    /\ UNCHANGED <<caller, key, channel, maps>>

\* num_established counts the connections that are left.
Closed(p) ==
    /\ links[p] > 0 /\ links' = [links EXCEPT ![p] = @ - 1]
    /\ peers' = IF links'[p] = 0 THEN peers \ {p} ELSE peers
    /\ UNCHANGED <<caller, key, channel, maps>>

----------------------------------------------------------------------------
(* The callers.                                                            *)

Ask(cmd, left, frags) == [at |-> "send", cmd |-> cmd, left |-> left, frags |-> frags]

\* fetch_from_peer failed: the next provider, if there is one.
NextProvider(s) == IF s.left > 1 THEN Ask("manifest", s.left - 1, 0) ELSE Done("failed")

\* What a caller that waited does after an answer: nothing of it is left to
\* chance but the numbers of providers and of fragments.
After(s, ok) ==
    CASE s.cmd = "name" -> {Done(IF ok THEN "done" ELSE "failed")}
      [] s.cmd = "find" -> IF ok THEN {[at |-> "choose", cmd |-> "find", left |-> n] : n \in 1 .. MaxProviders}
                                     \cup {Done("failed")}
                                 ELSE {Done("failed")}
      [] s.cmd = "build" -> {Ask("manifest", s.left, 0)}
      [] s.cmd = "manifest" -> IF ok THEN {Ask("fragment", s.left, n) : n \in 1 .. MaxFragments}
                                     ELSE {NextProvider(s)}
      [] OTHER -> {IF ~ok THEN NextProvider(s)
                   ELSE IF s.frags > 1 THEN Ask("fragment", s.left, s.frags - 1)
                   ELSE Done("done")}

\* An answer ok to r; a send to a caller that left is lost.
Tell(r, ok) ==
    IF r \in Resolver /\ caller[r].at = "waiting"
      THEN \E s \in After(caller[r], ok) : caller' = [caller EXCEPT ![r] = s]
      ELSE UNCHANGED caller

Call(r) ==
    /\ caller[r] = Idle
    /\ caller' = [caller EXCEPT ![r] =
                    Ask(IF key[r] \in Name THEN "name" ELSE "find", MaxProviders, 0)]
    /\ UNCHANGED <<links, peers, key, channel, maps>>

\* resolve_content_inner: a circuit if it has the peers for one.
Choose(r) ==
    /\ caller[r].at = "choose"
    /\ caller' = [caller EXCEPT ![r] =
           Ask(IF Cardinality(peers) >= Hops THEN "build" ELSE "manifest", @.left, 0)]
    /\ UNCHANGED <<links, peers, key, channel, maps>>

SendCommand(r) ==
    /\ caller[r].at = "send"
    /\ channel' = Append(channel, <<r, caller[r].cmd>>)
    /\ caller' = [caller EXCEPT ![r].at = "waiting"]
    /\ UNCHANGED <<links, peers, key, maps>>

UnderWay(r) ==
    \/ \E i \in DOMAIN channel : channel[i][1] = r
    \/ r \in queries \cup further \/ \E m \in sent : m[1] = r

\* The time-out of resolve_content and of the look-up of names, or a client
\* that disconnects.
TimeOut(r) ==
    /\ caller[r].at \in {"choose", "send", "waiting"}
    /\ Patient => ~UnderWay(r) /\ caller[r].at = "waiting"
    /\ caller' = [caller EXCEPT ![r] = Done("left")]
    /\ UNCHANGED <<links, peers, key, channel, maps>>

----------------------------------------------------------------------------
(* handle_command.                                                         *)

Command(r, cmd) ==
    /\ channel # <<>> /\ Head(channel) = <<r, cmd>> /\ channel' = Tail(channel)
    /\ UNCHANGED <<links, peers, key, further>>

Track(r, cmd) == /\ pending' = pending \cup {<<r, cmd>>}
                 /\ sent' = sent \cup {<<r, cmd>>}

\* FetchManifest and FetchFragment.
HandleFetch(r) ==
    /\ \E cmd \in {"manifest", "fragment"} : Command(r, cmd) /\ Track(r, cmd)
    /\ UNCHANGED <<caller, waiting, queries, builds>>

\* FindProviders and ResolveName: an earlier caller's channel is dropped.
HandleLookup(r) ==
    /\ \E cmd \in {"find", "name"} : Command(r, cmd)
    /\ Tell(waiting[key[r]], FALSE)
    /\ waiting' = [waiting EXCEPT ![key[r]] = r]
    /\ queries' = queries \cup {r}
    /\ UNCHANGED <<pending, sent, builds>>

\* BuildCircuit; Hops is at least two.
HandleBuild(r) ==
    /\ Command(r, "build") /\ Track(r, "build")
    /\ builds' = builds \cup {r}
    /\ UNCHANGED <<caller, waiting, queries>>

----------------------------------------------------------------------------
(* Answers.                                                                *)

Settle(m) ==
    /\ m \in sent /\ m \in pending
    /\ pending' = pending \ {m}
    /\ UNCHANGED <<links, peers, key, channel, waiting, queries, further>>

\* handle_content_response and OutboundFailure: the data, a wrong hash,
\* NotFound, an error, something else, or a failure of the message.
Answer(m) ==
    /\ m[2] # "build" /\ Settle(m) /\ sent' = sent \ {m}
    /\ \E ok \in BOOLEAN : Tell(m[1], ok)
    /\ UNCHANGED builds

\* handle_relay_cell_response.  CREATED of the first hop: the EXTEND cell is
\* sent and not tracked.  (A cell that is no CREATED, an error and a failure
\* are logged.)
FirstCreated(m) ==
    /\ m[2] = "build" /\ Settle(m)
    /\ sent' = IF m[1] \in builds THEN (sent \ {m}) \cup {<<m[1], "extend">>} ELSE sent \ {m}
    /\ UNCHANGED <<caller, builds>>
Unanswered(m) ==
    /\ m[2] = "build" /\ Settle(m) /\ sent' = sent \ {m}
    /\ UNCHANGED <<caller, builds>>

\* A cell or handshake that is invalid, an empty cell included, ends the build.
InvalidCell(m) ==
    /\ m[2] = "build" /\ m[1] \in builds /\ Settle(m) /\ sent' = sent \ {m}
    /\ Tell(m[1], FALSE) /\ builds' = builds \ {m[1]}

\* "Received response for unknown request".
Unknown(m) ==
    /\ m \in sent \ pending /\ sent' = sent \ {m}
    /\ UNCHANGED <<links, peers, caller, key, channel, pending, waiting, queries, further, builds>>

\* Whoever waits for the key of r, if anybody does.
TellWaiting(r, ok) == /\ Tell(waiting[key[r]], ok)
                      /\ waiting' = [waiting EXCEPT ![key[r]] = None]
                      /\ UNCHANGED <<links, peers, key, channel, pending, sent, builds>>

\* Mutant: an error is looked up under the contents only.
FailedContent(r) ==
    /\ r \in queries \cup further
    /\ queries' = queries \ {r} /\ further' = further \ {r}
    /\ IF key[r] \in Cid THEN TellWaiting(r, FALSE)
         ELSE UNCHANGED <<links, peers, caller, key, channel, pending, sent, waiting, builds>>

\* handle_kademlia_get_record: a record, or an error, goes to whoever waits
\* for the key; with a record the query is not over.
Found(r) ==
    /\ r \in queries \cup further
    /\ queries' = queries \ {r} /\ further' = further \cup {r}
    /\ TellWaiting(r, TRUE)
Failed(r) ==
    /\ r \in queries \cup further
    /\ queries' = queries \ {r} /\ further' = further \ {r}
    /\ TellWaiting(r, FALSE)
QueryFinished(r) ==
    /\ r \in further /\ further' = further \ {r}
    /\ UNCHANGED <<links, peers, caller, key, channel, pending, sent, waiting, queries, builds>>

\* The clean-up every minute leaves the builds alone.
Cleanup ==
    /\ \E r \in Resolver : Gone(r)
    /\ pending' = {m \in pending : m[2] = "build" \/ ~Gone(m[1])}
    /\ waiting' = [k \in Key |-> IF \E r \in Resolver : Gone(r) /\ waiting[k] = r
                                   THEN None ELSE waiting[k]]
    /\ UNCHANGED <<links, peers, caller, key, channel, sent, queries, further, builds>>

Handle(r) == HandleFetch(r) \/ HandleLookup(r) \/ HandleBuild(r)
Settled(m) == Answer(m) \/ FirstCreated(m) \/ Unanswered(m) \/ InvalidCell(m) \/ Unknown(m)

GNext ==
    \/ \E p \in Peer : Established(p) \/ Closed(p)
    \/ \E r \in Resolver : Call(r) \/ Choose(r) \/ SendCommand(r) \/ TimeOut(r) \/ Handle(r)
                           \/ Found(r) \/ Failed(r) \/ QueryFinished(r)
    \/ \E m \in sent : Settled(m)
    \/ Cleanup

\* The loop serves its sources in turn and libp2p settles what it was given;
\* resolvers go on, and time out when nothing comes.
GFairness ==
    \A r \in Resolver :
        /\ WF_gvars(Call(r) \/ Choose(r) \/ SendCommand(r)) /\ WF_gvars(Handle(r)) /\ WF_gvars(Failed(r) \/ QueryFinished(r))
        /\ WF_gvars(\E m \in sent : m[1] = r /\ Settled(m))
        /\ Patient => WF_gvars(TimeOut(r))

GSpec == GInit /\ [][GNext]_gvars /\ GFairness

----------------------------------------------------------------------------
\* A peer is listed, and may be chosen for a circuit, as long as one of the
\* connections to it is open, of which there may be several.
PeersAreConnected == peers = {p \in Peer : links[p] > 0}

\* Whoever waits is answered from a message or query that is under way, in
\* whatever order commands, answers, clean-ups and time-outs come; all but
\* those that wait for a circuit.
CallersTracked ==
    \A r \in Resolver :
        caller[r].at = "waiting" /\ caller[r].cmd # "build" =>
            \/ \E i \in DOMAIN channel : channel[i] = <<r, caller[r].cmd>>
            \/ <<r, caller[r].cmd>> \in pending \cap sent
            \/ waiting[key[r]] = r /\ r \in queries

\* What the loop knows of peers and callers is right, in whatever order events,
\* commands and clean-ups come (gateway/src/p2p.rs:248, 357).
LoopTracks == PeersAreConnected /\ CallersTracked

\* "If the circuit build or fetch fails, returns an error so the caller can
\* fall back to direct fetch": a resolver that asked for a circuit goes on to
\* a manifest, when the network is faster than its time-out.
FallsBack == \A r \in Resolver : Waits(r, "build") ~> caller[r].cmd = "manifest"
=============================================================================
