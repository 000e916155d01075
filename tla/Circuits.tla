------------------------------ MODULE Circuits ------------------------------
(***************************************************************************)
(* The building of relay circuits (protocol/src/zk_relay.rs, driven by the *)
(* event loops of p2p.rs in the node-runner and the gateway): a client     *)
(* opens a circuit at its first relay and asks that relay to extend it.    *)
(*                                                                         *)
(* Cells may be late, lost or delivered again.  The clock of the client    *)
(* may be off by up to MaxAge; relays' clocks agree.  Times are whole      *)
(* seconds, as the timestamps are: the relays' Instants are finer, so that *)
(* in the code each period below may end within the second.                *)
(*                                                                         *)
(* A circuit has two hops or more, and none becomes ready: the answer of   *)
(* the second hop is routed back as a cell of type CREATED, which          *)
(* process_cell drops.  Data cells are therefore not modelled.             *)
(***************************************************************************)
EXTENDS Integers, Sequences, FiniteSets

CONSTANTS Relay, Circuit, Client,
          Path(_, _),   \* Path(c, i): the i-th of the hops of circuit c
          MaxAge,       \* max_cell_age
          Lifetime,     \* circuit_lifetime: twice MaxAge (10 and 5 minutes)
          MaxCircuits, MaxPerPeer,
          ReplayCap,    \* capacity of the replay cache
          MaxTime, MaxHandled   \* bounds of the model: time, cells handled

\* The configuration's defaults are 5 and 10 minutes.
ASSUME CircuitAssumption ==
    /\ \A c \in Circuit : Path(c, 1) \in Relay /\ Path(c, 2) \in Relay
    /\ MaxAge \in Nat /\ Lifetime \in Nat /\ Lifetime >= 2 * MaxAge
    /\ {MaxCircuits, MaxPerPeer, ReplayCap, MaxTime, MaxHandled} \subseteq Nat

VARIABLES now, skew,   \* the time, and how far the client's clock is ahead
          building,    \* the client's circuits: step and time of creation
          state,       \* circuit_states of each relay
          seen,        \* replay_cache of each relay: CREATE -> time
          wire,        \* the cells that were sent
          opened,      \* history: when a relay opened a circuit for a CREATE
          torn,        \* history: the circuits a relay was told to destroy
          handled,     \* the cells the relays have handled
          cleared      \* history: the relays whose replay cache overflowed

zvars == <<now, skew, building, state, seen, wire, opened, torn, cleared, handled>>

\* A CREATE is known by its digest: one per hop of a circuit.
Create == Circuit \X {1, 2}
Open(p) == {c \in Circuit : state[p][c] # {}}

ZInit ==
    /\ now = MaxAge /\ skew \in -MaxAge .. MaxAge
    /\ building = [c \in Circuit |-> [step |-> "none"]]
    /\ state = [p \in Relay |-> [c \in Circuit |-> {}]]
    /\ seen = [p \in Relay |-> <<>>]
    /\ wire = {} /\ torn = {} /\ cleared = {} /\ handled = 0
    /\ opened = [p \in Relay |-> [d \in Create |-> <<>>]]

Send(cell) == wire' = wire \cup {cell}

----------------------------------------------------------------------------
(* The client.                                                             *)

\* build_circuit and get_create_cell.
Build(c) ==
    /\ building[c].step = "none"
    /\ building' = [building EXCEPT ![c] = [step |-> "first", born |-> now]]
    /\ Send([type |-> "create", c |-> c, hop |-> 1, from |-> Client, to |-> Path(c, 1),
             ts |-> now + skew, hts |-> now + skew])
    /\ UNCHANGED <<now, skew, state, seen, opened, torn, cleared, handled>>

\* process_created_response: the key is known and the circuit is extended.
Created(cell) ==
    /\ cell.type = "created" /\ building[cell.c].step = "first"
    /\ building' = [building EXCEPT ![cell.c].step = "second"]
    /\ Send([type |-> "extend", c |-> cell.c, key |-> cell.key, from |-> Client,
             to |-> Path(cell.c, 1), ts |-> now + skew, hts |-> now + skew])
    /\ UNCHANGED <<now, skew, state, seen, opened, torn, cleared, handled>>

\* destroy_circuit, and cleanup_expired, which sends nothing.
Forget(c) ==
    /\ building[c].step \in {"first", "second"}
    /\ building' = [building EXCEPT ![c] = [step |-> "gone"]]
    /\ \/ Send([type |-> "destroy", c |-> c, to |-> Path(c, 1)])
       \/ now - building[c].born > Lifetime /\ UNCHANGED wire
    /\ UNCHANGED <<now, skew, state, seen, opened, torn, cleared, handled>>

----------------------------------------------------------------------------
(* A relay.                                                                *)

Fresh(ts) == ts - now \in -MaxAge .. MaxAge
Expired(s) == now - s.born > Lifetime

\* check_and_record_replay: what the pruned cache holds, and whether it has
\* to be emptied.
Remembered(p) == {d \in DOMAIN seen[p] : now - seen[p][d] <= MaxAge}
Overflows(p) == Cardinality(Remembered(p)) >= ReplayCap
Known(p) == IF Overflows(p) THEN {} ELSE Remembered(p)
Record(p, d) ==
    /\ seen' = [seen EXCEPT ![p] = [x \in Known(p) \cup {d} |->
                   IF x \in Known(p) THEN seen[p][x] ELSE now]]
    /\ cleared' = IF Overflows(p) THEN cleared \cup {p} ELSE cleared

\* Mutant: the replay cache alone is to keep circuits apart.
AdmitsAgain(p, c, from) ==
    /\ Cardinality(Open(p)) < MaxCircuits
    /\ Cardinality({x \in Open(p) : \E s \in state[p][x] : s.prev = from}) < MaxPerPeer

\* The limits of handle_create.
Admits(p, c, from) ==
    /\ Cardinality(Open(p)) < MaxCircuits
    /\ c \notin Open(p)
    /\ Cardinality({x \in Open(p) : \E s \in state[p][x] : s.prev = from}) < MaxPerPeer

\* handle_create: what is seen for the first time is recorded before the
\* limits are looked at.
HandleCreate(cell) ==
    LET p == cell.to
        d == <<cell.c, cell.hop>>
    IN  /\ cell.type = "create" /\ Fresh(cell.ts) /\ Fresh(cell.hts)
        /\ Record(p, d)
        /\ IF d \notin Known(p) /\ Admits(p, cell.c, cell.from)
             THEN /\ opened' = [opened EXCEPT ![p][d] = Append(@, now)]
                  /\ state' = [state EXCEPT ![p][cell.c] =
                         {[prev |-> cell.from, next |-> {}, born |-> now,
                           key |-> Len(opened'[p][d])]}]
                  \* The second hop's answer goes nowhere.
                  /\ IF cell.hop = 1
                       THEN Send([type |-> "created", c |-> cell.c, key |-> Len(opened'[p][d])])
                       ELSE UNCHANGED wire
             ELSE UNCHANGED <<state, opened, wire>>
        /\ UNCHANGED <<now, skew, building, torn>>

\* handle_extend: it must be encrypted with the key of this very circuit.
HandleExtend(cell) ==
    /\ cell.type = "extend" /\ Fresh(cell.ts)
    /\ \E s \in state[cell.to][cell.c] :
         LET next == Path(cell.c, 2)
         IN  IF Expired(s)
               THEN /\ state' = [state EXCEPT ![cell.to][cell.c] = {}]
                    /\ UNCHANGED wire
               ELSE /\ s.prev = cell.from /\ s.key = cell.key
                    /\ state' = [state EXCEPT ![cell.to][cell.c] = {[s EXCEPT !.next = {next}]}]
                    /\ Send([type |-> "create", c |-> cell.c, hop |-> 2, from |-> cell.to,
                             to |-> next, ts |-> now, hts |-> cell.hts])
    /\ UNCHANGED <<now, skew, building, seen, opened, torn, cleared>>

\* handle_destroy, from whoever sends it, and on to the next hop.
HandleDestroy(cell) ==
    /\ cell.type = "destroy"
    /\ \E s \in state[cell.to][cell.c] :
         wire' = wire \cup {[type |-> "destroy", c |-> cell.c, to |-> n] : n \in s.next}
    /\ state' = [state EXCEPT ![cell.to][cell.c] = {}]
    /\ torn' = torn \cup {cell.c}
    /\ UNCHANGED <<now, skew, building, seen, opened, cleared>>

ProcessCell(cell) ==
    /\ handled < MaxHandled /\ handled' = handled + 1
    /\ HandleCreate(cell) \/ HandleExtend(cell) \/ HandleDestroy(cell)

\* cleanup_expired, every minute.
CleanUp(p) ==
    /\ \E c \in Open(p) : \E s \in state[p][c] : Expired(s)
    /\ state' = [state EXCEPT ![p] = [c \in Circuit |-> {s \in state[p][c] : ~Expired(s)}]]
    /\ UNCHANGED <<now, skew, building, seen, wire, opened, torn, cleared, handled>>

Tick == /\ now < MaxTime /\ now' = now + 1
        /\ UNCHANGED <<skew, building, state, seen, wire, opened, torn, cleared, handled>>

ZNext ==
    \/ \E c \in Circuit : Build(c) \/ Forget(c)
    \/ \E cell \in wire : Created(cell) \/ ProcessCell(cell)
    \/ \E p \in Relay : CleanUp(p)
    \/ Tick

ZSpec == ZInit /\ [][ZNext]_zvars

----------------------------------------------------------------------------
\* "Reject a CREATE handshake we've already processed": one handshake opens
\* one circuit at a relay, however often and late it arrives.  The replay
\* cache forgets sooner than a handshake of a fast clock goes stale; then the
\* circuit, which lives twice as long, must still be there and refuse it.
\* Hence a circuit that was destroyed is opened again, though not within
\* MaxAge unless the cache overflowed.
OneCircuitPerCreate ==
    \A p \in Relay, d \in Create : \A i, j \in DOMAIN opened[p][d] :
        i < j => /\ d[1] \in torn
                 /\ opened[p][d][j] - opened[p][d][i] > MaxAge \/ p \in cleared
=============================================================================
