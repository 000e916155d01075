------------------------------- MODULE Naming -------------------------------
(***************************************************************************)
(* Names of the form *.shadow (protocol/src/naming.rs) as the gateways     *)
(* handle them (gateway/src/main.rs, lib.rs, p2p.rs).  A name is a signed  *)
(* record with a sequence number.  A gateway keeps the records it signed   *)
(* itself and a cache of records by anybody; it publishes to the DHT and   *)
(* by gossip, and hears from both.                                         *)
(*                                                                         *)
(* All maps are keyed by the hash of the name and no operation touches two *)
(* names, so this is the life of one name.  Of a record its owner, what it *)
(* points to, the sequence number and the time of creation matter here;    *)
(* records that are not well formed or not properly signed are dropped     *)
(* everywhere and do not appear.                                           *)
(***************************************************************************)
EXTENDS Naturals

CONSTANTS
    Gateway,
    Client,         \* owners that sign records themselves
    Content,        \* what a record can point to
    Nothing,        \* what a revoked record points to
    None,           \* no record
    Rank,           \* the order of the owners' public keys
    Times,          \* times of creation; clocks need not agree
    MaxSeq,         \* u64::MAX
    MaxRequests     \* bound: requests in a behaviour

Owner == Gateway \cup Client

ASSUME RankAssumption ==
    /\ Rank \in [Owner -> Nat]
    /\ \A a, b \in Owner : Rank[a] = Rank[b] => a = b
ASSUME NumberAssumption ==
    MaxSeq \in Nat \ {0} /\ Times \subseteq Nat /\ MaxRequests \in Nat

Record == [owner : Owner, target : Content \cup {Nothing}, seq : 0..MaxSeq,
           created : Times]

ASSUME NoneAssumption == None \notin Record

VARIABLES
    owned,          \* owned_names: what each gateway signed for the name
    cache,          \* local_cache
    looking,        \* gateways that wait for an answer of the DHT
    dht,            \* records some node of the DHT may answer with
    mail,           \* gossip under way to each gateway
    requests,       \* requests so far
    offered         \* history: what each cache was given since it was emptied

net  == <<dht, mail>>
vars == <<owned, cache, looking, net, requests, offered>>

TypeOK ==
    /\ owned \in [Gateway -> Record \cup {None}]
    /\ cache \in [Gateway -> Record \cup {None}]
    /\ looking \in SUBSET Gateway
    /\ dht \in SUBSET Record
    /\ mail \in [Gateway -> SUBSET Record]
    /\ requests \in 0..MaxRequests
    /\ offered \in [Gateway -> SUBSET Record]

Init ==
    /\ owned = [g \in Gateway |-> None]
    /\ cache = [g \in Gateway |-> None]
    /\ looking = {} /\ dht = {}
    /\ mail = [g \in Gateway |-> {}]
    /\ requests = 0
    /\ offered = [g \in Gateway |-> {}]

-----------------------------------------------------------------------------
(* Records.                                                                *)

Revoked(r) == r.target = Nothing /\ r.seq = MaxSeq

\* Mutant: the later creation wins.
WinsLater(a, b) ==
    \/ a.seq > b.seq
    \/ a.seq = b.seq /\ a.created > b.created
    \/ a.seq = b.seq /\ a.created <= b.created /\ Rank[a.owner] <= Rank[b.owner]

\* resolve_conflict(a, b) returns a.
Wins(a, b) ==
    \/ a.seq > b.seq
    \/ a.seq = b.seq /\ a.created < b.created
    \/ a.seq = b.seq /\ a.created = b.created /\ Rank[a.owner] <= Rank[b.owner]

\* Mutant: a sequence number past the greatest one.
WithdrawnPast(r) == [r EXCEPT !.target = Nothing, !.seq = MaxSeq + 1]

\* create_name_record, update_name_record and revoke_name_record.
Created(g, x, time) == [owner |-> g, target |-> x, seq |-> 1, created |-> time]
Updated(r, x)       == [r EXCEPT !.target = x,
                                 !.seq = IF @ < MaxSeq THEN @ + 1 ELSE @]
Withdrawn(r)        == [r EXCEPT !.target = Nothing, !.seq = MaxSeq]

\* resolve_local.
Resolved(g) == IF owned[g] # None THEN owned[g] ELSE cache[g]

\* Mutants: the conflict is decided by the sequence number only, and the
\* record that comes later replaces its equal.
OfferNewer(g, r) ==
    /\ cache' = IF cache[g] # None /\ cache[g].seq > r.seq
                THEN cache ELSE [cache EXCEPT ![g] = r]
    /\ offered' = [offered EXCEPT ![g] = @ \cup {r}]

\* cache_record.
Offer(g, r) ==
    /\ cache' = IF cache[g] # None /\ Wins(cache[g], r)
                THEN cache ELSE [cache EXCEPT ![g] = r]
    /\ offered' = [offered EXCEPT ![g] = @ \cup {r}]

Empty(g) ==
    /\ cache' = [cache EXCEPT ![g] = None]
    /\ offered' = [offered EXCEPT ![g] = {}]

\* PublishName: either half may fail without a trace.
Publish(g, r) ==
    /\ dht' \in {dht, dht \cup {r}}
    /\ mail' \in {mail, [h \in Gateway |-> IF h = g THEN mail[h]
                                                    ELSE mail[h] \cup {r}]}

-----------------------------------------------------------------------------
(* Requests.                                                               *)

Request == requests < MaxRequests /\ requests' = requests + 1

\* name_assign_handler and auto_assign_domain.  register_name returns the
\* update of a name that the gateway owns without keeping it.
Assign(g, x) ==
    /\ Request
    /\ \/ /\ owned[g] # None
          /\ Publish(g, Updated(owned[g], x))
          /\ UNCHANGED owned
       \/ /\ owned[g] = None
          /\ cache[g] # None => cache[g].owner = g         \* else NameTaken
          /\ \E time \in Times :
                /\ owned' = [owned EXCEPT ![g] = Created(g, x, time)]
                /\ Publish(g, Created(g, x, time))
    /\ UNCHANGED <<cache, looking, offered>>

\* name_register_handler: a client's record is published even if it lost.
Register(g, r) ==
    /\ Request
    /\ r.owner \in Client
    /\ Offer(g, r)
    /\ Publish(g, r)
    /\ UNCHANGED <<owned, looking>>

\* name_delete_handler empties the cache but leaves owned_names alone.
Delete(g) ==
    /\ Request
    /\ Resolved(g) # None /\ Resolved(g).owner = g         \* else NotOwner
    /\ Empty(g)
    /\ Publish(g, Withdrawn(Resolved(g)))
    /\ UNCHANGED <<owned, looking>>

\* name_resolve_handler and resolve_name_record: first what is here ...
Ask(g) ==
    /\ Request
    /\ g \notin looking /\ Resolved(g) = None
    /\ looking' = looking \cup {g}
    /\ UNCHANGED <<owned, cache, net, offered>>

\* ... and then the DHT, which may have no answer, or none in time.
Answer(g) ==
    /\ g \in looking
    /\ looking' = looking \ {g}
    /\ \/ \E r \in dht : ~Revoked(r) /\ Offer(g, r)
       \/ UNCHANGED <<cache, offered>>
    /\ UNCHANGED <<owned, net, requests>>

-----------------------------------------------------------------------------

\* A gossiped record; a revoked one is dropped.
Receive(g, r) ==
    /\ r \in mail[g]
    /\ mail' = [mail EXCEPT ![g] = @ \ {r}]
    /\ IF Revoked(r) THEN UNCHANGED <<cache, offered>> ELSE Offer(g, r)
    /\ UNCHANGED <<owned, looking, dht, requests>>

Lose(g, r) ==
    /\ r \in mail[g]
    /\ mail' = [mail EXCEPT ![g] = @ \ {r}]
    /\ UNCHANGED <<owned, cache, looking, dht, requests, offered>>

\* The cache is full and this record the one that was updated longest ago.
Evict(g) ==
    /\ cache[g] # None
    /\ Empty(g)
    /\ UNCHANGED <<owned, looking, net, requests>>

\* Nothing of the naming manager is kept on disk; the key is configured.
Restart(g) ==
    /\ Request
    /\ owned' = [owned EXCEPT ![g] = None]
    /\ Empty(g)
    /\ looking' = looking \ {g}
    /\ mail' = [mail EXCEPT ![g] = {}]
    /\ UNCHANGED dht

Next ==
    \E g \in Gateway :
        \/ \E x \in Content : Assign(g, x)
        \/ \E r \in Record : Register(g, r) \/ Receive(g, r) \/ Lose(g, r)
        \/ Delete(g) \/ Ask(g) \/ Answer(g) \/ Evict(g) \/ Restart(g)

Spec == Init /\ [][Next]_vars

-----------------------------------------------------------------------------
(* Properties.                                                             *)

(* A cache holds the best of the records it was given, in whatever order    *)
(* requests, gossip and the DHT brought them.                               *)
CacheIsBest ==
    \A g \in Gateway :
        /\ cache[g] = None <=> offered[g] = {}
        /\ cache[g] # None => /\ cache[g] \in offered[g]
                              /\ \A r \in offered[g] : Wins(cache[g], r)

\* Two records neither of which wins alone: the same owner signed both with
\* the same sequence number and time of creation.
Tied(r, s) == r # s /\ Wins(r, s) /\ Wins(s, r)

(* Two gateways that were given the same records have the same record, even *)
(* when the records are from different owners, unless two of them are tied. *)
Agreement ==
    \A g, h \in Gateway :
        offered[g] = offered[h] /\ (\A r, s \in offered[g] : ~Tied(r, s))
            => cache[g] = cache[h]

(* "Updates must increment sequence": what a gateway has published for a    *)
(* name, it has published under different sequence numbers.                 *)
SequenceIncrements ==
    \A r, s \in dht : r.owner \in Gateway /\ s.owner = r.owner /\ r.seq = s.seq
                          => r = s

(* "Updates must ... be signed by the same key": a cached name keeps its    *)
(* owner.                                                                   *)
OwnerKept ==
    [][\A g \in Gateway : cache[g] # None /\ cache'[g] # None
                              => cache'[g].owner = cache[g].owner]_vars

(* "Assign a .shadow name to a CID": a gateway that has answered with       *)
(* success resolves the name to that content.                               *)
AssignTakesEffect ==
    [][\A g \in Gateway, x \in Content : Assign(g, x) => Resolved(g)'.target = x]_vars

(* "Delete (revoke) a .shadow name owned by this gateway": after it the     *)
(* gateway does not resolve the name to any content.                        *)
DeleteTakesEffect ==
    [][\A g \in Gateway : Delete(g) =>
           (Resolved(g)' # None => Resolved(g)'.target = Nothing)]_vars

(* "Publish revoked record to DHT so peers learn about it": a gateway that  *)
(* hears of a revocation does not go on with a record that loses to it.     *)
PeersLearn ==
    [][\A g \in Gateway, r \in Record :
           Receive(g, r) /\ Revoked(r) /\ cache[g] # None /\ ~Wins(cache[g], r)
               => cache'[g] # cache[g]]_vars

(* "Given two records for the same name, determine which one wins": a       *)
(* gateway that has two records resolves the name to the winner.            *)
ResolvesWinner ==
    \A g \in Gateway :
        owned[g] # None /\ cache[g] # None => Wins(Resolved(g), cache[g])
=============================================================================
