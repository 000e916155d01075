---------------------------- MODULE NetworkProofs ---------------------------
(***************************************************************************)
(* For any gateways, clients, contents and keys: a cache holds the best of *)
(* the records it was given, so gateways that were given the same records  *)
(* agree.  The argument is that resolve_conflict orders the records:       *)
(* every record wins against itself, of two records one wins, and winning  *)
(* is transitive.  The better of the cached record and a new one then wins *)
(* against all that the cached one won against.                            *)
(*                                                                         *)
(* And for any browsers, connections and limits: the maps of the signaling *)
(* server agree; browsers that have settled have each other, since every   *)
(* connection of an undisturbed pair has its negotiation ahead, under way  *)
(* or done; who waits for a fetch is in pending_fetches or has an answer.  *)
(* In the store of the JavaScript SDK whoever works on what is pinned does *)
(* it no harm, and each of its caches counts exactly what it has.          *)
(***************************************************************************)
EXTENDS Naming, Signaling, BrowserFetch, SdkStorage, SdkCache,
        FiniteSetTheorems, SequenceTheorems, WellFoundedInduction, TLAPS

(* What resolve_conflict compares are numbers.                              *)
LEMMA Compared ==
    ASSUME NEW r \in Record
    PROVE  r.seq \in Nat /\ r.created \in Nat /\ Rank[r.owner] \in Nat
<1>1. r.seq \in 0..MaxSeq /\ r.created \in Times /\ r.owner \in Owner
    BY DEF Record
<1>2. r.seq \in Nat
    BY <1>1, NumberAssumption
<1>3. r.created \in Nat
    BY <1>1, NumberAssumption
<1>4. Rank[r.owner] \in Nat
    BY <1>1, RankAssumption
<1> QED BY <1>2, <1>3, <1>4

(* resolve_conflict returns one of the two, in either order of arguments.   *)
LEMMA OneWins ==
    ASSUME NEW a \in Record, NEW b \in Record
    PROVE  Wins(a, a) /\ (Wins(a, b) \/ Wins(b, a))
<1>1. /\ a.seq \in Nat /\ a.created \in Nat /\ Rank[a.owner] \in Nat
      /\ b.seq \in Nat /\ b.created \in Nat /\ Rank[b.owner] \in Nat
    BY Compared
<1> QED BY <1>1 DEF Wins

(* A record that wins against a winner wins against what that one won.      *)
LEMMA WinsTransitive ==
    ASSUME NEW a \in Record, NEW b \in Record, NEW c \in Record,
           Wins(a, b), Wins(b, c)
    PROVE  Wins(a, c)
<1>1. /\ a.seq \in Nat /\ a.created \in Nat /\ Rank[a.owner] \in Nat
      /\ b.seq \in Nat /\ b.created \in Nat /\ Rank[b.owner] \in Nat
      /\ c.seq \in Nat /\ c.created \in Nat /\ Rank[c.owner] \in Nat
    BY Compared
<1> QED BY <1>1 DEF Wins

(* What the gateways sign is a record again.                                *)
LEMMA SignedRecords ==
    /\ \A g \in Gateway, x \in Content, time \in Times : Created(g, x, time) \in Record
    /\ \A r \in Record, x \in Content : Updated(r, x) \in Record
    /\ \A r \in Record : Withdrawn(r) \in Record
<1>1. ASSUME NEW g \in Gateway, NEW x \in Content, NEW time \in Times
      PROVE  Created(g, x, time) \in Record
  <2>1. 1 \in 0..MaxSeq /\ g \in Owner
      BY NumberAssumption DEF Owner
  <2> QED BY <2>1 DEF Created, Record
<1>2. ASSUME NEW r \in Record, NEW x \in Content PROVE Updated(r, x) \in Record
  <2>1. (IF r.seq < MaxSeq THEN r.seq + 1 ELSE r.seq) \in 0..MaxSeq
    <3>1. r.seq \in 0..MaxSeq
        BY DEF Record
    <3> QED BY <3>1, NumberAssumption
  <2> QED BY <2>1 DEF Updated, Record
<1>3. ASSUME NEW r \in Record PROVE Withdrawn(r) \in Record
  <2>1. MaxSeq \in 0..MaxSeq
      BY NumberAssumption
  <2> QED BY <2>1 DEF Withdrawn, Record
<1> QED BY <1>1, <1>2, <1>3

-----------------------------------------------------------------------------
(* Types.                                                                   *)

LEMMA OfferType ==
    ASSUME TypeOK, NEW g \in Gateway, NEW r \in Record, Offer(g, r)
    PROVE  /\ cache' \in [Gateway -> Record \cup {None}]
           /\ offered' \in [Gateway -> SUBSET Record]
BY DEF TypeOK, Offer

LEMMA EmptyType ==
    ASSUME TypeOK, NEW g \in Gateway, Empty(g)
    PROVE  /\ cache' \in [Gateway -> Record \cup {None}]
           /\ offered' \in [Gateway -> SUBSET Record]
BY DEF TypeOK, Empty

LEMMA PublishType ==
    ASSUME TypeOK, NEW g \in Gateway, NEW r \in Record, Publish(g, r)
    PROVE  dht' \in SUBSET Record /\ mail' \in [Gateway -> SUBSET Record]
<1>1. dht' \in SUBSET Record
    BY DEF TypeOK, Publish
<1>2. mail' \in [Gateway -> SUBSET Record]
    BY DEF TypeOK, Publish
<1> QED BY <1>1, <1>2

LEMMA RequestType ==
    ASSUME TypeOK, Request
    PROVE  requests' \in 0..MaxRequests
BY NumberAssumption DEF TypeOK, Request

(* TypeOK is an invariant: the state of the gateways is made of records.    *)
THEOREM NamingType == Spec => []TypeOK
<1>1. Init => TypeOK
    BY NumberAssumption DEF Init, TypeOK
<1>2. TypeOK /\ [Next]_vars => TypeOK'
  <2> SUFFICES ASSUME TypeOK, [Next]_vars PROVE TypeOK'
      OBVIOUS
  <2>1. CASE UNCHANGED vars
      BY <2>1 DEF TypeOK, vars, net
  <2>2. ASSUME NEW g \in Gateway, NEW x \in Content, Assign(g, x) PROVE TypeOK'
    <3>1. requests' \in 0..MaxRequests
        BY <2>2, RequestType DEF Assign
    <3>2. CASE owned[g] # None
      <4>1. Publish(g, Updated(owned[g], x)) /\ UNCHANGED owned
          BY <2>2, <3>2 DEF Assign
      <4>2. Updated(owned[g], x) \in Record
          BY <3>2, SignedRecords DEF TypeOK
      <4>3. dht' \in SUBSET Record /\ mail' \in [Gateway -> SUBSET Record]
          BY <4>1, <4>2, PublishType
      <4> QED BY <2>2, <3>1, <4>1, <4>3 DEF TypeOK, Assign
    <3>3. CASE owned[g] = None
      <4>1. PICK time \in Times :
                /\ owned' = [owned EXCEPT ![g] = Created(g, x, time)]
                /\ Publish(g, Created(g, x, time))
          BY <2>2, <3>3 DEF Assign
      <4>2. Created(g, x, time) \in Record
          BY SignedRecords
      <4>3. dht' \in SUBSET Record /\ mail' \in [Gateway -> SUBSET Record]
          BY <4>1, <4>2, PublishType
      <4>4. owned' \in [Gateway -> Record \cup {None}]
          BY <4>1, <4>2 DEF TypeOK
      <4> QED BY <2>2, <3>1, <4>3, <4>4 DEF TypeOK, Assign
    <3> QED BY <3>2, <3>3
  <2>3. ASSUME NEW g \in Gateway, NEW r \in Record, Register(g, r) PROVE TypeOK'
    <3>1. requests' \in 0..MaxRequests
        BY <2>3, RequestType DEF Register
    <3>2. dht' \in SUBSET Record /\ mail' \in [Gateway -> SUBSET Record]
        BY <2>3, PublishType DEF Register
    <3>3. /\ cache' \in [Gateway -> Record \cup {None}]
          /\ offered' \in [Gateway -> SUBSET Record]
        BY <2>3, OfferType DEF Register
    <3> QED BY <2>3, <3>1, <3>2, <3>3 DEF TypeOK, Register
  <2>4. ASSUME NEW g \in Gateway, Delete(g) PROVE TypeOK'
    <3>1. requests' \in 0..MaxRequests
        BY <2>4, RequestType DEF Delete
    <3>2. Withdrawn(Resolved(g)) \in Record
        BY <2>4, SignedRecords DEF TypeOK, Resolved, Delete
    <3>3. dht' \in SUBSET Record /\ mail' \in [Gateway -> SUBSET Record]
        BY <2>4, <3>2, PublishType DEF Delete
    <3>4. /\ cache' \in [Gateway -> Record \cup {None}]
          /\ offered' \in [Gateway -> SUBSET Record]
        BY <2>4, EmptyType DEF Delete
    <3> QED BY <2>4, <3>1, <3>3, <3>4 DEF TypeOK, Delete
  <2>5. ASSUME NEW g \in Gateway, Ask(g) PROVE TypeOK'
    <3>1. requests' \in 0..MaxRequests
        BY <2>5, RequestType DEF Ask
    <3> QED BY <2>5, <3>1 DEF TypeOK, Ask, net
  <2>6. ASSUME NEW g \in Gateway, Answer(g) PROVE TypeOK'
    <3>1. /\ cache' \in [Gateway -> Record \cup {None}]
          /\ offered' \in [Gateway -> SUBSET Record]
        BY <2>6, OfferType DEF TypeOK, Answer
    <3> QED BY <2>6, <3>1 DEF TypeOK, Answer, net
  <2>7. ASSUME NEW g \in Gateway, NEW r \in Record, Receive(g, r) PROVE TypeOK'
    <3>1. /\ cache' \in [Gateway -> Record \cup {None}]
          /\ offered' \in [Gateway -> SUBSET Record]
        BY <2>7, OfferType DEF TypeOK, Receive
    <3> QED BY <2>7, <3>1 DEF TypeOK, Receive
  <2>8. ASSUME NEW g \in Gateway, NEW r \in Record, Lose(g, r) PROVE TypeOK'
      BY <2>8 DEF TypeOK, Lose
  <2>9. ASSUME NEW g \in Gateway, Evict(g) PROVE TypeOK'
    <3>1. /\ cache' \in [Gateway -> Record \cup {None}]
          /\ offered' \in [Gateway -> SUBSET Record]
        BY <2>9, EmptyType DEF Evict
    <3> QED BY <2>9, <3>1 DEF TypeOK, Evict, net
  <2>10. ASSUME NEW g \in Gateway, Restart(g) PROVE TypeOK'
    <3>1. requests' \in 0..MaxRequests
        BY <2>10, RequestType DEF Restart
    <3>2. /\ cache' \in [Gateway -> Record \cup {None}]
          /\ offered' \in [Gateway -> SUBSET Record]
        BY <2>10, EmptyType DEF Restart
    <3> QED BY <2>10, <3>1, <3>2 DEF TypeOK, Restart
  <2> QED
      BY <2>1, <2>2, <2>3, <2>4, <2>5, <2>6, <2>7, <2>8, <2>9, <2>10 DEF Next
<1> QED BY <1>1, <1>2, PTL DEF Spec

-----------------------------------------------------------------------------
(* Conflicts.                                                               *)

(* cache_record keeps the best of what the cache was given.                 *)
LEMMA OfferKeepsBest ==
    ASSUME TypeOK, CacheIsBest, NEW g \in Gateway, NEW r \in Record, Offer(g, r)
    PROVE  CacheIsBest'
<1> SUFFICES ASSUME NEW h \in Gateway
             PROVE  /\ cache'[h] = None <=> offered'[h] = {}
                    /\ cache'[h] # None => /\ cache'[h] \in offered'[h]
                                           /\ \A s \in offered'[h] : Wins(cache'[h], s)
    BY DEF CacheIsBest
<1>1. CASE h # g
    BY <1>1 DEF Offer, TypeOK, CacheIsBest
<1>2. CASE h = g
  <2>1. offered'[g] = offered[g] \cup {r} /\ r # None
      BY NoneAssumption DEF Offer, TypeOK
  <2>2. CASE cache[g] = None
    <3>1. cache'[g] = r /\ offered'[g] = {r}
        BY <2>1, <2>2 DEF Offer, TypeOK, CacheIsBest
    <3> QED BY <1>2, <2>1, <3>1, OneWins
  <2>3. CASE cache[g] # None /\ Wins(cache[g], r)
    <3>1. cache'[g] = cache[g]
        BY <2>3 DEF Offer, TypeOK
    <3> QED BY <1>2, <2>1, <2>3, <3>1 DEF CacheIsBest
  <2>4. CASE cache[g] # None /\ ~Wins(cache[g], r)
    <3>1. cache'[g] = r /\ cache[g] \in Record /\ offered[g] \subseteq Record
        BY <2>4 DEF Offer, TypeOK
    <3>2. Wins(r, cache[g])
        BY <2>4, <3>1, OneWins
    <3>3. ASSUME NEW s \in offered[g] PROVE Wins(r, s)
      <4>1. Wins(cache[g], s)
          BY <2>4 DEF CacheIsBest
      <4> QED BY <3>1, <3>2, <4>1, WinsTransitive
    <3> QED BY <1>2, <2>1, <3>1, <3>3, OneWins
  <2> QED BY <2>2, <2>3, <2>4
<1> QED BY <1>1, <1>2

LEMMA EmptyKeepsBest ==
    ASSUME TypeOK, CacheIsBest, NEW g \in Gateway, Empty(g)
    PROVE  CacheIsBest'
BY DEF Empty, TypeOK, CacheIsBest

(* CacheIsBest is an invariant: whatever the order of requests, gossip and  *)
(* answers, a cache holds the best of the records it was given.             *)
THEOREM CachesAreBest == Spec => []CacheIsBest
<1>1. Init => CacheIsBest
    BY DEF Init, CacheIsBest
<1>2. TypeOK /\ CacheIsBest /\ [Next]_vars => CacheIsBest'
  <2> SUFFICES ASSUME TypeOK, CacheIsBest, [Next]_vars PROVE CacheIsBest'
      OBVIOUS
  <2>1. CASE UNCHANGED <<cache, offered>>
      BY <2>1 DEF CacheIsBest
  <2>2. ASSUME NEW g \in Gateway, NEW r \in Record, Register(g, r)
        PROVE  CacheIsBest'
      BY <2>2, OfferKeepsBest DEF Register
  <2>3. ASSUME NEW g \in Gateway, Answer(g) PROVE CacheIsBest'
    <3>1. CASE \E r \in dht : Offer(g, r)
        BY <3>1, OfferKeepsBest DEF TypeOK
    <3> QED BY <2>1, <2>3, <3>1 DEF Answer
  <2>4. ASSUME NEW g \in Gateway, NEW r \in Record, Receive(g, r)
        PROVE  CacheIsBest'
      BY <2>1, <2>4, OfferKeepsBest DEF Receive
  <2>5. ASSUME NEW g \in Gateway, Delete(g) \/ Evict(g) \/ Restart(g)
        PROVE  CacheIsBest'
      BY <2>5, EmptyKeepsBest DEF Delete, Evict, Restart
  <2>6. ASSUME NEW g \in Gateway, NEW x \in Content, Assign(g, x)
        PROVE  CacheIsBest'
      BY <2>1, <2>6 DEF Assign
  <2>7. ASSUME NEW g \in Gateway, NEW r \in Record, Lose(g, r)
        PROVE  CacheIsBest'
      BY <2>1, <2>7 DEF Lose
  <2>8. ASSUME NEW g \in Gateway, Ask(g) PROVE CacheIsBest'
      BY <2>1, <2>8 DEF Ask
  <2>9. CASE UNCHANGED vars
      BY <2>1, <2>9 DEF vars
  <2> QED
      BY <2>2, <2>3, <2>4, <2>5, <2>6, <2>7, <2>8, <2>9 DEF Next
<1> QED BY <1>1, <1>2, NamingType, PTL DEF Spec

(* Agreement is an invariant: gateways that were given the same records     *)
(* have the same record, whichever came first.                              *)
THEOREM GatewaysAgree == Spec => []Agreement
<1>1. CacheIsBest => Agreement
  <2> SUFFICES ASSUME CacheIsBest, NEW g \in Gateway, NEW h \in Gateway,
                      offered[g] = offered[h],
                      \A r, s \in offered[g] : ~Tied(r, s)
               PROVE  cache[g] = cache[h]
      BY DEF Agreement
  <2>1. CASE cache[g] = None
      BY <2>1 DEF CacheIsBest
  <2>2. CASE cache[g] # None
    <3>1. cache[h] # None
        BY <2>2 DEF CacheIsBest
    <3>2. cache[g] \in offered[g] /\ cache[h] \in offered[g]
        BY <2>2, <3>1 DEF CacheIsBest
    <3>3. Wins(cache[g], cache[h]) /\ Wins(cache[h], cache[g])
        BY <2>2, <3>1, <3>2 DEF CacheIsBest
    <3> QED BY <3>2, <3>3 DEF Tied
  <2> QED BY <2>1, <2>2
<1> QED BY <1>1, CachesAreBest, PTL
-----------------------------------------------------------------------------
(* The signaling server.  A peer is listed under a connection that has its  *)
(* name, or that was cleaned up while its client still sent; and of two     *)
(* connections with the name of one peer the server has taken note.         *)

SignalingTypeOK ==
    /\ connections \in [Conn -> Peer \cup {"none", Absent}]
    /\ peers \in [Peer -> Conn \cup {Absent}] /\ peer_connections = peers
    /\ task \in [Conn -> Messages \cup {"none", "wait", "send", "close", "tell", "ended"}]
    /\ idle \in SUBSET Conn /\ cleaning \in SUBSET Conn
    /\ crowded \in SUBSET Peer /\ swept \in SUBSET Conn

\* A connection has the name of its own browser, and none before it opens.
OwnNames ==
    \A c \in Conn : /\ connections[c] \in Peer => connections[c] = PeerOf[c]
                    /\ task[c] = "none" => connections[c] = Absent

\* Two connections of a peer are a crowd; the only one is where it is listed.
NamesListed ==
    \A c \in Conn :
        connections[c] \in Peer \ crowded =>
            /\ peers[connections[c]] = c
            /\ \A d \in Conn \ {c} : connections[d] # connections[c]

\* Where a peer is listed, it has a connection, or had one that was cleaned up.
ListsNamed ==
    \A p \in Peer :
        peers[p] # Absent => connections[peers[p]] = p \/ peers[p] \in swept

SignalingInv == SignalingTypeOK /\ OwnNames /\ NamesListed /\ ListsNamed

LEMMA SignalingStarts == SInit => SignalingInv
BY SignalingAssumption DEF SInit, SignalingInv, SignalingTypeOK, OwnNames, NamesListed,
   ListsNamed, Messages

(* What a step leaves that changes no map.                                  *)
LEMMA SameMaps ==
  ASSUME SignalingInv, UNCHANGED <<server, crowded, swept>>,
         idle' \in SUBSET Conn, cleaning' \in SUBSET Conn,
         task' \in [Conn -> Messages \cup {"none", "wait", "send", "close", "tell", "ended"}],
         \A c \in Conn : task'[c] = "none" => task[c] = "none"
  PROVE  SignalingInv'
BY DEF SignalingInv, SignalingTypeOK, OwnNames, NamesListed, ListsNamed, server, Messages

(* Messages are answered and relayed without a change of the maps.          *)
LEMMA TalkKeeps ==
  ASSUME SignalingInv, NEW c \in Conn,
         \/ End(c) \/ \E m \in Messages \ {PeerOf[c]} : ReceiveMessage(c, m)
         \/ Discover(c) \/ Heartbeat(c) \/ Relay(c) \/ Sent(c) \/ Told(c) \/ Silent(c)
  PROVE  SignalingInv'
<1>1. UNCHANGED <<server, crowded, swept>> /\ cleaning' = cleaning /\ idle' \subseteq idle \cup {c}
  BY DEF End, ReceiveMessage, Discover, Heartbeat, Relay, Sent, Told, Silent, cleanup
<1>2. task' = task \/ \E s \in Messages \cup {"wait", "send", "close", "ended"} :
                         task' = [task EXCEPT ![c] = s]
  BY DEF End, ReceiveMessage, Discover, Heartbeat, Relay, Sent, Told, Silent, Goto, Reply
<1>3. "none" \notin Messages \cup {"wait", "send", "close", "ended"}
  BY SignalingAssumption DEF Messages
<1>4. task' \in [Conn -> Messages \cup {"none", "wait", "send", "close", "tell", "ended"}]
  BY <1>2 DEF SignalingInv, SignalingTypeOK
<1>5. \A d \in Conn : task'[d] = "none" => task[d] = "none"
  BY <1>2, <1>3 DEF SignalingInv, SignalingTypeOK
<1> QED  BY <1>1, <1>4, <1>5, SameMaps DEF SignalingInv, SignalingTypeOK

(* A connection opens without a name.                                       *)
LEMMA OpenKeeps ==
  ASSUME SignalingInv, NEW c \in Conn, Open(c)
  PROVE  SignalingInv'
<1> USE SignalingAssumption DEF Open, Goto, cleanup
<1>1. SignalingTypeOK' /\ connections[c] = Absent /\ connections'[c] = "none"
      /\ \A d \in Conn \ {c} : connections'[d] = connections[d] /\ task'[d] = task[d]
  BY DEF SignalingInv, SignalingTypeOK, OwnNames
<1>2. OwnNames'
  BY <1>1 DEF SignalingInv, SignalingTypeOK, OwnNames
<1>3. NamesListed' /\ ListsNamed'
  BY <1>1 DEF SignalingInv, SignalingTypeOK, NamesListed, ListsNamed
<1> QED  BY <1>1, <1>2, <1>3 DEF SignalingInv

(* An announcement lists the peer where it comes from, and tells of a crowd. *)
LEMMA AnnounceKeeps ==
  ASSUME SignalingInv, NEW c \in Conn, Announce(c)
  PROVE  SignalingInv'
<1> USE SignalingAssumption
<1> DEFINE p == PeerOf[c]
<1>1. /\ cleaning' = cleaning /\ idle' = idle /\ task[c] = "announce"
      /\ \E s \in {"send", "wait"} : task' = [task EXCEPT ![c] = s]
  BY DEF Announce, Reply, Goto, cleanup
<1>2. /\ task' \in [Conn -> Messages \cup {"none", "wait", "send", "close", "tell", "ended"}]
      /\ task[c] # "none" /\ \A d \in Conn : task'[d] = "none" => task[d] = "none"
  BY <1>1 DEF SignalingInv, SignalingTypeOK
<1>3. CASE UNCHANGED <<server, crowded, swept>>
  BY <1>1, <1>2, <1>3, SameMaps DEF SignalingInv, SignalingTypeOK
<1>4. CASE /\ peers' = [peers EXCEPT ![p] = c]
           /\ peer_connections' = [peer_connections EXCEPT ![p] = c]
           /\ connections' = [connections EXCEPT ![c] = IF @ = Absent THEN Absent ELSE p]
           /\ crowded' = crowded \cup { q \in {p} : \E d \in Conn \ {c} : connections[d] = q }
           /\ swept' = IF connections[c] = Absent THEN swept \cup {c} ELSE swept
  <2>1. SignalingTypeOK' /\ p \in Peer
    BY <1>1, <1>2, <1>4 DEF SignalingInv, SignalingTypeOK
  <2>2. /\ peers'[p] = c /\ \A q \in Peer \ {p} : peers'[q] = peers[q]
        /\ connections'[c] = IF connections[c] = Absent THEN Absent ELSE p
        /\ \A d \in Conn \ {c} : connections'[d] = connections[d]
    BY <1>4, <2>1 DEF SignalingInv, SignalingTypeOK
  <2>3. OwnNames'
    BY <1>2, <2>2 DEF SignalingInv, OwnNames
  <2>4. NamesListed'
    <3> SUFFICES ASSUME NEW d \in Conn, connections'[d] \in Peer \ crowded'
                 PROVE  /\ peers'[connections'[d]] = d
                        /\ \A e \in Conn \ {d} : connections'[e] # connections'[d]
      BY DEF NamesListed
    <3>1. p \in crowded' \/ \A e \in Conn \ {c} : connections[e] # p
      BY <1>4
    <3>2. CASE d = c
      BY <2>2, <3>1, <3>2
    <3>3. CASE d # c
      <4>1. connections'[d] = connections[d] /\ connections[d] # p
        BY <2>2, <3>1, <3>3
      <4>2. connections[d] \notin crowded
        BY <1>4, <4>1
      <4>3. /\ peers[connections[d]] = d
            /\ \A e \in Conn \ {d} : connections[e] # connections[d]
        BY <4>1, <4>2 DEF SignalingInv, NamesListed
      <4> QED  BY <2>2, <3>3, <4>1, <4>3
    <3> QED  BY <3>2, <3>3
  <2>5. ListsNamed'
    <3> SUFFICES ASSUME NEW q \in Peer, peers'[q] # Absent
                 PROVE  connections'[peers'[q]] = q \/ peers'[q] \in swept'
      BY DEF ListsNamed
    <3>1. CASE q = p
      BY <1>4, <2>2, <3>1
    <3>2. CASE q # p
      <4>1. peers'[q] = peers[q] /\ peers[q] \in Conn
        BY <2>2, <3>2 DEF SignalingInv, SignalingTypeOK
      <4>2. peers[q] \in swept \/ connections[peers[q]] = q
        BY <4>1 DEF SignalingInv, ListsNamed
      <4>3. peers[q] = c => connections[c] # q
        BY <3>2 DEF SignalingInv, OwnNames
      <4> QED  BY <1>4, <2>2, <4>1, <4>2, <4>3
    <3> QED  BY <3>1, <3>2
  <2> QED  BY <2>1, <2>3, <2>4, <2>5 DEF SignalingInv
<1> QED  BY <1>3, <1>4 DEF Announce

(* A connection that goes takes its peer with it, whoever it is listed for. *)
LEMMA RemovedKeeps ==
  ASSUME SignalingInv, NEW c \in Conn, Removed(c), crowded' = crowded,
         swept \subseteq swept', swept' \subseteq Conn, cleaning' \in SUBSET Conn,
         task' \in [Conn -> Messages \cup {"none", "wait", "send", "close", "tell", "ended"}],
         \A d \in Conn : task'[d] = "none" => task[d] = "none"
  PROVE  SignalingInv'
<1> USE SignalingAssumption
<1>1. /\ connections'[c] = Absent /\ \A d \in Conn \ {c} : connections'[d] = connections[d]
      /\ connections' \in [Conn -> Peer \cup {"none", Absent}] /\ idle' \in SUBSET Conn
  BY DEF Removed, SignalingInv, SignalingTypeOK
<1>2. /\ peers' \in [Peer -> Conn \cup {Absent}] /\ peer_connections' = peers'
      /\ connections[c] \in Peer => peers'[connections[c]] = Absent
      /\ \A q \in Peer : q # connections[c] => peers'[q] = peers[q]
  BY DEF Removed, SignalingInv, SignalingTypeOK
<1>3. SignalingTypeOK'
  BY <1>1, <1>2 DEF SignalingInv, SignalingTypeOK
<1>4. OwnNames'
  BY <1>1 DEF SignalingInv, OwnNames
<1>5. NamesListed'
  <2> SUFFICES ASSUME NEW d \in Conn, connections'[d] \in Peer \ crowded
               PROVE  /\ peers'[connections'[d]] = d
                      /\ \A e \in Conn \ {d} : connections'[e] # connections'[d]
    BY DEF NamesListed
  <2>1. d # c /\ connections'[d] = connections[d]
    BY <1>1
  <2>2. peers[connections[d]] = d /\ \A e \in Conn \ {d} : connections[e] # connections[d]
    BY <2>1 DEF SignalingInv, NamesListed
  <2>3. \A e \in Conn \ {d} : connections'[e] # connections[d]
    BY <1>1, <2>1, <2>2
  <2> QED  BY <1>2, <2>1, <2>2, <2>3
<1>6. ListsNamed'
  <2> SUFFICES ASSUME NEW q \in Peer, peers'[q] # Absent
               PROVE  connections'[peers'[q]] = q \/ peers'[q] \in swept'
    BY DEF ListsNamed
  <2>1. q # connections[c] /\ peers'[q] = peers[q]
    BY <1>2
  <2>2. peers[q] \in Conn /\ (connections[peers[q]] = q \/ peers[q] \in swept)
    BY <2>1 DEF SignalingInv, SignalingTypeOK, ListsNamed
  <2> QED  BY <1>1, <2>1, <2>2
<1> QED  BY <1>3, <1>4, <1>5, <1>6 DEF SignalingInv

(* handle_disconnect, by the connection's task or by cleanup_stale.         *)
LEMMA DisconnectKeeps ==
  ASSUME SignalingInv, NEW c \in Conn, Close(c) \/ Sweep(c)
  PROVE  SignalingInv'
<1>1. CASE Close(c)
  <2>1. \E s \in {"tell", "ended"} : task' = [task EXCEPT ![c] = s]
    BY <1>1 DEF Close, Goto
  <2>2. /\ task' \in [Conn -> Messages \cup {"none", "wait", "send", "close", "tell", "ended"}]
        /\ \A d \in Conn : task'[d] = "none" => task[d] = "none"
    BY <2>1 DEF SignalingInv, SignalingTypeOK
  <2>3. Removed(c) /\ cleaning' = cleaning /\ crowded' = crowded /\ swept' = swept
    BY <1>1 DEF Close
  <2> QED  BY <2>2, <2>3, RemovedKeeps DEF SignalingInv, SignalingTypeOK
<1>2. CASE Sweep(c)
  <2>1. /\ Removed(c) /\ cleaning' \subseteq cleaning /\ crowded' = crowded /\ task' = task
        /\ swept \subseteq swept' /\ swept' \subseteq swept \cup {c}
    BY <1>2 DEF Sweep
  <2> QED  BY <2>1, RemovedKeeps DEF SignalingInv, SignalingTypeOK
<1> QED  BY <1>1, <1>2

LEMMA SignalingKeeps == SignalingInv /\ [SNext]_svars => SignalingInv'
<1> SUFFICES ASSUME SignalingInv, [SNext]_svars PROVE SignalingInv'
  OBVIOUS
<1>1. CASE UNCHANGED svars
  BY <1>1 DEF svars, server, cleanup, SignalingInv, SignalingTypeOK, OwnNames, NamesListed,
              ListsNamed
<1>2. CASE FindStale \/ Swept
  <2>1. UNCHANGED <<server, crowded, swept, task>>
    BY <1>2 DEF FindStale, Swept
  <2>2. idle' = idle /\ (cleaning' = idle \/ cleaning' = cleaning)
    BY <1>2 DEF FindStale, Swept
  <2> QED  BY <2>1, <2>2, SameMaps DEF SignalingInv, SignalingTypeOK
<1> QED  BY <1>1, <1>2, TalkKeeps, OpenKeeps, AnnounceKeeps, DisconnectKeeps DEF SNext

(* The three maps of the signaling server agree, as far as they can, for    *)
(* any peers and connections and any limit, however clients, relays and the *)
(* clean-up interleave.                                                     *)
THEOREM MapsAreInStep == SSpec => []MapsAgree
<1>1. SignalingInv => MapsAgree
  BY SignalingAssumption DEF SignalingInv, SignalingTypeOK, NamesListed, ListsNamed, MapsAgree,
     ListedUnlessCrowded, ListedIsReachable, Registered
<1> QED  BY <1>1, SignalingStarts, SignalingKeeps, PTL DEF SSpec

-----------------------------------------------------------------------------
(* The store of the JavaScript SDK: pinned content is kept.                *)

Operations == {"store", "get", "pin", "unpin", "delete", "collect"}
Collecting == {"measure", "list", "look", "evict", "ask", "find", "delete", "forget"}

StepsOf(op) ==
    CASE op = "store"   -> {"manifest", "fragments", "check"} \cup Collecting
      [] op = "collect" -> Collecting
      [] op = "get"     -> {"content", "meta", "write"}
      [] op = "delete"  -> {"ask", "find", "delete", "forget"}
      [] OTHER          -> {"meta", "write"}

\* A call that is what call r is.
CallLike(r) ==
    [op : Operations, on : {r.on}, step : StepsOf(r.op), todo : {r.todo},
     copy : {r.copy}, tofree : {r.tofree}, alone : BOOLEAN]

\* What call r is about to do takes nothing away, and leaves its content
\* pinned.
Harmless(r) ==
    /\ r.op # "unpin"
    /\ r.step \notin {"manifest", "fragments", "find", "delete", "forget"}
    /\ r.op = "get" /\ r.step = "write" => r.copy = TRUE

\* Nobody else works on the content of a call that pins it alone; what was
\* pinned so is pinned still, and whoever works on it does it no harm.
PinInv ==
    /\ DOMAIN work = Caller /\ DOMAIN pinned = Cid /\ DOMAIN fragments = Cid
    /\ \A t \in Caller : work[t] = NoTask \/ work[t] \in CallLike(work[t])
    /\ \A t \in Caller : work[t] # NoTask /\ work[t].alone =>
          /\ work[t].op = "pin" /\ work[t].on \in Cid
          /\ \A u \in Caller \ {t} : work[u] # NoTask =>
                work[u].op \notin {"store", "collect"} /\ work[u].on # work[t].on
    /\ kept \subseteq Cid
    /\ \A c \in kept : pinned[c] = TRUE
    /\ \A c \in kept, t \in Caller :
          work[t] # NoTask /\ work[t].on = c => Harmless(work[t])

LEMMA PinStarts == StorageInit => PinInv
BY DEF StorageInit, PinInv

\* A step of a call that leaves alone what is kept, after which the call is r.
LEMMA CallKeeps ==
  ASSUME PinInv, NEW t \in Caller, NEW r, work[t] # NoTask,
         work' = [work EXCEPT ![t] = r],
         \/ r = NoTask
         \/ /\ r \in CallLike(r) /\ r.op = work[t].op /\ r.alone = work[t].alone
            /\ r.on = work[t].on \/ r.op \in {"store", "collect"}
            /\ r.on \in kept => Harmless(r),
         UNCHANGED kept, DOMAIN fragments' = Cid,
         DOMAIN pinned' = Cid, \A c \in kept : pinned'[c] = pinned[c]
  PROVE  PinInv'
<1>1. /\ DOMAIN work' = Caller /\ work'[t] = r
      /\ \A u \in Caller \ {t} : work'[u] = work[u]
  BY DEF PinInv
<1>2. ASSUME NEW u \in Caller PROVE work'[u] = NoTask \/ work'[u] \in CallLike(work'[u])
  BY <1>1 DEF PinInv
<1>3. ASSUME NEW u \in Caller, work'[u] # NoTask, work'[u].alone,
             NEW v \in Caller \ {u}, work'[v] # NoTask
      PROVE  work'[v].op \notin {"store", "collect"} /\ work'[v].on # work'[u].on
  <2>1. work[u] # NoTask /\ work[u].alone /\ work[u].op = work'[u].op
    BY <1>1, <1>3
  <2>2. work[v] # NoTask /\ work[v].op = work'[v].op
    BY <1>1, <1>3
  <2>3. work[u].op = "pin" /\ work[v].op \notin {"store", "collect"} /\ work[v].on # work[u].on
    BY <1>3, <2>1, <2>2 DEF PinInv
  <2>4. work'[u].on = work[u].on /\ work'[v].on = work[v].on
    BY <1>1, <1>3, <2>1, <2>2, <2>3
  <2> QED  BY <2>1, <2>2, <2>3, <2>4
<1>4. ASSUME NEW u \in Caller, work'[u] # NoTask, work'[u].alone
      PROVE  work'[u].op = "pin" /\ work'[u].on \in Cid
  <2>1. work[u] # NoTask /\ work[u].alone /\ work[u].op = work'[u].op
    BY <1>1, <1>4
  <2>2. work[u].op = "pin" /\ work[u].on \in Cid
    BY <2>1 DEF PinInv
  <2>3. work'[u].on = work[u].on
    BY <1>1, <1>4, <2>1, <2>2
  <2> QED  BY <2>1, <2>2, <2>3
<1>5. ASSUME NEW c \in kept, NEW u \in Caller, work'[u] # NoTask, work'[u].on = c
      PROVE  Harmless(work'[u])
  <2>1. CASE u = t
    BY <1>1, <1>5, <2>1
  <2>2. CASE u # t
    BY <1>1, <1>5, <2>2 DEF PinInv
  <2> QED  BY <2>1, <2>2
<1>6. (\A c \in kept : pinned'[c] = TRUE) /\ kept \subseteq Cid
  BY DEF PinInv
<1> QED  BY <1>1, <1>2, <1>3, <1>4, <1>5, <1>6 DEF PinInv

\* A call begins: one that is pinning the same content is not alone any more,
\* and what is stored or unpinned is not kept.
LEMMA BeginKeeps ==
  ASSUME PinInv, NEW t \in Caller, NEW op \in Operations, NEW c \in Cid,
         NEW step \in StepsOf(op), Begin(t, op, c, step),
         op \notin {"store", "unpin"} => step \in {"content", "meta", "ask", "measure"}
  PROVE  PinInv'
<1>1. PICK r : r = [op |-> op, on |-> c, step |-> step, todo |-> {}, copy |-> Nil,
                    tofree |-> 0, alone |-> op = "pin" /\ WorkOn(c) = {}]
  OBVIOUS
<1>2. /\ DOMAIN work' = Caller /\ work'[t] = r /\ work[t] = NoTask
      /\ \A u \in Caller \ {t} :
            work'[u] = IF work[u].op = "pin" /\ (work[u].on = c \/ op \in {"store", "collect"})
                       THEN [work[u] EXCEPT !.alone = FALSE] ELSE work[u]
      /\ UNCHANGED <<pinned, fragments>>
      /\ kept' = IF op \in {"store", "unpin"} THEN kept \ {c} ELSE kept
  BY <1>1 DEF Begin, backend
<1>3. r \in CallLike(r) /\ r.op = op /\ r.on = c /\ r.step = step /\ r # NoTask
      /\ (r.alone <=> (op = "pin" /\ WorkOn(c) = {}))
  BY <1>1 DEF CallLike, NoTask, Operations
<1>4. ASSUME NEW u \in Caller \ {t}
      PROVE  /\ work'[u] = NoTask <=> work[u] = NoTask
             /\ work[u] # NoTask =>
                  /\ work'[u] \in CallLike(work'[u])
                  /\ work'[u].op = work[u].op /\ work'[u].on = work[u].on
                  /\ work'[u].step = work[u].step /\ work'[u].copy = work[u].copy
                  /\ work'[u].alone =>
                       /\ work[u].alone
                       /\ ~(work[u].op = "pin" /\ (work[u].on = c \/ op \in {"store", "collect"}))
  <2>1. CASE work[u] = NoTask
    BY <1>2, <2>1 DEF NoTask
  <2>2. CASE work[u] # NoTask
    <3>1. work[u] \in CallLike(work[u])
      BY <2>2 DEF PinInv
    <3> QED  BY <1>2, <2>2, <3>1 DEF CallLike, NoTask, Operations
  <2> QED  BY <2>1, <2>2
<1>5. ASSUME NEW u \in Caller PROVE work'[u] = NoTask \/ work'[u] \in CallLike(work'[u])
  BY <1>2, <1>3, <1>4
<1>6. ASSUME NEW u \in Caller, work'[u] # NoTask, work'[u].alone
      PROVE  /\ work'[u].op = "pin" /\ work'[u].on \in Cid
             /\ \A v \in Caller \ {u} : work'[v] # NoTask =>
                  work'[v].op \notin {"store", "collect"} /\ work'[v].on # work'[u].on
  <2>1. CASE u = t
    <3>1. op = "pin" /\ WorkOn(c) = {}
      BY <1>2, <1>3, <1>6, <2>1
    <3>2. ASSUME NEW v \in Caller \ {u}, work'[v] # NoTask
          PROVE  work'[v].op \notin {"store", "collect"} /\ work'[v].on # c
      <4>1. work[v] # NoTask /\ work[v].op = work'[v].op /\ work[v].on = work'[v].on
        BY <1>4, <2>1, <3>2
      <4>2. work[v].op # "none"
        BY <4>1 DEF PinInv, CallLike, Operations
      <4> QED  BY <3>1, <4>1, <4>2 DEF WorkOn
    <3> QED  BY <1>2, <1>3, <2>1, <3>1, <3>2
  <2>2. CASE u # t
    <3>1. work[u] # NoTask /\ work[u].alone /\ work'[u].op = work[u].op /\ work'[u].on = work[u].on
      BY <1>4, <1>6, <2>2
    <3>2. work[u].op = "pin" /\ work[u].on \in Cid /\ work[u].on # c /\ op \notin {"store", "collect"}
      BY <1>4, <1>6, <2>2, <3>1 DEF PinInv
    <3>3. ASSUME NEW v \in Caller \ {u}, work'[v] # NoTask
          PROVE  work'[v].op \notin {"store", "collect"} /\ work'[v].on # work'[u].on
      <4>1. CASE v = t
        BY <1>2, <1>3, <3>1, <3>2, <4>1
      <4>2. CASE v # t
        <5>1. work[v] # NoTask /\ work[v].op = work'[v].op /\ work[v].on = work'[v].on
          BY <1>4, <3>3, <4>2
        <5> QED  BY <3>1, <3>3, <5>1 DEF PinInv
      <4> QED  BY <4>1, <4>2
    <3> QED  BY <3>1, <3>2, <3>3
  <2> QED  BY <2>1, <2>2
<1>7. kept' \subseteq kept /\ (c \in kept' => op \notin {"store", "unpin"})
  BY <1>2
<1>8. ASSUME NEW d \in kept', NEW u \in Caller, work'[u] # NoTask, work'[u].on = d
      PROVE  Harmless(work'[u])
  <2>1. CASE u = t
    BY <1>2, <1>3, <1>7, <1>8, <2>1 DEF Harmless
  <2>2. CASE u # t
    BY <1>4, <1>7, <1>8, <2>2 DEF PinInv, Harmless
  <2> QED  BY <2>1, <2>2
<1>9. kept' \subseteq Cid /\ (\A d \in kept' : pinned'[d] = TRUE)
      /\ DOMAIN pinned' = Cid /\ DOMAIN fragments' = Cid
  BY <1>2, <1>7 DEF PinInv
<1> QED  BY <1>2, <1>5, <1>6, <1>8, <1>9 DEF PinInv

\* What is pinned by a call that was alone is kept from then on.
LEMMA WriteKeeps == ASSUME PinInv, NEW t \in Caller, WriteMeta(t) PROVE PinInv'
<1>1. PICK c, w : c = work[t].on /\ w = work[t]
  OBVIOUS
<1>2. /\ w # NoTask /\ w \in CallLike(w) /\ w.step = "write"
      /\ w.op \in {"get", "pin", "unpin"}
  <2>1. w.step = "write"
    BY <1>1 DEF WriteMeta
  <2>2. w # NoTask /\ w \in CallLike(w)
    BY <1>1, <2>1 DEF PinInv, NoTask
  <2> QED  BY <1>1, <2>1, <2>2 DEF CallLike, StepsOf, Operations, Collecting
<1>3. /\ work' = [work EXCEPT ![t] = NoTask] /\ fragments' = fragments
      /\ pinned' = [pinned EXCEPT ![c] = (w.op = "pin" \/ (w.op = "get" /\ w.copy))]
      /\ kept' = IF w.alone THEN kept \cup {c} ELSE kept
  BY <1>1 DEF WriteMeta, EndCall
<1>4. /\ DOMAIN work' = Caller /\ work'[t] = NoTask
      /\ \A u \in Caller \ {t} : work'[u] = work[u]
  BY <1>3 DEF PinInv
<1>5. w.alone => /\ w.op = "pin" /\ c \in Cid
                 /\ \A u \in Caller \ {t} : work[u] # NoTask => work[u].on # c
  BY <1>1, <1>2 DEF PinInv
<1>6. ASSUME NEW d \in kept' PROVE pinned'[d] = TRUE
  <2>1. CASE d # c
    BY <1>3, <1>6, <2>1 DEF PinInv
  <2>2. CASE d = c
    <3>1. w.op = "pin" \/ (w.op = "get" /\ w.copy = TRUE)
      BY <1>1, <1>2, <1>3, <1>5, <1>6, <2>2 DEF PinInv, Harmless
    <3>2. c \in DOMAIN pinned
      BY <1>3, <1>5, <1>6, <2>2 DEF PinInv
    <3> QED  BY <1>2, <1>3, <2>2, <3>1, <3>2
  <2> QED  BY <2>1, <2>2
<1>7. ASSUME NEW d \in kept', NEW u \in Caller, work'[u] # NoTask, work'[u].on = d
      PROVE  Harmless(work'[u])
  <2>1. u # t /\ work'[u] = work[u]
    BY <1>4, <1>7
  <2>2. d \in kept
    BY <1>3, <1>5, <1>7, <2>1
  <2> QED  BY <1>7, <2>1, <2>2 DEF PinInv
<1>8. DOMAIN pinned' = Cid /\ DOMAIN fragments' = Cid /\ kept' \subseteq Cid
  BY <1>2, <1>3, <1>5 DEF PinInv
<1>9. ASSUME NEW u \in Caller, work'[u] # NoTask, work'[u].alone
      PROVE  /\ work'[u].op = "pin" /\ work'[u].on \in Cid
             /\ \A v \in Caller \ {u} : work'[v] # NoTask =>
                  work'[v].op \notin {"store", "collect"} /\ work'[v].on # work'[u].on
  BY <1>4, <1>9 DEF PinInv
<1> QED  BY <1>4, <1>6, <1>7, <1>8, <1>9 DEF PinInv

\* What a call that is in progress is like.
LEMMA Working ==
  ASSUME PinInv, NEW t \in Caller, work[t].step # "none"
  PROVE  /\ work[t] # NoTask /\ work[t] \in CallLike(work[t])
         /\ work[t].on \in kept => Harmless(work[t])
BY DEF PinInv, NoTask

LEMMA EndKeeps ==
  ASSUME PinInv, NEW t \in Caller, work[t] # NoTask, EndCall(t), UNCHANGED kept,
         DOMAIN fragments' = Cid, DOMAIN pinned' = Cid,
         \A c \in kept : pinned'[c] = pinned[c]
  PROVE  PinInv'
BY CallKeeps DEF EndCall

\* A call goes on to another step, and may take notes.
LEMMA StepKeeps ==
  ASSUME PinInv, NEW t \in Caller, NEW r, work[t].step # "none",
         work' = [work EXCEPT ![t] = r],
         r.op = work[t].op, r.alone = work[t].alone, r.on = work[t].on,
         r \in CallLike(r),
         r.on \in kept =>
           /\ r.step \notin {"manifest", "fragments", "find", "delete", "forget"}
           /\ r.op = "get" /\ r.step = "write" => r.copy = TRUE,
         UNCHANGED kept, DOMAIN fragments' = Cid, DOMAIN pinned' = Cid,
         \A c \in kept : pinned'[c] = pinned[c]
  PROVE  PinInv'
<1>1. r.on \in kept => Harmless(r)
  BY Working DEF Harmless
<1> QED  BY <1>1, Working, CallKeeps

LEMMA StoreStepsKeep ==
  ASSUME PinInv, NEW t \in Caller,
         StoreManifest(t) \/ StoreFragment(t) \/ StoreMeta(t) \/ MaybeRunGC(t)
  PROVE  PinInv'
<1> DEFINE w == work[t]
<1>1. w.step \in {"manifest", "fragments", "check"}
  BY DEF StoreManifest, StoreFragment, StoreMeta, MaybeRunGC
<1>2. w # NoTask /\ w \in CallLike(w) /\ (w.on \in kept => Harmless(w))
  BY <1>1, Working
<1>3. w.op = "store"
  BY <1>1, <1>2 DEF CallLike, StepsOf, Operations, Collecting
<1>4. ASSUME StoreManifest(t) PROVE PinInv'
  <2>1. PICK r : r = [w EXCEPT !.step = "fragments", !.todo = Fragments]
    OBVIOUS
  <2>2. r \in CallLike(r) /\ r.op = w.op /\ r.alone = w.alone /\ r.on = w.on
    BY <1>2, <1>3, <2>1 DEF CallLike, StepsOf
  <2>3. w.on \notin kept
    BY <1>2, <1>4 DEF StoreManifest, Harmless
  <2>4. work' = [work EXCEPT ![t] = r]
    BY <2>1, <1>4 DEF StoreManifest
  <2> QED  BY <1>1, <1>4, <2>2, <2>3, <2>4, StepKeeps DEF StoreManifest, PinInv
<1>5. ASSUME StoreFragment(t) PROVE PinInv'
  <2>1. PICK f : /\ fragments' = [fragments EXCEPT ![w.on] = @ \cup {f}]
                 /\ work' = [work EXCEPT ![t].todo = @ \ {f}]
    BY <1>5 DEF StoreFragment
  <2>2. PICK r : r = [w EXCEPT !.todo = @ \ {f}]
    OBVIOUS
  <2>3. r \in CallLike(r) /\ r.op = w.op /\ r.alone = w.alone /\ r.on = w.on
    BY <1>2, <2>2 DEF CallLike, StepsOf
  <2>4. w.on \notin kept
    BY <1>2, <1>5 DEF StoreFragment, Harmless
  <2>5. work' = [work EXCEPT ![t] = r]
    BY <2>1, <2>2
  <2> QED  BY <1>1, <1>5, <2>1, <2>3, <2>4, <2>5, StepKeeps DEF StoreFragment, PinInv
<1>6. ASSUME StoreMeta(t) PROVE PinInv'
  <2>1. PICK r : r = [w EXCEPT !.step = "check"]
    OBVIOUS
  <2>2. r \in CallLike(r) /\ r.op = w.op /\ r.alone = w.alone /\ r.on = w.on
    BY <1>2, <1>3, <2>1 DEF CallLike, StepsOf
  <2>3. w.on \notin kept
    BY <1>2, <1>6 DEF StoreMeta, Harmless
  <2>4. work' = [work EXCEPT ![t] = r]
    BY <2>1, <1>6 DEF StoreMeta, Proceed
  <2> QED  BY <1>1, <1>6, <2>2, <2>3, <2>4, StepKeeps DEF StoreMeta, PinInv
<1>7. ASSUME MaybeRunGC(t) PROVE PinInv'
  <2>1. CASE Proceed(t, "measure")
    <3>1. PICK r : r = [w EXCEPT !.step = "measure"]
      OBVIOUS
    <3>2. r \in CallLike(r) /\ r.op = w.op /\ r.alone = w.alone /\ r.on = w.on
          /\ r.step = "measure"
      BY <1>2, <1>3, <3>1 DEF CallLike, StepsOf, Collecting
    <3>3. work' = [work EXCEPT ![t] = r]
      BY <2>1, <3>1 DEF Proceed
    <3> QED  BY <1>1, <1>7, <3>2, <3>3, StepKeeps DEF MaybeRunGC, PinInv, backend
  <2>2. CASE EndCall(t)
    BY <1>2, <1>7, <2>2, EndKeeps DEF MaybeRunGC, PinInv, backend
  <2> QED  BY <1>7, <2>1, <2>2 DEF MaybeRunGC
<1> QED  BY <1>4, <1>5, <1>6, <1>7

LEMMA ProceedKeeps ==
  ASSUME PinInv, NEW t \in Caller, NEW step, work[t].step # "none", Proceed(t, step),
         step \in StepsOf(work[t].op) \ {"manifest", "fragments", "find", "delete", "forget", "write"},
         UNCHANGED <<backend, kept>>
  PROVE  PinInv'
<1>1. PICK r : r = [work[t] EXCEPT !.step = step]
  OBVIOUS
<1>2. work[t] # NoTask /\ work[t] \in CallLike(work[t])
  BY Working
<1>3. r \in CallLike(r) /\ r.op = work[t].op /\ r.alone = work[t].alone
      /\ r.on = work[t].on /\ r.step = step
  BY <1>1, <1>2 DEF CallLike
<1>4. work' = [work EXCEPT ![t] = r]
  BY <1>1 DEF Proceed
<1> QED  BY <1>3, <1>4, StepKeeps DEF PinInv, backend

LEMMA ReadStepsKeep ==
  ASSUME PinInv, NEW t \in Caller, GetContent(t) \/ ReadMeta(t)
  PROVE  PinInv'
<1> DEFINE w == work[t]
<1>1. w.step \in {"content", "meta"}
  BY DEF GetContent, ReadMeta
<1>2. w # NoTask /\ w \in CallLike(w) /\ (w.on \in kept => Harmless(w))
  BY <1>1, Working
<1>3. w.op \in {"get", "pin", "unpin"} /\ (w.step = "content" => w.op = "get")
  BY <1>1, <1>2 DEF CallLike, StepsOf, Operations, Collecting
<1>4. UNCHANGED <<backend, kept>>
  BY DEF GetContent, ReadMeta
<1>5. ASSUME EndCall(t) PROVE PinInv'
  BY <1>2, <1>4, <1>5, EndKeeps DEF PinInv, backend
<1>6. ASSUME GetContent(t), Proceed(t, "meta") PROVE PinInv'
  <2>1. w.step = "content" /\ "meta" \in StepsOf(w.op)
    BY <1>3, <1>6 DEF GetContent, StepsOf
  <2> QED  BY <1>4, <1>6, <2>1, ProceedKeeps
<1>7. ASSUME ReadMeta(t), work' = [work EXCEPT ![t].copy = pinned[w.on], ![t].step = "write"]
      PROVE  PinInv'
  <2>1. PICK r : r = [w EXCEPT !.copy = pinned[w.on], !.step = "write"]
    OBVIOUS
  <2>2. r \in CallLike(r) /\ r.op = w.op /\ r.alone = w.alone /\ r.on = w.on
        /\ r.step = "write" /\ r.copy = pinned[w.on]
    BY <1>2, <1>3, <2>1 DEF CallLike, StepsOf
  <2>3. work' = [work EXCEPT ![t] = r]
    BY <1>7, <2>1
  <2>4. w.on \in kept => r.copy = TRUE
    BY <2>2 DEF PinInv
  <2> QED  BY <1>1, <1>4, <2>2, <2>3, <2>4, StepKeeps DEF PinInv, backend
<1> QED  BY <1>5, <1>6, <1>7 DEF GetContent, ReadMeta

\* What a deletion or a collection is about to take is not kept.
LEMMA Taking ==
  ASSUME PinInv, NEW t \in Caller, work[t].step \in Collecting
  PROVE  /\ work[t] # NoTask /\ work[t] \in CallLike(work[t])
         /\ work[t].op \in {"store", "collect", "delete"}
         /\ work[t].step \in {"find", "delete", "forget"} => work[t].on \notin kept
         /\ work[t].step \notin {"ask", "find", "delete", "forget"} => work[t].op # "delete"
<1>1. /\ work[t] # NoTask /\ work[t] \in CallLike(work[t])
      /\ work[t].on \in kept => Harmless(work[t])
  BY Working DEF Collecting
<1>2. work[t].op \in Operations /\ work[t].step \in StepsOf(work[t].op)
  BY <1>1 DEF CallLike
<1> QED  BY <1>1, <1>2 DEF StepsOf, Operations, Collecting, Harmless

LEMMA LeaveKeeps ==
  ASSUME PinInv, NEW t \in Caller, work[t].step \in Collecting, Leave(t),
         UNCHANGED kept, DOMAIN fragments' = Cid, DOMAIN pinned' = Cid,
         \A c \in kept : pinned'[c] = pinned[c]
  PROVE  PinInv'
<1>1. CASE work[t].op = "delete"
  BY <1>1, Taking, EndKeeps DEF Leave
<1>2. CASE work[t].op # "delete"
  <2>1. PICK r : r = [work[t] EXCEPT !.step = "evict", !.tofree = @ - Cardinality(Fragments)]
    OBVIOUS
  <2>2. r \in CallLike(r) /\ r.op = work[t].op /\ r.alone = work[t].alone
        /\ r.on = work[t].on /\ r.step = "evict"
    BY <1>2, <2>1, Taking DEF CallLike, StepsOf, Collecting
  <2>3. work' = [work EXCEPT ![t] = r]
    BY <1>2, <2>1 DEF Leave
  <2> QED  BY <2>2, <2>3, StepKeeps DEF Collecting
<1> QED  BY <1>1, <1>2

\* A deletion, of a call of its own or of a collection.
LEMMA DeletionKeeps ==
  ASSUME PinInv, NEW t \in Caller,
         \/ AskMeta(t) \/ Find(t) \/ DeleteFragment(t) \/ DeleteManifest(t)
         \/ DeleteMeta(t)
  PROVE  PinInv'
<1> DEFINE w == work[t]
<1>1. w.step \in {"ask", "find", "delete", "forget"} /\ w.step \in Collecting
  BY DEF AskMeta, Find, DeleteFragment, DeleteManifest, DeleteMeta, Collecting
<1>2. /\ w # NoTask /\ w \in CallLike(w) /\ w.op \in {"store", "collect", "delete"}
      /\ w.step # "ask" => w.on \notin kept
      /\ {"find", "delete", "forget"} \subseteq StepsOf(w.op)
  BY <1>1, Taking DEF StepsOf, Collecting
<1>3. UNCHANGED kept /\ DOMAIN fragments' = Cid /\ DOMAIN pinned' = Cid
      /\ \A c \in kept : pinned'[c] = pinned[c]
  <2>1. CASE DeleteMeta(t)
    BY <1>2, <2>1 DEF DeleteMeta, PinInv
  <2>2. CASE AskMeta(t) \/ Find(t) \/ DeleteFragment(t) \/ DeleteManifest(t)
    BY <1>2, <2>2 DEF AskMeta, Find, DeleteFragment, DeleteManifest, PinInv, backend
  <2> QED  BY <2>1, <2>2
<1>4. ASSUME Leave(t) PROVE PinInv'
  BY <1>1, <1>3, <1>4, LeaveKeeps
<1>5. ASSUME NEW r, work' = [work EXCEPT ![t] = r], w.on \notin kept,
             r \in CallLike(r), r.op = w.op, r.alone = w.alone, r.on = w.on
      PROVE  PinInv'
  BY <1>1, <1>3, <1>5, StepKeeps
<1>6. ASSUME AskMeta(t), ~Refuses(w.on) PROVE PinInv'
  <2>1. w.on \notin kept
    BY <1>6 DEF Refuses, PinInv
  <2>2. CASE work' = [work EXCEPT ![t].step = "delete", ![t].copy = Fragments]
    <3>1. PICK r : r = [w EXCEPT !.step = "delete", !.copy = Fragments]
      OBVIOUS
    <3>2. r \in CallLike(r) /\ r.op = w.op /\ r.alone = w.alone /\ r.on = w.on
      BY <1>2, <3>1 DEF CallLike
    <3> QED  BY <1>5, <2>1, <2>2, <3>1, <3>2
  <2>3. CASE Proceed(t, "find")
    <3>1. PICK r : r = [w EXCEPT !.step = "find"]
      OBVIOUS
    <3>2. r \in CallLike(r) /\ r.op = w.op /\ r.alone = w.alone /\ r.on = w.on
      BY <1>2, <3>1 DEF CallLike
    <3> QED  BY <1>5, <2>1, <2>3, <3>1, <3>2 DEF Proceed
  <2> QED  BY <1>6, <2>2, <2>3 DEF AskMeta
<1>7. ASSUME Find(t), work' = [work EXCEPT ![t].step = "delete", ![t].copy = Fragments]
      PROVE PinInv'
  <2>1. PICK r : r = [w EXCEPT !.step = "delete", !.copy = Fragments]
    OBVIOUS
  <2>2. r \in CallLike(r) /\ r.op = w.op /\ r.alone = w.alone /\ r.on = w.on
    BY <1>2, <2>1 DEF CallLike
  <2> QED  BY <1>2, <1>5, <1>7, <2>1, <2>2 DEF Find
<1>8. ASSUME DeleteFragment(t) PROVE PinInv'
  <2>1. PICK f : work' = [work EXCEPT ![t].copy = @ \ {f}]
    BY <1>8 DEF DeleteFragment
  <2>2. PICK r : r = [w EXCEPT !.copy = @ \ {f}]
    OBVIOUS
  <2>3. r \in CallLike(r) /\ r.op = w.op /\ r.alone = w.alone /\ r.on = w.on
    BY <1>2, <2>2 DEF CallLike
  <2> QED  BY <1>2, <1>5, <1>8, <2>1, <2>2, <2>3 DEF DeleteFragment
<1>9. ASSUME DeleteManifest(t) PROVE PinInv'
  <2>1. PICK r : r = [w EXCEPT !.step = "forget", !.copy = Nil]
    OBVIOUS
  <2>2. r \in CallLike(r) /\ r.op = w.op /\ r.alone = w.alone /\ r.on = w.on
    BY <1>2, <2>1 DEF CallLike
  <2> QED  BY <1>2, <1>5, <1>9, <2>1, <2>2 DEF DeleteManifest
<1> QED  BY <1>4, <1>6, <1>7, <1>8, <1>9 DEF AskMeta, Find, DeleteMeta

\* A collection, which looks for contents to delete.
LEMMA CollectionKeeps ==
  ASSUME PinInv, NEW t \in Caller,
         Measure(t) \/ List(t) \/ Look(t) \/ Looked(t) \/ EvictNext(t)
  PROVE  PinInv'
<1> DEFINE w == work[t]
<1>1. w.step \in {"measure", "list", "look", "evict"} /\ w.step \in Collecting
  BY DEF Measure, List, Look, Looked, EvictNext, Collecting
<1>2. /\ w # NoTask /\ w \in CallLike(w) /\ w.op \in {"store", "collect"}
      /\ {"list", "look", "evict", "ask"} \subseteq StepsOf(w.op)
  BY <1>1, Taking DEF StepsOf, Collecting
<1>3. UNCHANGED <<backend, kept>>
  BY DEF Measure, List, Look, Looked, EvictNext
<1>4. DOMAIN fragments' = Cid /\ DOMAIN pinned' = Cid /\ \A c \in kept : pinned'[c] = pinned[c]
  BY <1>3 DEF PinInv, backend
<1>5. ASSUME EndCall(t) PROVE PinInv'
  BY <1>2, <1>3, <1>4, <1>5, EndKeeps
<1>6. ASSUME NEW r, work' = [work EXCEPT ![t] = r], r \in CallLike(r),
             r.op = w.op, r.alone = w.alone, r.step \in {"list", "look", "evict", "ask"}
      PROVE  PinInv'
  BY <1>2, <1>3, <1>4, <1>6, CallKeeps DEF Harmless
<1>7. ASSUME Measure(t) PROVE PinInv'
  <2>1. CASE work' = [work EXCEPT ![t].step = "list", ![t].tofree = Bytes - GcTo]
    <3>1. PICK r : r = [w EXCEPT !.step = "list", !.tofree = Bytes - GcTo]
      OBVIOUS
    <3>2. r \in CallLike(r) /\ r.op = w.op /\ r.alone = w.alone /\ r.step = "list"
      BY <1>2, <3>1 DEF CallLike
    <3> QED  BY <1>6, <2>1, <3>1, <3>2
  <2> QED  BY <1>5, <1>7, <2>1 DEF Measure
<1>8. ASSUME List(t) PROVE PinInv'
  <2>1. PICK r : r = [w EXCEPT !.step = "look", !.copy = manifests]
    OBVIOUS
  <2>2. r \in CallLike(r) /\ r.op = w.op /\ r.alone = w.alone /\ r.step = "look"
    BY <1>2, <2>1 DEF CallLike
  <2> QED  BY <1>6, <1>8, <2>1, <2>2 DEF List
<1>9. ASSUME Look(t) PROVE PinInv'
  <2>1. PICK c, todo : work' = [work EXCEPT ![t].copy = @ \ {c}, ![t].todo = todo]
    BY <1>9 DEF Look
  <2>2. PICK r : r = [w EXCEPT !.copy = @ \ {c}, !.todo = todo]
    OBVIOUS
  <2>3. r \in CallLike(r) /\ r.op = w.op /\ r.alone = w.alone /\ r.step = "look"
    BY <1>2, <1>9, <2>2 DEF CallLike, Look
  <2> QED  BY <1>6, <2>1, <2>2, <2>3
<1>10. ASSUME Looked(t) PROVE PinInv'
  <2>1. PICK r : r = [w EXCEPT !.step = "evict"]
    OBVIOUS
  <2>2. r \in CallLike(r) /\ r.op = w.op /\ r.alone = w.alone /\ r.step = "evict"
    BY <1>2, <2>1 DEF CallLike
  <2> QED  BY <1>6, <1>10, <2>1, <2>2 DEF Looked, Proceed
<1>11. ASSUME EvictNext(t), ~EndCall(t) PROVE PinInv'
  <2>1. PICK c \in w.todo :
          work' = [work EXCEPT ![t].step = "ask", ![t].on = c, ![t].todo = @ \ {c}]
    BY <1>11 DEF EvictNext
  <2>2. PICK r : r = [w EXCEPT !.step = "ask", !.on = c, !.todo = @ \ {c}]
    OBVIOUS
  <2>3. r \in CallLike(r) /\ r.op = w.op /\ r.alone = w.alone /\ r.step = "ask"
    BY <1>2, <2>1, <2>2 DEF CallLike
  <2> QED  BY <1>6, <2>1, <2>2, <2>3
<1> QED  BY <1>5, <1>7, <1>8, <1>9, <1>10, <1>11

LEMMA CallBegins == ASSUME PinInv, NEW t \in Caller, Call(t) PROVE PinInv'
<1>1. PICK c \in Cid :
        \/ Begin(t, "store", c, "manifest")
        \/ Begin(t, "get", c, "content")
        \/ Begin(t, "pin", c, "meta") \/ Begin(t, "unpin", c, "meta")
        \/ Begin(t, "delete", c, "ask")
        \/ Begin(t, "collect", c, "measure")
  BY DEF Call
<1>2. /\ "manifest" \in StepsOf("store") /\ "content" \in StepsOf("get")
      /\ "meta" \in StepsOf("pin") /\ "meta" \in StepsOf("unpin")
      /\ "ask" \in StepsOf("delete") /\ "measure" \in StepsOf("collect")
      /\ {"store", "get", "pin", "unpin", "delete", "collect"} \subseteq Operations
  BY DEF StepsOf, Collecting, Operations
<1>3. CASE Begin(t, "store", c, "manifest")
  BY <1>2, <1>3, BeginKeeps
<1>4. CASE Begin(t, "get", c, "content")
  BY <1>2, <1>4, BeginKeeps
<1>5. CASE Begin(t, "pin", c, "meta")
  BY <1>2, <1>5, BeginKeeps
<1>6. CASE Begin(t, "unpin", c, "meta")
  BY <1>2, <1>6, BeginKeeps
<1>7. CASE Begin(t, "delete", c, "ask")
  BY <1>2, <1>7, BeginKeeps
<1>8. CASE Begin(t, "collect", c, "measure")
  BY <1>2, <1>8, BeginKeeps
<1> QED  BY <1>1, <1>3, <1>4, <1>5, <1>6, <1>7, <1>8

LEMMA PinKeeps == PinInv /\ [StorageNext]_storeVars => PinInv'
<1> SUFFICES ASSUME PinInv, [StorageNext]_storeVars PROVE PinInv'
  OBVIOUS
<1>1. CASE UNCHANGED storeVars
  BY <1>1 DEF storeVars, backend, PinInv
<1>2. ASSUME NEW t \in Caller, Throw(t) PROVE PinInv'
  BY <1>2, EndKeeps DEF Throw, PinInv, backend
<1> QED  BY <1>1, <1>2, CallBegins, StoreStepsKeep, ReadStepsKeep, WriteKeeps,
            DeletionKeeps, CollectionKeeps DEF StorageNext

\* Only a deletion takes fragments, a manifest or metadata away.
LEMMA StepsTakeNothing ==
  ASSUME PinInv, NEW t \in Caller, NEW c \in kept,
         \/ Call(t) \/ StoreManifest(t) \/ StoreFragment(t) \/ StoreMeta(t) \/ MaybeRunGC(t)
         \/ GetContent(t) \/ ReadMeta(t) \/ WriteMeta(t)
         \/ AskMeta(t) \/ Find(t) \/ DeleteFragment(t) \/ DeleteManifest(t) \/ DeleteMeta(t)
         \/ Measure(t) \/ List(t) \/ Look(t) \/ Looked(t) \/ EvictNext(t) \/ Throw(t)
  PROVE  fragments[c] \subseteq fragments'[c] /\ (c \in manifests => c \in manifests')
<1>1. CASE UNCHANGED <<fragments, manifests>>
  BY <1>1
<1>2. CASE StoreManifest(t)
  BY <1>2 DEF StoreManifest
<1>3. CASE StoreFragment(t)
  BY <1>3 DEF StoreFragment, PinInv
<1>4. CASE DeleteFragment(t)
  <2>1. work[t].on # c
    BY <1>4, Taking DEF DeleteFragment, Collecting
  <2> QED  BY <1>4, <2>1 DEF DeleteFragment, PinInv
<1>5. CASE DeleteManifest(t)
  <2>1. work[t].on # c
    BY <1>5, Taking DEF DeleteManifest, Collecting
  <2> QED  BY <1>5, <2>1 DEF DeleteManifest
<1>6. CASE \/ Call(t) \/ StoreMeta(t) \/ MaybeRunGC(t) \/ GetContent(t) \/ ReadMeta(t)
           \/ WriteMeta(t) \/ AskMeta(t) \/ Find(t) \/ DeleteMeta(t) \/ Throw(t)
           \/ Measure(t) \/ List(t) \/ Look(t) \/ Looked(t) \/ EvictNext(t)
  <2>1. UNCHANGED <<fragments, manifests>>
    BY <1>6 DEF Call, Begin, StoreMeta, MaybeRunGC, GetContent, ReadMeta, WriteMeta,
                AskMeta, Find, DeleteMeta, Measure, List, Look, Looked, EvictNext, Throw, backend
  <2> QED  BY <1>1, <2>1
<1> QED  BY <1>2, <1>3, <1>4, <1>5, <1>6

(* "Pin content to prevent GC" (storage.ts:386): content that was pinned     *)
(* while no other call worked on it loses nothing until it is unpinned or   *)
(* stored again, for any number of contents, fragments and calls that       *)
(* overlap, fail and collect.                                               *)
THEOREM PinsKeep == StorageSpec => PinnedIsKept
<1>1. PinInv /\ PinInv' /\ [StorageNext]_storeVars =>
        [\A c \in kept \cap kept' :
           /\ pinned[c] = TRUE /\ pinned'[c] = TRUE
           /\ fragments[c] \subseteq fragments'[c]
           /\ c \in manifests => c \in manifests']_storeVars
  <2> SUFFICES ASSUME PinInv, PinInv', StorageNext, NEW c \in kept, c \in kept'
               PROVE  /\ pinned[c] = TRUE /\ pinned'[c] = TRUE
                      /\ fragments[c] \subseteq fragments'[c]
                      /\ c \in manifests => c \in manifests'
    OBVIOUS
  <2>1. pinned[c] = TRUE /\ pinned'[c] = TRUE
    BY DEF PinInv
  <2>2. fragments[c] \subseteq fragments'[c] /\ (c \in manifests => c \in manifests')
    BY StepsTakeNothing DEF StorageNext
  <2> QED  BY <2>1, <2>2
<1> QED  BY <1>1, PinStarts, PinKeeps, PTL DEF StorageSpec, PinnedIsKept

-----------------------------------------------------------------------------
(* Connections between browsers: a negotiation that nobody disturbs goes on *)
(* until each side has the other.                                          *)

Ends(k) == {conns[k].at, conns[k].to}
Box(x) == { letters[x][i] : i \in DOMAIN letters[x] }

BConn == [at : Browser, to : Browser, answers : Nat, got : Nat,
          state : {"connecting", "connected", "authenticated", "failed", "closed"}]
Letter == [type : {"offer", "answer", "gone"}, from : Browser, conn : Nat, answers : Nat]

ConnTypes ==
    /\ conns \in Seq(BConn) /\ calls \subseteq Conns /\ failed \subseteq Conns
    /\ stored \in [Browser -> [Browser -> Nat]]
    /\ letters \in [Browser -> Seq(Letter)]
    /\ DOMAIN loop = Browser

\* An answer is to an offer that was made, and a side has an answer of the other.
Paired(k, l) == /\ l \in Conns /\ conns[l].at = conns[k].to /\ conns[l].to = conns[k].at

ConnFits(k) ==
    /\ conns[k].at # conns[k].to
    /\ k \in calls => conns[k].answers = 0
    /\ conns[k].answers # 0 =>
          \E a \in Conns \ calls : conns[k].answers = a /\ Paired(k, a) /\ conns[a].answers = 0
    /\ conns[k].got # 0 =>
          \E g \in Conns : conns[k].got = g /\ Paired(k, g) /\ conns[g].answers # 0

StoredFit ==
    \A x, y \in Browser :
        LET k == stored[x][y] IN
        k # 0 => k \in Conns \ calls /\ conns[k].at = x /\ conns[k].to = y

LetterFits(x, m) ==
    \/ /\ m.type \in {"offer", "answer"}
       /\ m.conn \in Conns \ calls /\ conns[m.conn].at = m.from /\ conns[m.conn].to = x
       /\ m.type = "offer" <=> conns[m.conn].answers = 0
    \/ m.type = "gone" /\ m.from \notin online

Answers(x, k) ==
    /\ loop[x] = [doing |-> "answer", conn |-> k, answer |-> 0]
    /\ k \in Conns /\ conns[k].at = x /\ conns[k].answers # 0
    /\ stored[x][conns[k].to] # k

Applies(x, k, l) ==
    /\ loop[x] = [doing |-> "apply", conn |-> k, answer |-> l]
    /\ k \in Conns /\ conns[k].at = x /\ Paired(k, l) /\ conns[l].answers # 0

LoopFits(x) ==
    \/ loop[x] = Idle
    \/ \E k \in Conns : Answers(x, k)
    \/ \E k, l \in Conns : Applies(x, k, l)

Fits ==
    /\ ConnTypes /\ StoredFit /\ \A k \in Conns : ConnFits(k)
    /\ \A x \in Browser : LoopFits(x) /\ \A m \in Box(x) : LetterFits(x, m)

\* The pair of connection k stays connected to the server, has not negotiated
\* twice at once, and has lost no connection.
Calm(k) ==
    /\ Ends(k) \subseteq online \ panicked /\ Ends(k) \notin crossed
    /\ \A j \in failed : Ends(j) # Ends(k)

IsStored(k) == stored[conns[k].at][conns[k].to] = k
Offered(k) == \E m \in Box(conns[k].to) : m.type = "offer" /\ m.conn = k
Answered(k) == \E l \in Conns : conns[l].answers = k
Answering(k) == loop[conns[k].at] = [doing |-> "answer", conn |-> k, answer |-> 0]
IsTold(k) == \E m \in Box(conns[k].to) : m.type = "answer" /\ m.conn = k
Applying(k) == loop[conns[k].to] = [doing |-> "apply", conn |-> conns[k].answers, answer |-> k]
Taken(k) == conns[conns[k].answers].got = k

OfferGoesOn(k) == k \in calls \/ (IsStored(k) /\ (Offered(k) \/ Answered(k)))
AnswerGoesOn(k) == Answering(k) \/ (IsStored(k) /\ (IsTold(k) \/ Applying(k) \/ Taken(k)))

\* A connection of a calm pair is one of at most two, and its negotiation goes on.
GoesOn(k) ==
    /\ conns[k].state # "closed"
    /\ \A l \in Conns : l # k /\ Ends(l) = Ends(k) => conns[l].answers = k \/ conns[k].answers = l
    /\ conns[k].answers = 0 => OfferGoesOn(k)
    /\ conns[k].answers # 0 => AnswerGoesOn(k)

BrowsersInv == Fits /\ \A k \in Conns : Calm(k) => GoesOn(k)

LEMMA HeadAndTail ==
  ASSUME NEW S, NEW q \in Seq(S), q # <<>>
  PROVE  /\ Head(q) \in S /\ Tail(q) \in Seq(S)
         /\ \E i \in DOMAIN q : q[i] = Head(q)
         /\ \A i \in DOMAIN Tail(q) : \E j \in DOMAIN q : Tail(q)[i] = q[j]
         /\ \A j \in DOMAIN q : q[j] = Head(q) \/ \E i \in DOMAIN Tail(q) : Tail(q)[i] = q[j]
<1>1. Len(q) \in Nat \ {0} /\ DOMAIN q = 1..Len(q) /\ Head(q) = q[1]
  OBVIOUS
<1>2. DOMAIN Tail(q) = 1..(Len(q) - 1) /\ \A i \in 1..(Len(q) - 1) : Tail(q)[i] = q[i + 1]
  BY <1>1
<1>3. \A j \in 1..Len(q) : j = 1 \/ (j - 1 \in 1..(Len(q) - 1) /\ q[j] = Tail(q)[j - 1])
  BY <1>1, <1>2
<1>4. Head(q) \in S /\ Tail(q) \in Seq(S)
  OBVIOUS
<1>5. \E i \in DOMAIN q : q[i] = Head(q)
  BY <1>1
<1>6. \A i \in DOMAIN Tail(q) : \E j \in DOMAIN q : Tail(q)[i] = q[j]
  <2>1. \A i \in 1..(Len(q) - 1) : i + 1 \in 1..Len(q)
    BY <1>1
  <2> QED  BY <1>1, <1>2, <2>1
<1>7. \A j \in DOMAIN q : q[j] = Head(q) \/ \E i \in DOMAIN Tail(q) : Tail(q)[i] = q[j]
  BY <1>1, <1>2, <1>3
<1> QED  BY <1>4, <1>5, <1>6, <1>7

LEMMA TakenFromBox ==
  ASSUME ConnTypes, NEW x \in Browser, letters[x] # <<>>,
         letters' = [letters EXCEPT ![x] = Tail(@)]
  PROVE  /\ letters' \in [Browser -> Seq(Letter)]
         /\ Head(letters[x]) \in Box(x) /\ Head(letters[x]) \in Letter
         /\ \A y \in Browser : Box(y)' \subseteq Box(y)
         /\ \A y \in Browser : \A m \in Box(y) :
               m \in Box(y)' \/ (y = x /\ m = Head(letters[x]))
<1>1. PICK q : q = letters[x]
  OBVIOUS
<1>2. PICK S : S = Letter
  OBVIOUS
<1>3. q \in Seq(S) /\ q # <<>>
  BY <1>1, <1>2 DEF ConnTypes
<1>4. Head(q) \in S /\ Tail(q) \in Seq(S)
  BY <1>3, HeadAndTail
<1>5. letters' \in [Browser -> Seq(Letter)] /\ letters'[x] = Tail(q)
  BY <1>1, <1>2, <1>4 DEF ConnTypes
<1>6. \A y \in Browser \ {x} : letters'[y] = letters[y]
  BY DEF ConnTypes
<1>7. Head(q) \in Box(x)
  BY <1>1, <1>3, HeadAndTail DEF Box
<1>8. Box(x)' = { Tail(q)[i] : i \in DOMAIN Tail(q) } /\ Box(x) = { q[i] : i \in DOMAIN q }
  BY <1>1, <1>5 DEF Box
<1>9. Box(x)' \subseteq Box(x) /\ \A m \in Box(x) : m \in Box(x)' \/ m = Head(q)
  BY <1>3, <1>8, HeadAndTail
<1>10. \A y \in Browser \ {x} : Box(y)' = Box(y)
  BY <1>6 DEF Box
<1> QED  BY <1>1, <1>2, <1>4, <1>5, <1>7, <1>9, <1>10

LEMMA PutInBox ==
  ASSUME ConnTypes, NEW x \in Browser, NEW y \in Browser, NEW e \in Letter, Relayed(x, y, e)
  PROVE  /\ letters' \in [Browser -> Seq(Letter)]
         /\ \A z \in Browser : Box(z) \subseteq Box(z)'
         /\ \A z \in Browser : \A m \in Box(z)' : m \in Box(z) \/ (z = y /\ m = e)
         /\ {x, y} \subseteq online => e \in Box(y)'
<1>1. CASE x \in online /\ y \in online
  <2>1. PICK q : q = letters[y]
    OBVIOUS
  <2>2. PICK S : S = Letter
    OBVIOUS
  <2>3. q \in Seq(S) /\ e \in S
    BY <2>1, <2>2 DEF ConnTypes
  <2>4. /\ Append(q, e) \in Seq(S) /\ DOMAIN Append(q, e) = 1..(Len(q) + 1)
        /\ Len(q) \in Nat /\ DOMAIN q = 1..Len(q) /\ Append(q, e)[Len(q) + 1] = e
        /\ \A i \in 1..Len(q) : Append(q, e)[i] = q[i]
    BY <2>3
  <2>5. letters' \in [Browser -> Seq(Letter)] /\ letters'[y] = Append(q, e)
    BY <1>1, <2>1, <2>2, <2>4 DEF ConnTypes, Relayed
  <2>6. \A z \in Browser \ {y} : letters'[z] = letters[z]
    BY DEF ConnTypes, Relayed
  <2>7. /\ Box(y)' = { Append(q, e)[i] : i \in 1..(Len(q) + 1) }
        /\ Box(y) = { q[i] : i \in 1..Len(q) }
    BY <2>1, <2>4, <2>5 DEF Box
  <2>8. Box(y)' = Box(y) \cup {e}
    BY <2>4, <2>7
  <2>9. \A z \in Browser \ {y} : Box(z)' = Box(z)
    BY <2>6 DEF Box
  <2> QED  BY <2>5, <2>8, <2>9
<1>2. CASE ~(x \in online /\ y \in online)
  <2>1. letters' = letters
    BY <1>2 DEF Relayed, ConnTypes
  <2>2. \A z \in Browser : Box(z)' = Box(z)
    BY <2>1 DEF Box
  <2> QED  BY <1>2, <2>1, <2>2 DEF ConnTypes
<1> QED  BY <1>1, <1>2

LEMMA NewConn ==
  ASSUME ConnTypes, NEW c \in BConn, conns' = Append(conns, c)
  PROVE  /\ conns' \in Seq(BConn) /\ Conns' = Conns \cup {Len(conns')}
         /\ Len(conns') \in Nat \ {0} /\ Len(conns') \notin Conns
         /\ \A k \in Conns : conns'[k] = conns[k]
         /\ conns'[Len(conns')] = c
<1>1. PICK q : q = conns
  OBVIOUS
<1>2. PICK S : S = BConn
  OBVIOUS
<1>3. q \in Seq(S) /\ c \in S
  BY <1>1, <1>2 DEF ConnTypes
<1>4. /\ Append(q, c) \in Seq(S) /\ DOMAIN Append(q, c) = 1..(Len(q) + 1)
      /\ Len(Append(q, c)) = Len(q) + 1
      /\ Len(q) \in Nat /\ DOMAIN q = 1..Len(q) /\ Append(q, c)[Len(q) + 1] = c
      /\ \A i \in 1..Len(q) : Append(q, c)[i] = q[i]
  BY <1>3
<1>5. PICK r : r = Append(q, c)
  OBVIOUS
<1>6. conns' = r
  BY <1>1, <1>5
<1>7. Conns = 1..Len(q) /\ Conns' = 1..(Len(q) + 1)
  BY <1>1, <1>4, <1>5, <1>6 DEF Conns
<1>8. 1..(Len(q) + 1) = 1..Len(q) \cup {Len(q) + 1} /\ Len(q) + 1 \notin 1..Len(q)
  BY <1>4
<1> QED  BY <1>1, <1>2, <1>4, <1>5, <1>6, <1>7, <1>8

LEMMA NumbersOfConns ==
  ASSUME ConnTypes
  PROVE  Conns \subseteq Nat \ {0} /\ \A k \in Conns : conns[k] \in BConn
<1>1. PICK q : q = conns
  OBVIOUS
<1>2. PICK S : S = BConn
  OBVIOUS
<1>3. q \in Seq(S)
  BY <1>1, <1>2 DEF ConnTypes
<1>4. DOMAIN q = 1..Len(q) /\ Len(q) \in Nat /\ \A k \in DOMAIN q : q[k] \in S
  BY <1>3
<1> QED  BY <1>1, <1>2, <1>4 DEF Conns

\* The connections there are stay what they are for.
SameEnds ==
    /\ Conns \subseteq Conns'
    /\ \A k \in Conns : /\ conns'[k].at = conns[k].at /\ conns'[k].to = conns[k].to
                        /\ conns'[k].answers = conns[k].answers

LEMMA ClosedKeep ==
  ASSUME ConnTypes, NEW K, CloseConns(K)
  PROVE  /\ conns' \in Seq(BConn) /\ Conns' = Conns /\ SameEnds
         /\ \A k \in Conns : /\ conns'[k].got = conns[k].got
                             /\ k \notin K => conns'[k] = conns[k]
<1>1. PICK n : n = Len(conns)
  OBVIOUS
<1>2. n \in Nat /\ Conns = 1..n
  BY <1>1 DEF ConnTypes, Conns
<1>3. /\ conns' = [k \in 1..n |-> IF k \in K THEN [conns[k] EXCEPT !.state = "closed"] ELSE conns[k]]
      /\ \A k \in 1..n : conns[k] \in BConn
  BY <1>2, NumbersOfConns DEF CloseConns
<1>4. \A k \in 1..n : [conns[k] EXCEPT !.state = "closed"] \in BConn
  BY <1>3 DEF BConn
<1>5. conns' \in Seq(BConn)
  BY <1>2, <1>3, <1>4
<1>6. DOMAIN conns' = Conns
  BY <1>2, <1>3
<1>7. \A k \in Conns : /\ conns'[k].at = conns[k].at /\ conns'[k].to = conns[k].to
                       /\ conns'[k].answers = conns[k].answers /\ conns'[k].got = conns[k].got
  BY <1>2, <1>3 DEF BConn
<1> QED  BY <1>2, <1>3, <1>5, <1>6, <1>7 DEF SameEnds, Conns

\* What a calm pair was before a step, and how its negotiation goes on.
Forward ==
    /\ SameEnds /\ online' \subseteq online /\ panicked \subseteq panicked'
    /\ crossed \subseteq crossed' /\ failed \subseteq failed'

LEMMA CalmBefore ==
  ASSUME ConnTypes, Forward, NEW k \in Conns, Calm(k)'
  PROVE  Calm(k)
<1>1. Ends(k)' = Ends(k) /\ \A j \in failed : Ends(j)' = Ends(j) /\ j \in failed'
  BY DEF Forward, SameEnds, Ends, ConnTypes
<1>2. /\ Ends(k)' \subseteq online' \ panicked' /\ Ends(k)' \notin crossed'
      /\ \A j \in failed' : Ends(j)' # Ends(k)'
  BY DEF Calm
<1> QED  BY <1>1, <1>2 DEF Calm, Forward

LEMMA StillGoesOn ==
  ASSUME SameEnds, NEW k \in Conns, GoesOn(k), conns'[k].state # "closed",
         \A l \in Conns' \ Conns : Ends(l)' # Ends(k) \/ conns'[l].answers = k,
         IsStored(k) => IsStored(k)',
         conns[k].answers = 0 =>
            /\ k \in calls => k \in calls' \/ (IsStored(k)' /\ Offered(k)')
            /\ IsStored(k) /\ Offered(k) => Offered(k)' \/ Answered(k)',
         conns[k].answers # 0 =>
            /\ Answering(k) => Answering(k)' \/ (IsStored(k)' /\ IsTold(k)')
            /\ IsStored(k) /\ IsTold(k) => IsTold(k)' \/ Applying(k)'
            /\ IsStored(k) /\ Applying(k) => Applying(k)' \/ Taken(k)'
            /\ Taken(k) => Taken(k)'
  PROVE  GoesOn(k)'
<1>1. k \in Conns' /\ conns'[k].answers = conns[k].answers /\ Ends(k)' = Ends(k)
  BY DEF SameEnds, Ends
<1>2. ASSUME NEW l \in Conns', l # k, Ends(l)' = Ends(k)'
      PROVE  conns'[l].answers = k \/ conns'[k].answers = l
  <2>1. CASE l \in Conns
    BY <1>1, <1>2, <2>1 DEF SameEnds, Ends, GoesOn
  <2>2. CASE l \notin Conns
    BY <1>1, <1>2, <2>2
  <2> QED  BY <2>1, <2>2
<1>3. Answered(k) => Answered(k)'
  BY DEF SameEnds, Answered
<1>4. conns[k].answers = 0 => OfferGoesOn(k)'
  BY <1>3 DEF GoesOn, OfferGoesOn
<1>5. conns[k].answers # 0 => AnswerGoesOn(k)'
  BY DEF GoesOn, AnswerGoesOn
<1> QED  BY <1>1, <1>2, <1>4, <1>5 DEF GoesOn

\* Letters and the loop fit as long as no connection begins an offer anew.
LEMMA LetterStillFits ==
  ASSUME SameEnds, online' \subseteq online, calls' \cap Conns \subseteq calls,
         NEW x, NEW m, LetterFits(x, m)
  PROVE  LetterFits(x, m)'
BY DEF LetterFits, SameEnds

LEMMA LoopStillFits ==
  ASSUME SameEnds, NEW x \in Browser, LoopFits(x), loop'[x] = loop[x],
         \A k \in Conns : Answers(x, k) => stored'[x][conns[k].to] # k
  PROVE  LoopFits(x)'
<1>1. CASE loop[x] = Idle
  BY <1>1 DEF LoopFits
<1>2. ASSUME NEW k \in Conns, Answers(x, k) PROVE LoopFits(x)'
  <2>1. Answers(x, k)'
    BY <1>2 DEF Answers, SameEnds
  <2>2. k \in Conns'
    BY DEF SameEnds
  <2> QED  BY <2>1, <2>2 DEF LoopFits
<1>3. ASSUME NEW k \in Conns, NEW l \in Conns, Applies(x, k, l) PROVE LoopFits(x)'
  <2>1. Applies(x, k, l)'
    BY <1>3 DEF Applies, SameEnds, Paired
  <2>2. k \in Conns' /\ l \in Conns'
    BY DEF SameEnds
  <2> QED  BY <2>1, <2>2 DEF LoopFits
<1> QED  BY <1>1, <1>2, <1>3 DEF LoopFits

\* The same of a connection: what it answers and what answer it has got.
LEMMA ConnStillFits ==
  ASSUME SameEnds, calls' \cap Conns \subseteq calls, NEW k \in Conns, ConnFits(k),
         conns'[k].got = conns[k].got
  PROVE  ConnFits(k)'
<1>1. /\ conns'[k].at = conns[k].at /\ conns'[k].to = conns[k].to
      /\ conns'[k].answers = conns[k].answers
  BY DEF SameEnds
<1>2. ASSUME NEW a \in Conns \ calls, Paired(k, a), conns[a].answers = 0
      PROVE  a \in Conns' \ calls' /\ Paired(k, a)' /\ conns'[a].answers = 0
  BY <1>1, <1>2 DEF Paired, SameEnds
<1>3. ASSUME NEW g \in Conns, Paired(k, g), conns[g].answers # 0
      PROVE  g \in Conns' /\ Paired(k, g)' /\ conns'[g].answers # 0
  BY <1>1, <1>3 DEF Paired, SameEnds
<1>4. k \in calls' => conns'[k].answers = 0
  BY <1>1 DEF ConnFits
<1>5. conns'[k].answers # 0 =>
          \E a \in Conns' \ calls' : conns'[k].answers = a /\ Paired(k, a)' /\ conns'[a].answers = 0
  BY <1>1, <1>2 DEF ConnFits
<1>6. conns'[k].got # 0 =>
          \E g \in Conns' : conns'[k].got = g /\ Paired(k, g)' /\ conns'[g].answers # 0
  BY <1>3 DEF ConnFits
<1> QED  BY <1>1, <1>4, <1>5, <1>6 DEF ConnFits

LEMMA StoredStillFits ==
  ASSUME StoredFit, SameEnds, calls' \cap Conns \subseteq calls,
         \A x, y \in Browser : stored'[x][y] \in {0, stored[x][y]}
  PROVE  StoredFit'
BY DEF StoredFit, SameEnds

LEMMA BrowsersStart == BInit => BrowsersInv
<1> SUFFICES ASSUME BInit PROVE BrowsersInv
  OBVIOUS
<1>1. Conns = {} /\ conns \in Seq(BConn)
  BY DEF BInit, Conns
<1>2. ConnTypes
  BY <1>1 DEF BInit, ConnTypes
<1>3. StoredFit
  BY <1>1 DEF BInit, StoredFit
<1>4. \A x \in Browser : LoopFits(x) /\ Box(x) = {}
  BY DEF BInit, LoopFits, Box
<1> QED  BY <1>1, <1>2, <1>3, <1>4 DEF BrowsersInv, Fits

LEMMA AllGoOn ==
  ASSUME BrowsersInv, Fits', Forward,
         \A k \in Conns : GoesOn(k) /\ Calm(k) /\ Calm(k)' => GoesOn(k)',
         \A k \in Conns' \ Conns : Calm(k)' => GoesOn(k)'
  PROVE  BrowsersInv'
<1>1. \A k \in Conns : Calm(k)' => Calm(k)
  BY CalmBefore DEF BrowsersInv, Fits
<1> QED  BY <1>1 DEF BrowsersInv

\* A step that makes no connection, sends no letter but that a client has gone
\* and changes nothing of calm pairs but the states of open connections.
LEMMA LossKeeps ==
  ASSUME BrowsersInv, Forward, ConnTypes', Conns' = Conns, calls' \subseteq calls,
         \A k \in Conns : conns'[k].got = conns[k].got,
         \A x, y \in Browser : stored'[x][y] \in {0, stored[x][y]},
         \A x \in Browser : loop'[x] \in {Idle, loop[x]},
         \A x \in Browser : \A m \in Box(x)' : m \in Box(x) \/ LetterFits(x, m)',
         \A k \in Conns : Calm(k)' =>
            /\ conns[k].state # "closed" => conns'[k].state # "closed"
            /\ k \in calls => k \in calls'
            /\ Answering(k) => Answering(k)'
            /\ Applying(k) => Applying(k)'
            /\ IsStored(k) => IsStored(k)'
            /\ \A m \in Box(conns[k].to) : m.type # "gone" => m \in Box(conns[k].to)'
  PROVE  BrowsersInv'
<1>1. SameEnds /\ online' \subseteq online /\ calls' \cap Conns \subseteq calls
  BY DEF Forward
<1>2. \A k \in Conns' : ConnFits(k)'
  BY <1>1, ConnStillFits DEF BrowsersInv, Fits
<1>3. StoredFit'
  BY <1>1, StoredStillFits DEF BrowsersInv, Fits
<1>4. ASSUME NEW x \in Browser PROVE LoopFits(x)' /\ \A m \in Box(x)' : LetterFits(x, m)'
  <2>1. \A m \in Box(x)' : LetterFits(x, m)'
    BY <1>1, LetterStillFits DEF BrowsersInv, Fits
  <2>2. LoopFits(x)'
    <3>1. CASE loop'[x] = Idle
      BY <3>1 DEF LoopFits
    <3>2. CASE loop'[x] = loop[x]
      <4>1. ASSUME NEW k \in Conns, Answers(x, k) PROVE stored'[x][conns[k].to] # k
        <5>1. PICK y : y = conns[k].to
          OBVIOUS
        <5>2. k # 0 /\ y \in Browser
          BY <5>1, NumbersOfConns DEF BrowsersInv, Fits, BConn
        <5>3. stored'[x][y] \in {0, stored[x][y]} /\ stored[x][y] # k
          BY <4>1, <5>1, <5>2 DEF Answers
        <5> QED  BY <5>1, <5>2, <5>3
      <4> QED  BY <1>1, <3>2, <4>1, LoopStillFits DEF BrowsersInv, Fits
    <3> QED  BY <3>1, <3>2
  <2> QED  BY <2>1, <2>2
<1>5. Fits'
  BY <1>2, <1>3, <1>4 DEF Fits
<1>6. ASSUME NEW k \in Conns, GoesOn(k), Calm(k)' PROVE GoesOn(k)'
  <2>1. /\ conns'[k].state # "closed"
        /\ k \in calls => k \in calls'
        /\ IsStored(k) => IsStored(k)'
    BY <1>6 DEF GoesOn
  <2>2. /\ conns'[k].at = conns[k].at /\ conns'[k].to = conns[k].to
        /\ conns'[k].answers = conns[k].answers
    BY <1>1 DEF SameEnds
  <2>3. (Offered(k) => Offered(k)') /\ (IsTold(k) => IsTold(k)')
    BY <1>6, <2>2 DEF Offered, IsTold
  <2>4. (Answering(k) => Answering(k)') /\ (Applying(k) => Applying(k)')
    BY <1>6
  <2>5. conns[k].answers # 0 /\ Taken(k) => Taken(k)'
    BY <2>2 DEF Taken, BrowsersInv, Fits, ConnFits
  <2> QED  BY <1>1, <1>6, <2>1, <2>3, <2>4, <2>5, StillGoesOn
<1> QED  BY <1>5, <1>6, AllGoOn

\* What a message loop awaits.
LEMMA LoopAwaits ==
  ASSUME Fits, NEW x \in Browser
  PROVE  /\ loop[x].doing = "answer" => Answers(x, loop[x].conn)
         /\ loop[x].doing = "apply" => Applies(x, loop[x].conn, loop[x].answer)
<1>1. CASE loop[x] = Idle
  BY <1>1 DEF Idle
<1>2. ASSUME NEW k \in Conns, Answers(x, k) PROVE loop[x].doing = "answer" /\ loop[x].conn = k
  BY <1>2 DEF Answers
<1>3. ASSUME NEW k \in Conns, NEW l \in Conns, Applies(x, k, l)
      PROVE  loop[x].doing = "apply" /\ loop[x].conn = k /\ loop[x].answer = l
  BY <1>3 DEF Applies
<1>4. LoopFits(x)
  BY DEF Fits
<1> QED  BY <1>1, <1>2, <1>3, <1>4 DEF LoopFits

LEMMA StateKeeps ==
  ASSUME BrowsersInv, NEW j \in Conns, NEW s \in {"connected", "authenticated", "failed"},
         conns' = [conns EXCEPT ![j].state = s], failed' \in {failed, failed \cup {j}},
         UNCHANGED <<stored, calls, letters, loop, online, panicked, crossed>>
  PROVE  BrowsersInv'
<1>1. PICK n : n = Len(conns)
  OBVIOUS
<1>2. ConnTypes /\ n \in Nat /\ Conns = 1..n /\ \A k \in 1..n : conns[k] \in BConn
  BY <1>1, NumbersOfConns DEF BrowsersInv, Fits, ConnTypes, Conns
<1>3. conns' = [k \in 1..n |-> IF k = j THEN [conns[k] EXCEPT !.state = s] ELSE conns[k]]
  BY <1>2 DEF Conns
<1>4. \A k \in 1..n : [conns[k] EXCEPT !.state = s] \in BConn
  BY <1>2 DEF BConn
<1>5. conns' \in Seq(BConn) /\ Conns' = Conns
  <2>1. \A k \in 1..n : (IF k = j THEN [conns[k] EXCEPT !.state = s] ELSE conns[k]) \in BConn
    BY <1>2, <1>4
  <2>2. conns' \in [1..n -> BConn]
    BY <1>3, <2>1
  <2> QED  BY <1>2, <2>2 DEF Conns
<1>6. \A k \in Conns : /\ conns'[k].at = conns[k].at /\ conns'[k].to = conns[k].to
                       /\ conns'[k].answers = conns[k].answers /\ conns'[k].got = conns[k].got
                       /\ conns'[k].state \in {s, conns[k].state}
  BY <1>2, <1>3 DEF BConn
<1>7. Forward
  BY <1>5, <1>6 DEF Forward, SameEnds
<1>8. ConnTypes'
  BY <1>2, <1>5 DEF ConnTypes
<1>9. \A x \in Browser : Box(x)' = Box(x)
  BY DEF Box
<1>10. \A k \in Conns : /\ conns[k].to \in Browser
                        /\ IsStored(k) => IsStored(k)'
                        /\ Answering(k) => Answering(k)'
                        /\ Applying(k) => Applying(k)'
  BY <1>2, <1>6 DEF IsStored, Answering, Applying, BConn
<1> QED  BY <1>5, <1>6, <1>7, <1>8, <1>9, <1>10, LossKeeps

LEMMA OfferFailsKeeps ==
  ASSUME BrowsersInv, NEW j \in Conns, OfferFails(j) PROVE BrowsersInv'
<1>1. /\ calls' = calls \ {j} /\ failed' = failed \cup {j} /\ CloseConns({j})
      /\ UNCHANGED <<stored, letters, loop, online, panicked, crossed>>
  BY DEF OfferFails
<1>2. ConnTypes /\ \A k \in Conns : conns[k] \in BConn
  BY NumbersOfConns DEF BrowsersInv, Fits
<1>3. /\ conns' \in Seq(BConn) /\ Conns' = Conns /\ SameEnds
      /\ \A k \in Conns : conns'[k].got = conns[k].got /\ (k # j => conns'[k] = conns[k])
  BY <1>1, <1>2, ClosedKeep
<1>4. Forward
  BY <1>1, <1>3 DEF Forward
<1>5. ConnTypes'
  BY <1>1, <1>2, <1>3 DEF ConnTypes
<1>6. \A k \in Conns : Calm(k)' => k # j
  BY <1>1 DEF Calm
<1>7. \A x \in Browser : Box(x)' = Box(x)
  BY <1>1 DEF Box
<1>8. \A k \in Conns : /\ conns[k].to \in Browser
                       /\ IsStored(k) => IsStored(k)'
                       /\ Answering(k) => Answering(k)'
                       /\ Applying(k) => Applying(k)'
  BY <1>1, <1>2, <1>3 DEF IsStored, Answering, Applying, BConn, SameEnds
<1> QED  BY <1>1, <1>3, <1>4, <1>5, <1>6, <1>7, <1>8, LossKeeps

LEMMA AnswerFailsKeeps ==
  ASSUME BrowsersInv, NEW x \in Browser, AnswerFails(x) PROVE BrowsersInv'
<1>1. PICK j : j = loop[x].conn
  OBVIOUS
<1>2. /\ loop[x].doing = "answer" /\ CloseConns({j}) /\ loop' = [loop EXCEPT ![x] = Idle]
      /\ failed' = failed \cup {j, conns[j].answers}
      /\ UNCHANGED <<stored, calls, letters, online, panicked, crossed>>
  BY <1>1 DEF AnswerFails
<1>3. ConnTypes /\ \A k \in Conns : conns[k] \in BConn
  BY NumbersOfConns DEF BrowsersInv, Fits
<1>4. Answers(x, j)
  BY <1>1, <1>2, LoopAwaits DEF BrowsersInv
<1>5. PICK a \in Conns : a = conns[j].answers /\ Ends(a) = Ends(j)
  BY <1>4 DEF BrowsersInv, Fits, ConnFits, Answers, Paired, Ends
<1>6. /\ conns' \in Seq(BConn) /\ Conns' = Conns /\ SameEnds
      /\ \A k \in Conns : conns'[k].got = conns[k].got /\ (k # j => conns'[k] = conns[k])
  BY <1>2, <1>3, ClosedKeep
<1>7. Forward
  BY <1>2, <1>6 DEF Forward
<1>8. ConnTypes'
  BY <1>2, <1>3, <1>4, <1>5, <1>6 DEF ConnTypes, Answers
<1>9. \A y \in Browser : Box(y)' = Box(y)
  BY <1>2 DEF Box
<1>10. ASSUME NEW k \in Conns, Calm(k)'
       PROVE  /\ k # j
              /\ Answering(k) => Answering(k)'
              /\ Applying(k) => Applying(k)'
              /\ IsStored(k) => IsStored(k)'
  <2>1. k # j
    BY <1>2, <1>10 DEF Calm
  <2>2. /\ conns'[k].at = conns[k].at /\ conns'[k].to = conns[k].to
        /\ conns'[k].answers = conns[k].answers
    BY <1>6 DEF SameEnds
  <2>3. Answering(k) => conns[k].at # x
    BY <1>1, <2>1 DEF Answering
  <2>4. Applying(k) => conns[k].to # x
    BY <1>2 DEF Applying
  <2>5. \A y \in Browser \ {x} : loop'[y] = loop[y]
    BY <1>2
  <2>6. conns[k].at \in Browser /\ conns[k].to \in Browser
    BY <1>3 DEF BConn
  <2>7. Answering(k) => Answering(k)'
    BY <2>2, <2>3, <2>5, <2>6 DEF Answering
  <2>8. Applying(k) => Applying(k)'
    BY <2>2, <2>4, <2>5, <2>6 DEF Applying
  <2>9. IsStored(k) => IsStored(k)'
    BY <1>2, <2>2 DEF IsStored
  <2> QED  BY <2>1, <2>7, <2>8, <2>9
<1>11. \A y \in Browser : loop'[y] \in {Idle, loop[y]}
  BY <1>2
<1>12. \A y, z \in Browser : stored'[y][z] \in {0, stored[y][z]}
  BY <1>2
<1>13. \A k \in Conns : conns[k].to \in Browser
  BY <1>3 DEF BConn
<1>14. ASSUME NEW k \in Conns, Calm(k)'
       PROVE  /\ conns[k].state # "closed" => conns'[k].state # "closed"
              /\ k \in calls => k \in calls'
              /\ Answering(k) => Answering(k)'
              /\ Applying(k) => Applying(k)'
              /\ IsStored(k) => IsStored(k)'
              /\ \A m \in Box(conns[k].to) : m.type # "gone" => m \in Box(conns[k].to)'
  BY <1>2, <1>6, <1>9, <1>10, <1>13, <1>14
<1>15. \A y \in Browser : \A m \in Box(y)' : m \in Box(y) \/ LetterFits(y, m)'
  BY <1>9
<1>16. calls' \subseteq calls
  BY <1>2
<1> QED  BY <1>6, <1>7, <1>8, <1>11, <1>12, <1>14, <1>15, <1>16, LossKeeps

LEMMA GoneKeeps ==
  ASSUME BrowsersInv, NEW x \in Browser, Gone(x) PROVE BrowsersInv'
<1>1. PICK y : y = Head(letters[x]).from
  OBVIOUS
<1>2. PICK j : j = stored[x][y]
  OBVIOUS
<1>3. /\ letters[x] # <<>> /\ Head(letters[x]).type = "gone"
      /\ letters' = [letters EXCEPT ![x] = Tail(@)]
      /\ stored' = [stored EXCEPT ![x][y] = 0] /\ CloseConns({j})
      /\ UNCHANGED <<calls, loop, online, panicked, crossed, failed>>
  BY <1>1, <1>2 DEF Gone, Takes
<1>4. ConnTypes /\ \A k \in Conns : k # 0 /\ conns[k] \in BConn
  BY NumbersOfConns DEF BrowsersInv, Fits
<1>5. /\ conns' \in Seq(BConn) /\ Conns' = Conns /\ SameEnds
      /\ \A k \in Conns : conns'[k].got = conns[k].got /\ (k # j => conns'[k] = conns[k])
  BY <1>3, <1>4, ClosedKeep
<1>6. Forward
  BY <1>3, <1>5 DEF Forward
<1>7. /\ letters' \in [Browser -> Seq(Letter)]
      /\ Head(letters[x]) \in Box(x) /\ Head(letters[x]) \in Letter
      /\ \A z \in Browser : Box(z)' \subseteq Box(z)
      /\ \A z \in Browser : \A m \in Box(z) : m \in Box(z)' \/ m.type = "gone"
  BY <1>3, <1>4, TakenFromBox
<1>8. y \in Browser \ online
  <2>1. PICK m : m = Head(letters[x])
    OBVIOUS
  <2>2. LetterFits(x, m) /\ m.type = "gone" /\ m.from = y /\ m \in Letter
    BY <1>1, <1>3, <1>7, <2>1 DEF BrowsersInv, Fits
  <2> QED  BY <2>2 DEF LetterFits, Letter
<1>9. stored' \in [Browser -> [Browser -> Nat]]
      /\ \A v, w \in Browser : stored'[v][w] \in {0, stored[v][w]} /\ (w # y => stored'[v][w] = stored[v][w])
  BY <1>3, <1>4, <1>8 DEF ConnTypes
<1>10. ConnTypes'
  BY <1>3, <1>4, <1>5, <1>7, <1>9 DEF ConnTypes
<1>11. ASSUME NEW k \in Conns, Calm(k)' PROVE k # j /\ (IsStored(k) => IsStored(k)')
  <2>1. Calm(k) /\ y \notin Ends(k)
    BY <1>4, <1>6, <1>8, <1>11, CalmBefore DEF Calm
  <2>2. conns[k].to # y /\ conns[k].at \in Browser /\ conns[k].to \in Browser
    BY <1>4, <2>1 DEF Ends, BConn
  <2>3. k # j
    <3>1. stored[x][y] = j
      BY <1>2
    <3>2. j # 0 => conns[j].to = y
      BY <1>8, <3>1 DEF BrowsersInv, Fits, StoredFit
    <3> QED  BY <1>4, <1>11, <2>2, <3>2
  <2>4. IsStored(k) => IsStored(k)'
    <3>1. conns'[k].at = conns[k].at /\ conns'[k].to = conns[k].to
      BY <1>5 DEF SameEnds
    <3>2. PICK v, w : v = conns[k].at /\ w = conns[k].to
      OBVIOUS
    <3>3. stored'[v][w] = stored[v][w]
      BY <1>9, <2>2, <3>2
    <3> QED  BY <3>1, <3>2, <3>3 DEF IsStored
  <2> QED  BY <2>3, <2>4
<1>12. \A k \in Conns : /\ conns[k].to \in Browser
                        /\ Answering(k) => Answering(k)'
                        /\ Applying(k) => Applying(k)'
  BY <1>3, <1>4, <1>5 DEF Answering, Applying, BConn, SameEnds
<1>13. ASSUME NEW k \in Conns
       PROVE  \A m \in Box(conns[k].to) : m.type # "gone" => m \in Box(conns[k].to)'
  <2>1. PICK t : t = conns[k].to
    OBVIOUS
  <2>2. t \in Browser /\ conns'[k].to = t
    BY <1>5, <1>12, <2>1 DEF SameEnds
  <2> QED  BY <1>7, <2>1, <2>2
<1>14. ASSUME NEW k \in Conns, Calm(k)'
       PROVE  /\ conns[k].state # "closed" => conns'[k].state # "closed"
              /\ k \in calls => k \in calls'
              /\ Answering(k) => Answering(k)'
              /\ Applying(k) => Applying(k)'
              /\ IsStored(k) => IsStored(k)'
              /\ \A m \in Box(conns[k].to) : m.type # "gone" => m \in Box(conns[k].to)'
  BY <1>3, <1>5, <1>11, <1>12, <1>13, <1>14
<1>15. \A z \in Browser : \A m \in Box(z)' : m \in Box(z) \/ LetterFits(z, m)'
  BY <1>7
<1>16. calls' \subseteq calls /\ \A z \in Browser : loop'[z] \in {Idle, loop[z]}
  BY <1>3
<1> QED  BY <1>5, <1>6, <1>9, <1>10, <1>14, <1>15, <1>16, LossKeeps

LEMMA PutInBoxes ==
  ASSUME ConnTypes, NEW e \in Letter, NEW S,
         letters' = [y \in Browser |-> IF y \in S THEN Append(letters[y], e) ELSE letters[y]]
  PROVE  /\ letters' \in [Browser -> Seq(Letter)]
         /\ \A z \in Browser : Box(z) \subseteq Box(z)'
         /\ \A z \in Browser : \A m \in Box(z)' : m \in Box(z) \/ m = e
<1>1. PICK L : L = Letter
  OBVIOUS
<1>2. ASSUME NEW y \in Browser
      PROVE  /\ letters'[y] \in Seq(Letter) /\ Box(y) \subseteq Box(y)'
             /\ \A m \in Box(y)' : m \in Box(y) \/ m = e
  <2>1. PICK q : q = letters[y]
    OBVIOUS
  <2>2. q \in Seq(L) /\ e \in L
    BY <1>1, <2>1 DEF ConnTypes
  <2>3. /\ Append(q, e) \in Seq(L) /\ DOMAIN Append(q, e) = 1..(Len(q) + 1)
        /\ Len(q) \in Nat /\ DOMAIN q = 1..Len(q) /\ Append(q, e)[Len(q) + 1] = e
        /\ \A i \in 1..Len(q) : Append(q, e)[i] = q[i]
    BY <2>2
  <2>4. Box(y) = { q[i] : i \in 1..Len(q) }
    BY <2>1, <2>3 DEF Box
  <2>5. CASE y \in S
    <3>1. letters'[y] = Append(q, e)
      BY <2>1, <2>5
    <3>2. Box(y)' = { Append(q, e)[i] : i \in 1..(Len(q) + 1) }
      BY <2>3, <3>1 DEF Box
    <3>3. Box(y)' = Box(y) \cup {e}
      BY <2>3, <2>4, <3>2
    <3> QED  BY <1>1, <2>3, <3>1, <3>3
  <2>6. CASE y \notin S
    <3>1. letters'[y] = q
      BY <2>1, <2>6
    <3>2. Box(y)' = Box(y)
      BY <2>1, <3>1 DEF Box
    <3> QED  BY <1>1, <2>2, <3>1, <3>2
  <2> QED  BY <2>5, <2>6
<1>3. letters' \in [Browser -> Seq(Letter)]
  BY <1>2
<1> QED  BY <1>2, <1>3

LEMMA DisconnectKeepsPairs ==
  ASSUME BrowsersInv, NEW x \in Browser, Disconnect(x) PROVE BrowsersInv'
<1>1. PICK K : K = { stored[x][y] : y \in Browser }
  OBVIOUS
<1>2. PICK e : e = [type |-> "gone", from |-> x, conn |-> 0, answers |-> 0]
  OBVIOUS
<1>3. /\ CloseConns(K) /\ UNCHANGED <<calls, loop, crossed, failed>>
      /\ \/ panicked' = panicked \cup {x} /\ UNCHANGED <<stored, online, letters>>
         \/ /\ UNCHANGED panicked /\ online' = online \ {x}
            /\ stored' = [stored EXCEPT ![x] = [y \in Browser |-> 0]]
            /\ letters' = [y \in Browser |-> IF y \in online \ {x} THEN Append(letters[y], e)
                                                                    ELSE letters[y]]
  BY <1>1, <1>2 DEF Disconnect
<1>4. ConnTypes /\ \A k \in Conns : k # 0 /\ conns[k] \in BConn
  BY NumbersOfConns DEF BrowsersInv, Fits
<1>5. /\ conns' \in Seq(BConn) /\ Conns' = Conns /\ SameEnds
      /\ \A k \in Conns : conns'[k].got = conns[k].got /\ (k \notin K => conns'[k] = conns[k])
  BY <1>3, <1>4, ClosedKeep
<1>6. Forward
  BY <1>3, <1>5 DEF Forward
<1>7. e \in Letter /\ (x \notin online' => \A z \in Browser : LetterFits(z, e)')
  BY <1>2 DEF Letter, LetterFits
<1>8. /\ letters' \in [Browser -> Seq(Letter)]
      /\ \A z \in Browser : Box(z) \subseteq Box(z)'
      /\ \A z \in Browser : \A m \in Box(z)' : m \in Box(z) \/ LetterFits(z, m)'
  <2>1. CASE UNCHANGED letters
    BY <1>4, <2>1 DEF ConnTypes, Box
  <2>2. PICK S : S = online \ {x}
    OBVIOUS
  <2>3. CASE online' = online \ {x} /\ letters' = [y \in Browser |-> IF y \in S THEN Append(letters[y], e)
                                                                    ELSE letters[y]]
    BY <1>4, <1>7, <2>3, PutInBoxes
  <2> QED  BY <1>3, <2>1, <2>2, <2>3
<1>9. stored' \in [Browser -> [Browser -> Nat]]
      /\ \A v, w \in Browser : stored'[v][w] \in {0, stored[v][w]} /\ (v # x => stored'[v][w] = stored[v][w])
  <2>1. CASE UNCHANGED stored
    BY <1>4, <2>1 DEF ConnTypes
  <2>2. CASE stored' = [stored EXCEPT ![x] = [y \in Browser |-> 0]]
    BY <1>4, <2>2 DEF ConnTypes
  <2> QED  BY <1>3, <2>1, <2>2
<1>10. ConnTypes'
  BY <1>3, <1>4, <1>5, <1>8, <1>9 DEF ConnTypes
<1>11. ASSUME NEW k \in Conns, Calm(k)' PROVE k \notin K /\ (IsStored(k) => IsStored(k)')
  <2>1. x \notin Ends(k)'
    BY <1>3, <1>11 DEF Calm
  <2>2. conns[k].at # x /\ conns[k].at \in Browser /\ conns[k].to \in Browser
    BY <1>4, <1>5, <2>1 DEF Ends, BConn, SameEnds
  <2>3. \A y \in Browser : stored[x][y] # 0 => conns[stored[x][y]].at = x
    BY DEF BrowsersInv, Fits, StoredFit
  <2>4. k \notin K
    BY <1>1, <1>4, <1>11, <2>2, <2>3
  <2>5. IsStored(k) => IsStored(k)'
    BY <1>5, <1>9, <2>2 DEF IsStored, SameEnds
  <2> QED  BY <2>4, <2>5
<1>12. \A k \in Conns : /\ conns[k].to \in Browser
                        /\ Answering(k) => Answering(k)'
                        /\ Applying(k) => Applying(k)'
  BY <1>3, <1>4, <1>5 DEF Answering, Applying, BConn, SameEnds
<1>13. ASSUME NEW k \in Conns
       PROVE  \A m \in Box(conns[k].to) : m \in Box(conns[k].to)'
  <2>1. PICK t : t = conns[k].to
    OBVIOUS
  <2>2. t \in Browser /\ conns'[k].to = t
    BY <1>5, <1>12, <2>1 DEF SameEnds
  <2> QED  BY <1>8, <2>1, <2>2
<1>14. ASSUME NEW k \in Conns, Calm(k)'
       PROVE  /\ conns[k].state # "closed" => conns'[k].state # "closed"
              /\ k \in calls => k \in calls'
              /\ Answering(k) => Answering(k)'
              /\ Applying(k) => Applying(k)'
              /\ IsStored(k) => IsStored(k)'
              /\ \A m \in Box(conns[k].to) : m.type # "gone" => m \in Box(conns[k].to)'
  BY <1>3, <1>5, <1>11, <1>12, <1>13, <1>14
<1>15. calls' \subseteq calls /\ \A z \in Browser : loop'[z] \in {Idle, loop[z]}
  BY <1>3
<1> QED  BY <1>5, <1>6, <1>8, <1>9, <1>10, <1>14, <1>15, LossKeeps

LEMMA ConnectKeepsPairs ==
  ASSUME BrowsersInv, NEW x \in Browser, NEW y \in Browser, x # y, Connect(x, y)
  PROVE  BrowsersInv'
<1>1. PICK c : c = Connection(x, y, 0)
  OBVIOUS
<1>2. PICK n : n = Len(conns')
  OBVIOUS
<1>3. /\ conns' = Append(conns, c) /\ calls' = calls \cup {n}
      /\ crossed' = IF Have(x, y) THEN crossed \cup {{x, y}} ELSE crossed
      /\ UNCHANGED <<stored, letters, loop, online, panicked, failed>>
  BY <1>1, <1>2 DEF Connect, Pair
<1>4. c \in BConn /\ c.at = x /\ c.to = y /\ c.answers = 0 /\ c.got = 0 /\ c.state = "connecting"
  BY <1>1 DEF Connection, BConn
<1>5. ConnTypes /\ \A k \in Conns : k # 0 /\ conns[k] \in BConn
  BY NumbersOfConns DEF BrowsersInv, Fits
<1>6. /\ conns' \in Seq(BConn) /\ Conns' = Conns \cup {n} /\ n \notin Conns /\ conns'[n] = c
      /\ \A k \in Conns : conns'[k] = conns[k]
  BY <1>2, <1>3, <1>4, <1>5, NewConn
<1>7. Forward
  BY <1>3, <1>6 DEF Forward, SameEnds
<1>8. SameEnds /\ calls' \cap Conns \subseteq calls /\ online' \subseteq online
  BY <1>3, <1>6, <1>7 DEF Forward
<1>9. ConnTypes'
  BY <1>3, <1>5, <1>6 DEF ConnTypes
<1>10. \A k \in Conns : ConnFits(k)'
  BY <1>6, <1>8, ConnStillFits DEF BrowsersInv, Fits
<1>11. ConnFits(n)'
  BY <1>4, <1>6 DEF ConnFits
<1>12. StoredFit'
  BY <1>3, <1>8, StoredStillFits DEF BrowsersInv, Fits
<1>13. \A z \in Browser : LoopFits(z)'
  BY <1>3, <1>8, LoopStillFits DEF BrowsersInv, Fits, Answers
<1>14. \A z \in Browser : Box(z)' = Box(z)
  BY <1>3 DEF Box
<1>15. \A z \in Browser : \A m \in Box(z)' : LetterFits(z, m)'
  BY <1>8, <1>14, LetterStillFits DEF BrowsersInv, Fits
<1>16. Fits'
  BY <1>6, <1>9, <1>10, <1>11, <1>12, <1>13, <1>15 DEF Fits
<1>17. \A k \in Conns : Ends(k)' = Ends(k)
  BY <1>6 DEF Ends
<1>18. Ends(n)' = {x, y}
  BY <1>4, <1>6 DEF Ends
<1>19. ASSUME NEW k \in Conns, Calm(k)' PROVE Ends(k) # {x, y}
  <2>1. Calm(k)
    BY <1>5, <1>7, <1>19, CalmBefore
  <2>2. SUFFICES ASSUME Ends(k) = {x, y} PROVE FALSE
    OBVIOUS
  <2>3. conns[k].state # "closed" /\ k \notin failed
    BY <2>1 DEF BrowsersInv, GoesOn, Calm
  <2>4. Have(x, y)
    BY <2>2, <2>3 DEF Have, Ends
  <2> QED  BY <1>3, <1>17, <1>19, <2>2, <2>4 DEF Calm
<1>20. ASSUME NEW k \in Conns, GoesOn(k), Calm(k)' PROVE GoesOn(k)'
  <2>1. \A l \in Conns' \ Conns : Ends(l)' # Ends(k)
    BY <1>6, <1>18, <1>19, <1>20
  <2>2. conns'[k].state # "closed" /\ (k \in calls => k \in calls')
    BY <1>3, <1>6, <1>20 DEF GoesOn
  <2>3. PICK t : t = conns[k].to
    OBVIOUS
  <2>4. conns'[k].to = t /\ t \in Browser
    BY <1>5, <1>6, <2>3 DEF BConn
  <2>5. (Offered(k) => Offered(k)') /\ (IsTold(k) => IsTold(k)')
    BY <1>14, <2>3, <2>4 DEF Offered, IsTold
  <2>6. /\ IsStored(k) => IsStored(k)'
        /\ Answering(k) => Answering(k)'
        /\ Applying(k) => Applying(k)'
    BY <1>3, <1>6 DEF IsStored, Answering, Applying
  <2>7. conns[k].answers # 0 /\ Taken(k) => Taken(k)'
    BY <1>6 DEF Taken, BrowsersInv, Fits, ConnFits
  <2> QED  BY <1>8, <1>20, <2>1, <2>2, <2>5, <2>6, <2>7, StillGoesOn
<1>21. Calm(n)' => GoesOn(n)'
  <2>1. ASSUME Calm(n)', NEW k \in Conns, Ends(k) = {x, y} PROVE FALSE
    <3>1. Calm(k)'
      BY <1>17, <1>18, <2>1 DEF Calm
    <3> QED  BY <1>19, <2>1, <3>1
  <2> QED  BY <1>3, <1>4, <1>6, <1>17, <1>18, <2>1 DEF GoesOn, OfferGoesOn
<1> QED  BY <1>6, <1>7, <1>16, <1>20, <1>21, AllGoOn

LEMMA SendOfferKeeps ==
  ASSUME BrowsersInv, NEW j \in Conns, SendOffer(j) PROVE BrowsersInv'
<1>1. PICK x, y : x = conns[j].at /\ y = conns[j].to
  OBVIOUS
<1>2. PICK s : s = stored[x][y]
  OBVIOUS
<1>3. PICK e : e = [type |-> "offer", from |-> x, conn |-> j, answers |-> 0]
  OBVIOUS
<1>4. /\ j \in calls /\ calls' = calls \ {j} /\ Relayed(x, y, e)
      /\ UNCHANGED <<loop, online, crossed, failed>>
  BY <1>1, <1>3 DEF SendOffer
<1>5. \/ /\ loop[x].doing = "apply" /\ panicked' = panicked \cup {x} /\ UNCHANGED <<conns, stored>>
      \/ /\ UNCHANGED panicked /\ stored' = [stored EXCEPT ![x][y] = j] /\ CloseConns({s})
  BY <1>1, <1>2 DEF SendOffer
<1>6. ConnTypes /\ \A k \in Conns : k \in Nat \ {0} /\ conns[k] \in BConn
  BY NumbersOfConns DEF BrowsersInv, Fits
<1>7. x \in Browser /\ y \in Browser /\ x # y /\ conns[j].answers = 0
  BY <1>1, <1>4, <1>6 DEF BrowsersInv, Fits, ConnFits, BConn
<1>8. e \in Letter
  BY <1>3, <1>6, <1>7 DEF Letter
<1>9. /\ letters' \in [Browser -> Seq(Letter)]
      /\ \A z \in Browser : Box(z) \subseteq Box(z)'
      /\ \A z \in Browser : \A m \in Box(z)' : m \in Box(z) \/ (z = y /\ m = e)
      /\ {x, y} \subseteq online => e \in Box(y)'
  BY <1>4, <1>6, <1>7, <1>8, PutInBox
<1>10. /\ conns' \in Seq(BConn) /\ Conns' = Conns /\ SameEnds
       /\ \A k \in Conns : conns'[k].got = conns[k].got /\ (k # s => conns'[k] = conns[k])
  <2>1. CASE UNCHANGED conns
    BY <1>6, <2>1 DEF ConnTypes, SameEnds, Conns
  <2>2. CASE CloseConns({s})
    BY <1>6, <2>2, ClosedKeep
  <2> QED  BY <1>5, <2>1, <2>2
<1>11. Forward
  BY <1>4, <1>5, <1>10 DEF Forward
<1>12. calls' \subseteq calls /\ online' \subseteq online
  BY <1>4
<1>13. /\ stored' \in [Browser -> [Browser -> Nat]]
       /\ \A v, w \in Browser : stored'[v][w] # stored[v][w] => v = x /\ w = y /\ stored'[v][w] = j
  <2>1. CASE UNCHANGED stored
    BY <1>6, <2>1 DEF ConnTypes
  <2>2. CASE stored' = [stored EXCEPT ![x][y] = j]
    <3>1. j \in Nat /\ stored \in [Browser -> [Browser -> Nat]]
      BY <1>6 DEF ConnTypes
    <3> QED  BY <1>7, <2>2, <3>1
  <2> QED  BY <1>5, <2>1, <2>2
<1>14. ConnTypes'
  BY <1>4, <1>6, <1>9, <1>10, <1>13 DEF ConnTypes
<1>15. \A k \in Conns : ConnFits(k)'
  BY <1>10, <1>12, ConnStillFits DEF BrowsersInv, Fits
<1>16. StoredFit'
  <2>1. SUFFICES ASSUME NEW v \in Browser, NEW w \in Browser, stored'[v][w] # 0
                 PROVE  /\ stored'[v][w] \in Conns' \ calls'
                        /\ conns'[stored'[v][w]].at = v /\ conns'[stored'[v][w]].to = w
    BY DEF StoredFit
  <2>2. CASE stored'[v][w] = stored[v][w]
    BY <1>10, <1>12, <2>1, <2>2 DEF BrowsersInv, Fits, StoredFit, SameEnds
  <2>3. CASE v = x /\ w = y /\ stored'[v][w] = j
    BY <1>1, <1>4, <1>10, <2>3 DEF SameEnds
  <2> QED  BY <1>13, <2>2, <2>3
<1>17. ASSUME NEW z \in Browser PROVE LoopFits(z)'
  <2>1. ASSUME NEW k \in Conns, Answers(z, k) PROVE stored'[z][conns[k].to] # k
    BY <1>6, <1>7, <1>13, <2>1 DEF Answers, BConn
  <2> QED  BY <1>4, <1>10, <2>1, LoopStillFits DEF BrowsersInv, Fits
<1>18. ASSUME NEW z \in Browser, NEW m \in Box(z)' PROVE LetterFits(z, m)'
  <2>1. CASE m \in Box(z)
    BY <1>10, <1>12, <2>1, LetterStillFits DEF BrowsersInv, Fits
  <2>2. CASE z = y /\ m = e
    BY <1>1, <1>3, <1>4, <1>7, <1>10, <2>2 DEF LetterFits, SameEnds
  <2> QED  BY <1>9, <2>1, <2>2
<1>19. Fits'
  BY <1>10, <1>14, <1>15, <1>16, <1>17, <1>18 DEF Fits
<1>20. ASSUME Calm(j)', NEW k \in Conns, Ends(k) = Ends(j), conns[k].at = x PROVE k = j
  <2>1. Calm(j)
    BY <1>6, <1>11, <1>20, CalmBefore
  <2>2. k # j => conns[k].answers = j
    BY <1>6, <1>7, <1>20, <2>1 DEF BrowsersInv, GoesOn
  <2>3. conns[k].answers = j => conns[k].at = y
    BY <1>1, <1>6, <1>20 DEF BrowsersInv, Fits, ConnFits, Paired
  <2> QED  BY <1>7, <1>20, <2>2, <2>3
<1>21. ASSUME NEW k \in Conns, GoesOn(k), Calm(k)' PROVE GoesOn(k)'
  <2>1. PICK v, w : v = conns[k].at /\ w = conns[k].to
    OBVIOUS
  <2>2. /\ conns'[k].at = v /\ conns'[k].to = w /\ conns'[k].answers = conns[k].answers
        /\ v \in Browser /\ w \in Browser
    BY <1>6, <1>10, <2>1 DEF BConn, SameEnds
  <2>3. v = x /\ w = y => k = j
    <3>1. v = x /\ w = y => Ends(k) = Ends(j)
      BY <1>1, <2>1 DEF Ends
    <3>2. Ends(k) = Ends(j) => Calm(j)'
      <4>1. Ends(k)' = Ends(k) /\ Ends(j)' = Ends(j)
        BY <1>10 DEF Ends, SameEnds
      <4> QED  BY <1>21, <4>1 DEF Calm
    <3> QED  BY <1>20, <2>1, <3>1, <3>2
  <2>4. k = j => UNCHANGED panicked /\ stored' = [stored EXCEPT ![x][y] = j] /\ {x, y} \subseteq online
    <3>1. SUFFICES ASSUME k = j
                   PROVE  UNCHANGED panicked /\ stored' = [stored EXCEPT ![x][y] = j] /\ {x, y} \subseteq online
      OBVIOUS
    <3>2. Ends(k)' = {x, y}
      BY <1>1, <2>1, <2>2, <3>1 DEF Ends
    <3>3. {x, y} \subseteq online' \ panicked'
      BY <1>21, <3>2 DEF Calm
    <3> QED  BY <1>4, <1>5, <3>3
  <2>5. IsStored(k) => IsStored(k)'
    BY <1>13, <2>1, <2>2, <2>3 DEF IsStored
  <2>6. conns'[k].state # "closed"
    <3>1. k # s
      <4>1. k = s => v = x /\ w = y
        BY <1>2, <1>6, <1>7, <2>1 DEF BrowsersInv, Fits, StoredFit
      <4>2. s # j
        BY <1>2, <1>4, <1>6, <1>7 DEF BrowsersInv, Fits, StoredFit
      <4> QED  BY <2>3, <4>1, <4>2
    <3> QED  BY <1>10, <1>21, <3>1 DEF GoesOn
  <2>7. k \in calls => k \in calls' \/ (IsStored(k)' /\ Offered(k)')
    <3>1. k = j => IsStored(k)'
      <4>1. k = j => stored'[x][y] = j
        BY <1>6, <1>7, <2>4 DEF ConnTypes
      <4> QED  BY <1>1, <2>1, <2>2, <4>1 DEF IsStored
    <3>2. k = j => e \in Box(y)'
      BY <1>9, <2>4
    <3>3. k = j => Offered(k)'
      BY <1>1, <1>3, <2>1, <2>2, <3>2 DEF Offered
    <3> QED  BY <1>4, <3>1, <3>3
  <2>8. (Offered(k) => Offered(k)') /\ (IsTold(k) => IsTold(k)')
    BY <1>9, <2>1, <2>2 DEF Offered, IsTold
  <2>9. /\ Answering(k) => Answering(k)'
        /\ Applying(k) => Applying(k)'
    BY <1>4, <2>1, <2>2 DEF Answering, Applying
  <2>10. conns[k].answers # 0 /\ Taken(k) => Taken(k)'
    BY <1>10, <2>2 DEF Taken, BrowsersInv, Fits, ConnFits
  <2>11. \A l \in Conns' \ Conns : Ends(l)' # Ends(k)
    BY <1>10
  <2> QED  BY <1>10, <1>21, <2>5, <2>6, <2>7, <2>8, <2>9, <2>10, <2>11, StillGoesOn
<1> QED  BY <1>10, <1>11, <1>19, <1>21, AllGoOn

LEMMA TakeOfferKeeps ==
  ASSUME BrowsersInv, NEW x \in Browser, TakeOffer(x) PROVE BrowsersInv'
<1>1. PICK m : m = Head(letters[x])
  OBVIOUS
<1>2. PICK y, j : y = m.from /\ j = m.conn
  OBVIOUS
<1>3. PICK c : c = Connection(x, y, j)
  OBVIOUS
<1>4. PICK n : n = Len(conns')
  OBVIOUS
<1>5. /\ letters[x] # <<>> /\ m.type = "offer" /\ loop[x] = Idle
      /\ letters' = [letters EXCEPT ![x] = Tail(@)]
      /\ conns' = Append(conns, c)
      /\ loop' = [loop EXCEPT ![x] = [doing |-> "answer", conn |-> n, answer |-> 0]]
      /\ crossed' = IF \E k \in Conns \ {j} :
                         {conns[k].at, conns[k].to} = {x, y} /\ k \notin failed /\ conns[k].state # "closed"
                    THEN crossed \cup {{x, y}} ELSE crossed
      /\ UNCHANGED <<stored, calls, online, panicked, failed>>
  BY <1>1, <1>2, <1>3, <1>4 DEF TakeOffer, Takes, Pair
<1>6. ConnTypes /\ \A k \in Conns : k \in Nat \ {0} /\ conns[k] \in BConn
  BY NumbersOfConns DEF BrowsersInv, Fits
<1>7. /\ letters' \in [Browser -> Seq(Letter)] /\ m \in Box(x)
      /\ \A z \in Browser : Box(z)' \subseteq Box(z)
      /\ \A z \in Browser : \A q \in Box(z) : q \in Box(z)' \/ (z = x /\ q = m)
  BY <1>1, <1>5, <1>6, TakenFromBox
<1>8. /\ j \in Conns \ calls /\ conns[j].at = y /\ conns[j].to = x
      /\ conns[j].answers = 0 /\ y \in Browser /\ x # y
  <2>1. LetterFits(x, m)
    BY <1>7 DEF BrowsersInv, Fits
  <2>2. j \in Conns \ calls /\ conns[j].at = y /\ conns[j].to = x /\ conns[j].answers = 0
    BY <1>2, <1>5, <2>1 DEF LetterFits
  <2> QED  BY <1>6, <2>2 DEF BConn, BrowsersInv, Fits, ConnFits
<1>9. c \in BConn /\ c.at = x /\ c.to = y /\ c.answers = j /\ c.got = 0 /\ c.state = "connecting"
  BY <1>3, <1>6, <1>8 DEF Connection, BConn
<1>10. /\ conns' \in Seq(BConn) /\ Conns' = Conns \cup {n} /\ n \notin Conns /\ conns'[n] = c
       /\ n \in Nat \ {0} /\ \A k \in Conns : conns'[k] = conns[k]
  BY <1>4, <1>5, <1>6, <1>9, NewConn
<1>11. Forward
  BY <1>5, <1>10 DEF Forward, SameEnds
<1>12. SameEnds /\ calls' \cap Conns \subseteq calls /\ online' \subseteq online
  BY <1>5, <1>11 DEF Forward
<1>13. ConnTypes'
  BY <1>5, <1>6, <1>7, <1>10 DEF ConnTypes
<1>14. \A k \in Conns : ConnFits(k)'
  BY <1>10, <1>12, ConnStillFits DEF BrowsersInv, Fits
<1>15. ConnFits(n)'
  <2>1. j \in Conns' \ calls' /\ Paired(n, j)' /\ conns'[j].answers = 0
    BY <1>5, <1>8, <1>9, <1>10 DEF Paired
  <2>2. n \notin calls'
    BY <1>5, <1>6, <1>10 DEF ConnTypes
  <2> QED  BY <1>8, <1>9, <1>10, <2>1, <2>2 DEF ConnFits
<1>16. StoredFit'
  BY <1>5, <1>12, StoredStillFits DEF BrowsersInv, Fits
<1>17. ASSUME NEW z \in Browser PROVE LoopFits(z)'
  <2>1. CASE z = x
    <3>1. stored'[x][y] # n
      BY <1>5, <1>8, <1>10 DEF BrowsersInv, Fits, StoredFit
    <3>2. loop'[x] = [doing |-> "answer", conn |-> n, answer |-> 0]
      BY <1>5, <1>6 DEF ConnTypes
    <3>3. Answers(x, n)' /\ n \in Conns'
      BY <1>6, <1>8, <1>9, <1>10, <3>1, <3>2 DEF Answers
    <3> QED  BY <2>1, <3>3 DEF LoopFits
  <2>2. CASE z # x
    BY <1>5, <1>12, <2>2, LoopStillFits DEF BrowsersInv, Fits, Answers
  <2> QED  BY <2>1, <2>2
<1>18. \A z \in Browser : \A q \in Box(z)' : LetterFits(z, q)'
  BY <1>7, <1>12, LetterStillFits DEF BrowsersInv, Fits
<1>19. Fits'
  BY <1>10, <1>13, <1>14, <1>15, <1>16, <1>17, <1>18 DEF Fits
<1>20. \A k \in Conns : Ends(k)' = Ends(k)
  BY <1>10 DEF Ends
<1>21. Ends(n)' = {x, y} /\ Ends(j) = {x, y}
  BY <1>8, <1>9, <1>10 DEF Ends
<1>22. ASSUME NEW k \in Conns, Calm(k)', Ends(k) = {x, y} PROVE k = j
  <2>1. Calm(k)
    BY <1>6, <1>11, <1>22, CalmBefore
  <2>2. conns[k].state # "closed" /\ k \notin failed
    BY <2>1 DEF BrowsersInv, GoesOn, Calm
  <2>3. {x, y} \notin crossed'
    BY <1>20, <1>22 DEF Calm
  <2> QED  BY <1>5, <1>22, <2>2, <2>3 DEF Ends
<1>23. ASSUME NEW k \in Conns, GoesOn(k), Calm(k)' PROVE GoesOn(k)'
  <2>1. PICK v, w : v = conns[k].at /\ w = conns[k].to
    OBVIOUS
  <2>2. /\ conns'[k].at = v /\ conns'[k].to = w /\ conns'[k].answers = conns[k].answers
        /\ v \in Browser /\ w \in Browser
    BY <1>6, <1>10, <2>1 DEF BConn
  <2>3. \A l \in Conns' \ Conns : Ends(l)' # Ends(k) \/ conns'[l].answers = k
    BY <1>9, <1>10, <1>21, <1>22, <1>23
  <2>4. conns'[k].state # "closed" /\ (k \in calls => k \in calls') /\ (IsStored(k) => IsStored(k)')
    BY <1>5, <1>10, <1>23, <2>1, <2>2 DEF GoesOn, IsStored
  <2>5. Offered(k) => Offered(k)' \/ Answered(k)'
    <3>1. ASSUME NEW q \in Box(w), q.type = "offer", q.conn = k PROVE Offered(k)' \/ Answered(k)'
      <4>1. CASE q \in Box(w)'
        BY <2>2, <3>1, <4>1 DEF Offered
      <4>2. CASE q = m
        <5>1. conns'[n].answers = k /\ n \in Conns'
          BY <1>2, <1>9, <1>10, <3>1, <4>2
        <5> QED  BY <5>1 DEF Answered
      <4> QED  BY <1>7, <2>2, <4>1, <4>2
    <3> QED  BY <2>1, <3>1 DEF Offered
  <2>6. IsTold(k) => IsTold(k)'
    BY <1>5, <1>7, <2>1, <2>2 DEF IsTold
  <2>7. (Answering(k) => Answering(k)') /\ (Applying(k) => Applying(k)')
    <3>1. Answering(k) => v # x
      BY <1>5, <2>1 DEF Answering, Idle
    <3>2. Applying(k) => w # x
      BY <1>5, <2>1 DEF Applying, Idle
    <3>3. \A z \in Browser \ {x} : loop'[z] = loop[z]
      BY <1>5
    <3> QED  BY <2>1, <2>2, <3>1, <3>2, <3>3 DEF Answering, Applying
  <2>8. conns[k].answers # 0 /\ Taken(k) => Taken(k)'
    BY <1>10 DEF Taken, BrowsersInv, Fits, ConnFits
  <2> QED  BY <1>12, <1>23, <2>3, <2>4, <2>5, <2>6, <2>7, <2>8, StillGoesOn
<1>24. Calm(n)' => GoesOn(n)'
  <2>1. ASSUME Calm(n)', NEW k \in Conns, Ends(k) = {x, y} PROVE k = j
    <3>1. Calm(k)'
      BY <1>20, <1>21, <2>1 DEF Calm
    <3> QED  BY <1>22, <2>1, <3>1
  <2>2. Answering(n)'
    BY <1>5, <1>6, <1>9, <1>10 DEF Answering, ConnTypes
  <2> QED  BY <1>6, <1>8, <1>9, <1>10, <1>20, <1>21, <2>1, <2>2 DEF GoesOn, AnswerGoesOn
<1> QED  BY <1>10, <1>11, <1>19, <1>23, <1>24, AllGoOn

LEMMA TakeAnswerKeeps ==
  ASSUME BrowsersInv, NEW x \in Browser, TakeAnswer(x) PROVE BrowsersInv'
<1>1. PICK m : m = Head(letters[x])
  OBVIOUS
<1>2. PICK y, l : y = m.from /\ l = m.conn
  OBVIOUS
<1>3. PICK s : s = stored[x][y]
  OBVIOUS
<1>4. /\ letters[x] # <<>> /\ m.type = "answer" /\ loop[x] = Idle
      /\ letters' = [letters EXCEPT ![x] = Tail(@)]
      /\ loop' = [loop EXCEPT ![x] = IF s = 0 THEN Idle ELSE [doing |-> "apply", conn |-> s, answer |-> l]]
      /\ UNCHANGED <<conns, stored, calls, online, panicked, crossed, failed>>
  BY <1>1, <1>2, <1>3 DEF TakeAnswer, Takes
<1>5. ConnTypes /\ \A k \in Conns : k \in Nat \ {0} /\ conns[k] \in BConn
  BY NumbersOfConns DEF BrowsersInv, Fits
<1>6. /\ letters' \in [Browser -> Seq(Letter)] /\ m \in Box(x)
      /\ \A z \in Browser : Box(z)' \subseteq Box(z)
      /\ \A z \in Browser : \A q \in Box(z) : q \in Box(z)' \/ (z = x /\ q = m)
  BY <1>1, <1>4, <1>5, TakenFromBox
<1>7. /\ l \in Conns \ calls /\ conns[l].at = y /\ conns[l].to = x
      /\ conns[l].answers # 0 /\ y \in Browser /\ x # y
  <2>1. LetterFits(x, m)
    BY <1>6 DEF BrowsersInv, Fits
  <2>2. l \in Conns \ calls /\ conns[l].at = y /\ conns[l].to = x /\ conns[l].answers # 0
    BY <1>2, <1>4, <2>1 DEF LetterFits
  <2> QED  BY <1>5, <2>2 DEF BConn, BrowsersInv, Fits, ConnFits
<1>8. Conns' = Conns /\ SameEnds /\ conns' = conns
  BY <1>4 DEF Conns, SameEnds
<1>9. Forward
  BY <1>4, <1>8 DEF Forward
<1>10. ConnTypes'
  BY <1>4, <1>5, <1>6, <1>8 DEF ConnTypes
<1>11. calls' \cap Conns \subseteq calls /\ online' \subseteq online
  BY <1>4
<1>12. \A k \in Conns : ConnFits(k)'
  BY <1>4, <1>8, <1>11, ConnStillFits DEF BrowsersInv, Fits
<1>13. StoredFit'
  BY <1>4, <1>8, <1>11, StoredStillFits DEF BrowsersInv, Fits
<1>14. ASSUME NEW z \in Browser PROVE LoopFits(z)'
  <2>1. CASE z = x /\ s = 0
    BY <1>4, <1>5, <2>1 DEF LoopFits, ConnTypes
  <2>2. CASE z = x /\ s # 0
    <3>1. s \in Conns /\ conns[s].at = x /\ conns[s].to = y
      BY <1>3, <1>7, <2>2 DEF BrowsersInv, Fits, StoredFit
    <3>2. loop'[x] = [doing |-> "apply", conn |-> s, answer |-> l]
      BY <1>4, <1>5, <2>2 DEF ConnTypes
    <3>3. Applies(x, s, l)'
      BY <1>7, <1>8, <3>1, <3>2 DEF Applies, Paired
    <3> QED  BY <1>7, <1>8, <2>2, <3>1, <3>3 DEF LoopFits
  <2>3. CASE z # x
    BY <1>4, <1>8, <2>3, LoopStillFits DEF BrowsersInv, Fits, Answers
  <2> QED  BY <2>1, <2>2, <2>3
<1>15. \A z \in Browser : \A q \in Box(z)' : LetterFits(z, q)'
  BY <1>6, <1>8, <1>11, LetterStillFits DEF BrowsersInv, Fits
<1>16. Fits'
  BY <1>8, <1>10, <1>12, <1>13, <1>14, <1>15 DEF Fits
<1>17. ASSUME NEW k \in Conns, GoesOn(k), Calm(k), Calm(k)' PROVE GoesOn(k)'
  <2>1. PICK v, w : v = conns[k].at /\ w = conns[k].to
    OBVIOUS
  <2>2. v \in Browser /\ w \in Browser
    BY <1>5, <2>1 DEF BConn
  <2>3. /\ \A i \in Conns' \ Conns : Ends(i)' # Ends(k)
        /\ conns'[k].state # "closed" /\ (k \in calls => k \in calls') /\ (IsStored(k) => IsStored(k)')
    BY <1>4, <1>8, <1>17 DEF GoesOn, IsStored
  <2>4. Offered(k) => Offered(k)'
    BY <1>4, <1>6, <1>8, <2>1, <2>2 DEF Offered
  <2>5. conns[k].answers # 0 /\ IsTold(k) => IsTold(k)' \/ Applying(k)'
    <3>1. ASSUME conns[k].answers # 0, k = l PROVE Applying(k)'
      <4>1. PICK a \in Conns \ calls : /\ conns[k].answers = a /\ Paired(k, a)
                                       /\ conns[a].answers = 0
        BY <3>1 DEF BrowsersInv, Fits, ConnFits
      <4>2. conns[a].at = x /\ conns[a].to = y /\ Ends(a) = Ends(k)
        BY <1>7, <3>1, <4>1 DEF Paired, Ends
      <4>3. Calm(a)
        BY <1>17, <4>2 DEF Calm
      <4>4. s = a
        BY <1>3, <4>1, <4>2, <4>3 DEF BrowsersInv, GoesOn, OfferGoesOn, IsStored
      <4>5. loop'[x] = [doing |-> "apply", conn |-> a, answer |-> k]
        BY <1>4, <1>5, <3>1, <4>1, <4>4 DEF ConnTypes
      <4> QED  BY <1>7, <1>8, <3>1, <4>1, <4>5 DEF Applying
    <3>2. ASSUME NEW q \in Box(w), q.type = "answer", q.conn = k, conns[k].answers # 0
          PROVE  IsTold(k)' \/ Applying(k)'
      <4>1. CASE q \in Box(w)'
        BY <1>8, <2>1, <3>2, <4>1 DEF IsTold
      <4>2. CASE q = m
        BY <1>2, <3>1, <3>2, <4>2
      <4> QED  BY <1>6, <2>2, <4>1, <4>2
    <3> QED  BY <2>1, <3>2 DEF IsTold
  <2>6. (Answering(k) => Answering(k)') /\ (Applying(k) => Applying(k)')
    <3>1. Answering(k) => v # x
      BY <1>4, <2>1 DEF Answering, Idle
    <3>2. Applying(k) => w # x
      BY <1>4, <2>1 DEF Applying, Idle
    <3>3. \A z \in Browser \ {x} : loop'[z] = loop[z]
      BY <1>4
    <3> QED  BY <1>8, <2>1, <2>2, <3>1, <3>2, <3>3 DEF Answering, Applying
  <2>7. Taken(k) => Taken(k)'
    BY <1>8 DEF Taken
  <2> QED  BY <1>8, <1>17, <2>3, <2>4, <2>5, <2>6, <2>7, StillGoesOn
<1> QED  BY <1>8, <1>9, <1>16, <1>17, AllGoOn

LEMMA SendAnswerKeeps ==
  ASSUME BrowsersInv, NEW x \in Browser, SendAnswer(x) PROVE BrowsersInv'
<1>1. PICK j : j = loop[x].conn
  OBVIOUS
<1>2. PICK y, a : y = conns[j].to /\ a = conns[j].answers
  OBVIOUS
<1>3. PICK s : s = stored[x][y]
  OBVIOUS
<1>4. PICK e : e = [type |-> "answer", from |-> x, conn |-> j, answers |-> a]
  OBVIOUS
<1>5. /\ loop[x].doing = "answer" /\ loop' = [loop EXCEPT ![x] = Idle] /\ Relayed(x, y, e)
      /\ stored' = [stored EXCEPT ![x][y] = j] /\ CloseConns({s})
      /\ UNCHANGED <<calls, online, panicked, crossed, failed>>
  BY <1>1, <1>2, <1>3, <1>4 DEF SendAnswer
<1>6. ConnTypes /\ \A k \in Conns : k \in Nat \ {0} /\ conns[k] \in BConn
  BY NumbersOfConns DEF BrowsersInv, Fits
<1>7. Answers(x, j)
  BY <1>1, <1>5, LoopAwaits DEF BrowsersInv
<1>8. j \in Conns /\ conns[j].at = x /\ a # 0 /\ s # j /\ y \in Browser /\ x # y
  BY <1>2, <1>3, <1>6, <1>7 DEF Answers, BConn, BrowsersInv, Fits, ConnFits
<1>9. j \notin calls /\ conns[a].at = y /\ conns[a].answers = 0 /\ a \in Conns
  BY <1>2, <1>8 DEF BrowsersInv, Fits, ConnFits, Paired
<1>10. e \in Letter
  BY <1>4, <1>6, <1>8, <1>9 DEF Letter
<1>11. /\ letters' \in [Browser -> Seq(Letter)]
       /\ \A z \in Browser : Box(z) \subseteq Box(z)'
       /\ \A z \in Browser : \A m \in Box(z)' : m \in Box(z) \/ (z = y /\ m = e)
       /\ {x, y} \subseteq online => e \in Box(y)'
  BY <1>5, <1>6, <1>8, <1>10, PutInBox
<1>12. /\ conns' \in Seq(BConn) /\ Conns' = Conns /\ SameEnds
       /\ \A k \in Conns : conns'[k].got = conns[k].got /\ (k # s => conns'[k] = conns[k])
  BY <1>5, <1>6, ClosedKeep
<1>13. Forward
  BY <1>5, <1>12 DEF Forward
<1>14. calls' \cap Conns \subseteq calls /\ online' \subseteq online
  BY <1>5
<1>15. /\ stored' \in [Browser -> [Browser -> Nat]] /\ stored'[x][y] = j
       /\ \A v, w \in Browser : stored'[v][w] # stored[v][w] => v = x /\ w = y
  <2>1. j \in Nat /\ stored \in [Browser -> [Browser -> Nat]]
    BY <1>6, <1>8 DEF ConnTypes
  <2> QED  BY <1>5, <1>8, <2>1
<1>16. ConnTypes'
  BY <1>5, <1>6, <1>11, <1>12, <1>15 DEF ConnTypes
<1>17. \A k \in Conns : ConnFits(k)'
  BY <1>12, <1>14, ConnStillFits DEF BrowsersInv, Fits
<1>18. StoredFit'
  <2>1. SUFFICES ASSUME NEW v \in Browser, NEW w \in Browser, stored'[v][w] # 0
                 PROVE  /\ stored'[v][w] \in Conns' \ calls'
                        /\ conns'[stored'[v][w]].at = v /\ conns'[stored'[v][w]].to = w
    BY DEF StoredFit
  <2>2. CASE stored'[v][w] = stored[v][w]
    BY <1>5, <1>12, <2>1, <2>2 DEF BrowsersInv, Fits, StoredFit, SameEnds
  <2>3. CASE v = x /\ w = y
    BY <1>2, <1>5, <1>8, <1>9, <1>12, <1>15, <2>3 DEF SameEnds
  <2> QED  BY <1>15, <2>2, <2>3
<1>19. ASSUME NEW z \in Browser PROVE LoopFits(z)'
  <2>1. CASE z = x
    BY <1>5, <1>6, <2>1 DEF LoopFits, ConnTypes
  <2>2. CASE z # x
    <3>1. ASSUME NEW k \in Conns, Answers(z, k) PROVE stored'[z][conns[k].to] # k
      BY <1>6, <1>15, <2>2, <3>1 DEF Answers, BConn
    <3> QED  BY <1>5, <1>12, <2>2, <3>1, LoopStillFits DEF BrowsersInv, Fits
  <2> QED  BY <2>1, <2>2
<1>20. ASSUME NEW z \in Browser, NEW m \in Box(z)' PROVE LetterFits(z, m)'
  <2>1. CASE m \in Box(z)
    BY <1>12, <1>14, <2>1, LetterStillFits DEF BrowsersInv, Fits
  <2>2. CASE z = y /\ m = e
    BY <1>2, <1>4, <1>5, <1>8, <1>9, <1>12, <2>2 DEF LetterFits, SameEnds
  <2> QED  BY <1>11, <2>1, <2>2
<1>21. Fits'
  BY <1>12, <1>16, <1>17, <1>18, <1>19, <1>20 DEF Fits
<1>22. ASSUME Calm(j)', NEW k \in Conns, Ends(k) = Ends(j), conns[k].at = x PROVE k = j
  <2>1. Calm(j)
    BY <1>6, <1>8, <1>13, <1>22, CalmBefore
  <2>2. k # j => conns[k].answers = j \/ k = a
    BY <1>2, <1>8, <1>22, <2>1 DEF BrowsersInv, GoesOn
  <2>3. conns[k].answers # j
    BY <1>2, <1>6, <1>8, <1>22 DEF BrowsersInv, Fits, ConnFits
  <2> QED  BY <1>8, <1>9, <1>22, <2>2, <2>3
<1>23. ASSUME NEW k \in Conns, GoesOn(k), Calm(k)' PROVE GoesOn(k)'
  <2>1. PICK v, w : v = conns[k].at /\ w = conns[k].to
    OBVIOUS
  <2>2. /\ conns'[k].at = v /\ conns'[k].to = w /\ conns'[k].answers = conns[k].answers
        /\ v \in Browser /\ w \in Browser
    BY <1>6, <1>12, <2>1 DEF BConn, SameEnds
  <2>3. v = x /\ w = y => k = j
    <3>1. v = x /\ w = y => Ends(k) = Ends(j)
      BY <1>2, <1>8, <2>1 DEF Ends
    <3>2. Ends(k) = Ends(j) => Calm(j)'
      <4>1. Ends(k)' = Ends(k) /\ Ends(j)' = Ends(j)
        BY <1>8, <1>12 DEF Ends, SameEnds
      <4> QED  BY <1>23, <4>1 DEF Calm
    <3> QED  BY <1>22, <2>1, <3>1, <3>2
  <2>4. k = j => {x, y} \subseteq online
    <3>1. k = j => Ends(k)' = {x, y}
      BY <1>2, <1>8, <2>1, <2>2 DEF Ends
    <3> QED  BY <1>5, <1>23, <3>1 DEF Calm
  <2>5. IsStored(k) => IsStored(k)'
    BY <1>15, <2>1, <2>2, <2>3 DEF IsStored
  <2>6. conns'[k].state # "closed"
    <3>1. k # s
      <4>1. k = s => v = x /\ w = y
        BY <1>3, <1>6, <1>8, <1>23, <2>1 DEF BrowsersInv, Fits, StoredFit
      <4> QED  BY <1>8, <2>3, <4>1
    <3> QED  BY <1>12, <1>23, <3>1 DEF GoesOn
  <2>7. Answering(k) => Answering(k)' \/ (IsStored(k)' /\ IsTold(k)')
    <3>1. ASSUME k = j PROVE IsStored(k)' /\ IsTold(k)'
      <4>1. IsStored(k)'
        BY <1>2, <1>8, <1>15, <2>1, <2>2, <3>1 DEF IsStored
      <4>2. e \in Box(y)' /\ e.type = "answer" /\ e.conn = j
        BY <1>4, <1>11, <2>4, <3>1
      <4> QED  BY <1>2, <2>1, <2>2, <3>1, <4>1, <4>2 DEF IsTold
    <3>2. Answering(k) /\ v = x => k = j
      BY <1>1, <2>1 DEF Answering
    <3>3. v # x => loop'[v] = loop[v]
      BY <1>5, <2>2
    <3>4. v # x /\ Answering(k) => Answering(k)'
      BY <2>1, <2>2, <3>3 DEF Answering
    <3> QED  BY <3>1, <3>2, <3>4
  <2>8. (Offered(k) => Offered(k)') /\ (IsTold(k) => IsTold(k)')
    BY <1>11, <2>1, <2>2 DEF Offered, IsTold
  <2>9. Applying(k) => Applying(k)'
    <3>1. Applying(k) => w # x
      BY <1>5, <2>1 DEF Applying
    <3>2. w # x => loop'[w] = loop[w]
      BY <1>5, <2>2
    <3> QED  BY <2>1, <2>2, <3>1, <3>2 DEF Applying
  <2>10. conns[k].answers # 0 /\ Taken(k) => Taken(k)'
    BY <1>12, <2>2 DEF Taken, BrowsersInv, Fits, ConnFits
  <2>11. \A l \in Conns' \ Conns : Ends(l)' # Ends(k)
    BY <1>12
  <2>12. k \in calls => k \in calls'
    BY <1>5
  <2> QED  BY <1>12, <1>23, <2>5, <2>6, <2>7, <2>8, <2>9, <2>10, <2>11, <2>12, StillGoesOn
<1> QED  BY <1>12, <1>13, <1>21, <1>23, AllGoOn

LEMMA ApplyKeeps ==
  ASSUME BrowsersInv, NEW x \in Browser, Apply(x) PROVE BrowsersInv'
<1>1. PICK j, g : j = loop[x].conn /\ g = loop[x].answer
  OBVIOUS
<1>2. PICK b \in BOOLEAN : b <=> conns[j].answers = 0 /\ conns[j].got = 0 /\ conns[j].state # "closed"
  OBVIOUS
<1>3. /\ loop[x].doing = "apply" /\ loop' = [loop EXCEPT ![x] = Idle]
      /\ conns' = IF b THEN [conns EXCEPT ![j].got = g] ELSE conns
      /\ UNCHANGED <<stored, calls, letters, online, panicked, crossed, failed>>
  BY <1>1, <1>2 DEF Apply
<1>4. ConnTypes /\ \A k \in Conns : k \in Nat \ {0} /\ conns[k] \in BConn
  BY NumbersOfConns DEF BrowsersInv, Fits
<1>5. /\ Applies(x, j, g) /\ j \in Conns /\ g \in Conns /\ conns[g].answers # 0
      /\ Paired(j, g) /\ Ends(g) = Ends(j)
  <2>1. Applies(x, j, g)
    BY <1>1, <1>3, LoopAwaits DEF BrowsersInv
  <2> QED  BY <2>1 DEF Applies, Paired, Ends
<1>6. PICK n : n = Len(conns)
  OBVIOUS
<1>7. n \in Nat /\ Conns = 1..n
  BY <1>4, <1>6 DEF ConnTypes, Conns
<1>8. conns' = [k \in 1..n |-> IF b /\ k = j THEN [conns[k] EXCEPT !.got = g] ELSE conns[k]]
  <2>1. conns = [k \in 1..n |-> conns[k]]
    BY <1>4, <1>6 DEF ConnTypes
  <2> QED  BY <1>3, <1>5, <1>7, <2>1 DEF Conns
<1>9. conns' \in Seq(BConn) /\ Conns' = Conns
  <2>1. \A k \in 1..n : [conns[k] EXCEPT !.got = g] \in BConn
    BY <1>4, <1>5, <1>7 DEF BConn
  <2>2. conns' \in [1..n -> BConn]
    BY <1>4, <1>7, <1>8, <2>1
  <2> QED  BY <1>7, <2>2 DEF Conns
<1>10. \A k \in Conns : /\ conns'[k].at = conns[k].at /\ conns'[k].to = conns[k].to
                        /\ conns'[k].answers = conns[k].answers /\ conns'[k].state = conns[k].state
                        /\ conns'[k].got = IF b /\ k = j THEN g ELSE conns[k].got
  BY <1>4, <1>7, <1>8 DEF BConn
<1>11. SameEnds
  BY <1>9, <1>10 DEF SameEnds
<1>12. Forward
  BY <1>3, <1>11 DEF Forward
<1>13. ConnTypes'
  BY <1>3, <1>4, <1>9 DEF ConnTypes
<1>14. calls' \cap Conns \subseteq calls /\ online' \subseteq online
  BY <1>3
<1>15. ASSUME NEW k \in Conns PROVE ConnFits(k)'
  <2>1. CASE ~(b /\ k = j)
    BY <1>10, <1>11, <1>14, <2>1, ConnStillFits DEF BrowsersInv, Fits
  <2>2. CASE b /\ k = j
    <3>1. conns'[k].answers = 0 /\ conns'[k].got = g /\ conns'[k].at # conns'[k].to
      BY <1>2, <1>10, <2>2 DEF BrowsersInv, Fits, ConnFits
    <3>2. g \in Conns' /\ Paired(k, g)' /\ conns'[g].answers # 0
      BY <1>5, <1>9, <1>10, <2>2 DEF Paired
    <3> QED  BY <3>1, <3>2 DEF ConnFits
  <2> QED  BY <2>1, <2>2
<1>16. StoredFit'
  BY <1>3, <1>11, <1>14, StoredStillFits DEF BrowsersInv, Fits
<1>17. ASSUME NEW z \in Browser PROVE LoopFits(z)'
  <2>1. CASE z = x
    BY <1>3, <1>4, <2>1 DEF LoopFits, ConnTypes
  <2>2. CASE z # x
    BY <1>3, <1>11, <2>2, LoopStillFits DEF BrowsersInv, Fits, Answers
  <2> QED  BY <2>1, <2>2
<1>18. \A z \in Browser : Box(z)' = Box(z)
  BY <1>3 DEF Box
<1>19. \A z \in Browser : \A m \in Box(z)' : LetterFits(z, m)'
  BY <1>11, <1>14, <1>18, LetterStillFits DEF BrowsersInv, Fits
<1>20. Fits'
  BY <1>9, <1>13, <1>15, <1>16, <1>17, <1>19 DEF Fits
<1>21. ASSUME NEW k \in Conns, GoesOn(k), Calm(k), Calm(k)' PROVE GoesOn(k)'
  <2>1. PICK v, w : v = conns[k].at /\ w = conns[k].to
    OBVIOUS
  <2>2. /\ conns'[k].at = v /\ conns'[k].to = w /\ conns'[k].answers = conns[k].answers
        /\ v \in Browser /\ w \in Browser
    BY <1>4, <1>10, <2>1 DEF BConn
  <2>3. /\ \A i \in Conns' \ Conns : Ends(i)' # Ends(k)
        /\ conns'[k].state # "closed" /\ (k \in calls => k \in calls') /\ (IsStored(k) => IsStored(k)')
    BY <1>3, <1>9, <1>10, <1>21 DEF GoesOn, IsStored
  <2>4. (Offered(k) => Offered(k)') /\ (IsTold(k) => IsTold(k)')
    BY <1>18, <2>1, <2>2 DEF Offered, IsTold
  <2>5. Answering(k) => Answering(k)'
    <3>1. Answering(k) => v # x
      BY <1>3, <2>1 DEF Answering
    <3> QED  BY <1>3, <2>1, <2>2, <3>1 DEF Answering
  <2>6. conns[k].answers # 0 /\ Taken(k) => Taken(k)'
    <3>1. conns[k].answers # 0 => conns[k].answers \in Conns
      BY DEF BrowsersInv, Fits, ConnFits
    <3> QED  BY <1>2, <1>4, <1>10, <3>1 DEF Taken
  <2>7. conns[k].answers # 0 /\ Applying(k) => Applying(k)' \/ Taken(k)'
    <3>1. CASE w # x
      BY <1>3, <2>1, <2>2, <3>1 DEF Applying
    <3>2. ASSUME w = x, Applying(k), conns[k].answers # 0 PROVE Taken(k)'
      <4>1. k = g /\ conns[k].answers = j
        BY <1>1, <2>1, <3>2 DEF Applying
      <4>2. conns[j].answers = 0
        BY <3>2, <4>1 DEF BrowsersInv, Fits, ConnFits
      <4>3. Calm(j)
        BY <1>5, <1>21, <4>1 DEF Calm
      <4>4. conns[j].state # "closed"
        BY <1>5, <4>3 DEF BrowsersInv, GoesOn
      <4>5. CASE conns[j].got = 0
        BY <1>2, <1>5, <1>10, <4>1, <4>2, <4>4, <4>5 DEF Taken
      <4>6. CASE conns[j].got # 0
        <5>1. PICK h \in Conns : conns[j].got = h /\ Paired(j, h) /\ conns[h].answers # 0
          BY <1>5, <4>6 DEF BrowsersInv, Fits, ConnFits
        <5>2. Ends(h) = Ends(k)
          BY <1>5, <4>1, <5>1 DEF Paired, Ends
        <5>3. h = k
          BY <1>21, <3>2, <4>1, <4>2, <5>1, <5>2 DEF GoesOn, BrowsersInv, Fits, ConnFits
        <5> QED  BY <2>6, <3>2, <4>1, <5>1, <5>3 DEF Taken
      <4> QED  BY <4>5, <4>6
    <3> QED  BY <3>1, <3>2
  <2> QED  BY <1>11, <1>21, <2>3, <2>4, <2>5, <2>6, <2>7, StillGoesOn
<1> QED  BY <1>9, <1>12, <1>20, <1>21, AllGoOn

LEMMA BrowsersKeep == BrowsersInv /\ [BNext]_bvars => BrowsersInv'
<1> SUFFICES ASSUME BrowsersInv, [BNext]_bvars PROVE BrowsersInv'
  OBVIOUS
<1>1. CASE UNCHANGED bvars
  <2>1. /\ UNCHANGED <<conns, stored, calls, letters, loop, online, panicked, crossed, failed>>
        /\ Conns' = Conns /\ SameEnds /\ ConnTypes /\ \A x \in Browser : Box(x)' = Box(x)
    BY <1>1 DEF bvars, Conns, SameEnds, BrowsersInv, Fits, Box
  <2>2. Forward /\ ConnTypes'
    BY <2>1 DEF Forward, ConnTypes
  <2>3. \A k \in Conns : /\ IsStored(k) => IsStored(k)'
                         /\ Answering(k) => Answering(k)'
                         /\ Applying(k) => Applying(k)'
    BY <2>1 DEF IsStored, Answering, Applying
  <2>4. \A k \in Conns : conns[k].to \in Browser
    BY <2>1, NumbersOfConns DEF BConn
  <2> QED  BY <2>1, <2>2, <2>3, <2>4, LossKeeps
<1>2. ASSUME NEW k \in Conns, SendOffer(k) \/ OfferFails(k) \/ Opens(k) \/ Authenticates(k) \/ ChannelEnds(k)
      PROVE  BrowsersInv'
  <2>1. CASE Opens(k)
    BY <2>1, StateKeeps DEF Opens
  <2>2. CASE Authenticates(k)
    BY <2>2, StateKeeps DEF Authenticates
  <2>3. CASE ChannelEnds(k)
    BY <2>3, StateKeeps DEF ChannelEnds
  <2> QED  BY <1>2, <2>1, <2>2, <2>3, SendOfferKeeps, OfferFailsKeeps
<1>3. ASSUME NEW x \in Browser, \/ TakeOffer(x) \/ SendAnswer(x) \/ AnswerFails(x) \/ TakeAnswer(x)
                                \/ Apply(x) \/ Gone(x) \/ Disconnect(x)
      PROVE  BrowsersInv'
  BY <1>3, TakeOfferKeeps, SendAnswerKeeps, AnswerFailsKeeps, TakeAnswerKeeps, ApplyKeeps,
     GoneKeeps, DisconnectKeepsPairs
<1> QED  BY <1>1, <1>2, <1>3, ConnectKeepsPairs DEF BNext

\* The connection that a settled client has stored leads to one that leads back.
LEMMA SettledPair == BrowsersInv => SettledHaveEachOther
<1> SUFFICES ASSUME BrowsersInv, NEW x \in Browser, NEW y \in Browser, x # y, Settled(x, y),
                    stored[x][y] # 0, Pair(x, y) \notin crossed,
                    \A k \in failed : {conns[k].at, conns[k].to} # {x, y}
             PROVE  stored[y][x] # 0 /\ Partner(stored[x][y], stored[y][x])
  BY DEF SettledHaveEachOther
<1>1. PICK j : j = stored[x][y]
  OBVIOUS
<1>2. \A k \in Conns : k \in Nat \ {0}
  BY NumbersOfConns DEF BrowsersInv, Fits
<1>3. j \in Conns \ calls /\ conns[j].at = x /\ conns[j].to = y
  BY <1>1 DEF BrowsersInv, Fits, StoredFit
<1>4. /\ loop[x] = Idle /\ loop[y] = Idle /\ Box(x) = {} /\ Box(y) = {}
      /\ \A k \in calls : Ends(k) # {x, y}
  <2>1. /\ loop[x] = Idle /\ loop[y] = Idle /\ letters[x] = <<>> /\ letters[y] = <<>>
        /\ \A k \in calls : Ends(k) # {x, y}
    BY DEF Settled, Ends
  <2>2. Box(x) = {} /\ Box(y) = {}
    BY <2>1 DEF Box
  <2> QED  BY <2>1, <2>2
<1>5. \A k \in Conns : Ends(k) = {x, y} => Calm(k) /\ GoesOn(k) /\ k \notin calls
  BY <1>4 DEF Calm, Settled, Pair, Ends, BrowsersInv
<1>6. ASSUME NEW k \in Conns, conns[k].at \in {x, y}, conns[k].to \in {x, y},
             conns[k].at # conns[k].to, conns[k].answers # 0
      PROVE  IsStored(k) /\ Taken(k)
  <2>1. Ends(k) = {x, y}
    BY <1>6 DEF Ends
  <2>2. AnswerGoesOn(k)
    BY <1>5, <1>6, <2>1 DEF GoesOn
  <2>3. ~Answering(k) /\ ~Applying(k) /\ ~IsTold(k)
    BY <1>4, <1>6 DEF Answering, Applying, IsTold, Idle
  <2> QED  BY <2>2, <2>3 DEF AnswerGoesOn
<1>7. CASE conns[j].answers = 0
  <2>1. Ends(j) = {x, y}
    BY <1>3 DEF Ends
  <2>2. ~Offered(j) /\ OfferGoesOn(j)
    BY <1>3, <1>4, <1>5, <1>7, <2>1 DEF GoesOn, Offered
  <2>3. PICK l \in Conns : conns[l].answers = j
    BY <1>3, <2>2 DEF OfferGoesOn, Answered
  <2>4. conns[l].answers # 0 /\ conns[l].at = y /\ conns[l].to = x
    BY <1>2, <1>3, <2>3 DEF BrowsersInv, Fits, ConnFits, Paired
  <2>5. IsStored(l) /\ Taken(l)
    BY <1>6, <2>4
  <2>6. stored[y][x] = l /\ conns[j].got = l
    BY <2>3, <2>4, <2>5 DEF IsStored, Taken
  <2> QED  BY <1>1, <1>2, <2>3, <2>6 DEF Partner, Matched
<1>8. CASE conns[j].answers # 0
  <2>1. PICK a \in Conns \ calls : conns[j].answers = a /\ Paired(j, a) /\ conns[a].answers = 0
    BY <1>3, <1>8 DEF BrowsersInv, Fits, ConnFits
  <2>2. conns[a].at = y /\ conns[a].to = x /\ Ends(a) = {x, y}
    BY <1>3, <2>1 DEF Paired, Ends
  <2>3. stored[y][x] = a
    BY <1>5, <2>1, <2>2 DEF GoesOn, OfferGoesOn, IsStored
  <2>4. conns[a].got = j
    BY <1>3, <1>6, <1>8, <2>1 DEF Taken
  <2> QED  BY <1>1, <1>2, <2>1, <2>3, <2>4 DEF Partner, Matched
<1> QED  BY <1>7, <1>8

-----------------------------------------------------------------------------
(* Fetches: whoever waits is in pending_fetches, or has an answer.         *)

\* A fetch whose entry is there has no answer yet, one that has not begun has
\* none either, and those that wait for one content together have met.
FetchInv ==
    /\ DOMAIN stage = Fetch /\ DOMAIN resolved = Fetch /\ wants \in [Fetch -> Asset]
    /\ entry \in [Asset -> {Unset} \cup Pending]
    /\ asked \in Seq(Asset) /\ frames \in Seq([c : Asset, part : Nat])
    /\ \A f \in Fetch : stage[f] = "new" => resolved[f] = Unset
    /\ \A c \in Asset : entry[c] # Unset => resolved[entry[c].of] = Unset
    /\ \A f, g \in Waiting : f # g /\ wants[f] = wants[g] => f \in met
    /\ AwaitedIsPending

LEMMA FetchesStart == FInit => FetchInv
<1> SUFFICES ASSUME FInit PROVE FetchInv
  OBVIOUS
<1>1. Waiting = {} /\ \A c \in Asset : entry[c] = Unset
  BY DEF FInit, Waiting
<1> QED  BY <1>1 DEF FInit, FetchInv, AwaitedIsPending

\* A step that leaves alone whose entries there are; who has an answer may go.
LEMMA ElsewhereKeeps ==
  ASSUME FetchInv, UNCHANGED <<wants, resolved, met>>, DOMAIN stage' = Fetch,
         Waiting' \subseteq Waiting, \A f \in Waiting \ Waiting' : resolved[f] # Unset,
         \A f \in Fetch : stage'[f] = "new" => stage[f] = "new",
         entry' \in [Asset -> {Unset} \cup Pending],
         \A c \in Asset : /\ entry'[c] = Unset <=> entry[c] = Unset
                          /\ entry[c] # Unset => entry'[c].of = entry[c].of,
         asked' \in Seq(Asset), frames' \in Seq([c : Asset, part : Nat])
  PROVE  FetchInv'
<1>1. ASSUME NEW c \in Asset, entry'[c] # Unset
      PROVE  /\ resolved'[entry'[c].of] = Unset
             /\ entry'[c].of \in Waiting' /\ wants'[entry'[c].of] = c
  <2>1. PICK g : g = entry[c].of
    OBVIOUS
  <2>2. g \in Waiting /\ wants[g] = c /\ resolved[g] = Unset
    BY <1>1, <2>1 DEF FetchInv, AwaitedIsPending
  <2> QED  BY <1>1, <2>1, <2>2
<1>2. ASSUME NEW f \in Waiting' \ met
      PROVE  /\ resolved'[f] # "closed"
             /\ resolved'[f] = Unset => entry'[wants[f]] # Unset /\ entry'[wants[f]].of = f
  <2>1. f \in Waiting \ met /\ wants[f] \in Asset
    BY <1>2 DEF FetchInv, Waiting
  <2> QED  BY <2>1 DEF FetchInv, AwaitedIsPending
<1>3. \A f, g \in Waiting' : f # g /\ wants'[f] = wants'[g] => f \in met'
  BY DEF FetchInv
<1>4. \A f \in Fetch : stage'[f] = "new" => resolved'[f] = Unset
  BY DEF FetchInv
<1>5. DOMAIN resolved' = Fetch /\ wants' \in [Fetch -> Asset]
  BY DEF FetchInv
<1> QED  BY <1>1, <1>2, <1>3, <1>4, <1>5 DEF FetchInv, AwaitedIsPending

\* A fetch f begins to wait, and g's entry, if there was one, has been replaced.
LEMMA BeginKeepsPending ==
  ASSUME FetchInv, NEW f \in Fetch, BeginFetch(f)
  PROVE  FetchInv'
<1>1. PICK c : c = wants[f]
  OBVIOUS
<1>2. c \in Asset /\ stage[f] = "new" /\ f \notin Waiting /\ resolved[f] = Unset
      /\ UNCHANGED <<wants, frames>>
  BY <1>1 DEF BeginFetch, FetchInv, Waiting
<1>3. ASSUME NEW how, how # "waiting", how # "new", Become(f, how),
             UNCHANGED <<resolved, entry, asked, met>>
      PROVE  FetchInv'
  <2>1. DOMAIN stage' = Fetch /\ Waiting' = Waiting
        /\ \A g \in Fetch : stage'[g] = "new" => stage[g] = "new"
    BY <1>2, <1>3 DEF Become, Waiting, FetchInv
  <2> QED  BY <1>2, <1>3, <2>1, ElsewhereKeeps DEF FetchInv
<1>4. ASSUME Become(f, "waiting"), asked' = Append(asked, c),
             entry' = [entry EXCEPT ![c] = Entry(f)],
             resolved' = [g \in Fetch |-> IF entry[c] # Unset /\ entry[c].of = g
                                          THEN "closed" ELSE resolved[g]],
             LET others == { g \in Waiting : wants[g] = c } IN
               met' = met \cup others \cup (IF others # {} THEN {f} ELSE {})
      PROVE  FetchInv'
  <2>1. /\ DOMAIN stage' = Fetch /\ Waiting' = Waiting \cup {f}
        /\ \A g \in Fetch : stage'[g] = "new" => stage[g] = "new" /\ g # f
    BY <1>2, <1>4 DEF Become, Waiting, FetchInv
  <2>2. Entry(f) \in Pending /\ Entry(f) # Unset /\ Entry(f).of = f
    BY FetchAssumption DEF Entry, Pending
  <2>3. /\ entry' \in [Asset -> {Unset} \cup Pending] /\ entry'[c] = Entry(f)
        /\ \A d \in Asset \ {c} : entry'[d] = entry[d]
    BY <1>2, <1>4, <2>2 DEF FetchInv
  <2>4. \A d \in Asset : entry[d] # Unset =>
           entry[d].of \in Waiting /\ wants[entry[d].of] = d
    BY DEF FetchInv, AwaitedIsPending
  <2>5. \A g \in Fetch : resolved'[g] # resolved[g] => g \in Waiting /\ wants[g] = c
    BY <1>2, <1>4, <2>4
  <2>6. \A g \in Fetch : stage'[g] = "new" => resolved'[g] = Unset
    BY <2>1, <2>5 DEF FetchInv, Waiting
  <2>7. resolved'[f] = Unset
    BY <1>2, <2>5
  <2>8. \A d \in Asset : entry'[d] # Unset => resolved'[entry'[d].of] = Unset
    <3>1. ASSUME NEW d \in Asset, entry'[d] # Unset, d # c PROVE resolved'[entry'[d].of] = Unset
      <4>1. PICK g : g = entry[d].of
        OBVIOUS
      <4>2. g \in Waiting /\ wants[g] = d /\ resolved[g] = Unset /\ g \in Fetch
        BY <2>3, <2>4, <3>1, <4>1 DEF FetchInv, Waiting
      <4> QED  BY <2>3, <2>5, <3>1, <4>1, <4>2
    <3> QED  BY <2>2, <2>3, <2>7, <3>1
  <2>9. \A g, h \in Waiting' : g # h /\ wants[g] = wants[h] => g \in met'
    BY <1>1, <1>4, <2>1 DEF FetchInv, Waiting
  <2>10. \A d \in Asset : entry'[d] # Unset => entry'[d].of \in Waiting' /\ wants[entry'[d].of] = d
    BY <1>1, <2>1, <2>2, <2>3, <2>4
  <2>11. ASSUME NEW g \in Waiting' \ met'
         PROVE  /\ resolved'[g] # "closed"
                /\ resolved'[g] = Unset => entry'[wants[g]] # Unset /\ entry'[wants[g]].of = g
    <3>1. CASE g = f
      BY <1>1, <2>2, <2>3, <2>7, <3>1, FetchAssumption
    <3>2. CASE g # f
      <4>1. g \in Waiting \ met /\ g \in Fetch /\ wants[g] # c /\ wants[g] \in Asset
        BY <1>4, <2>1, <2>11, <3>2 DEF FetchInv, Waiting
      <4>2. resolved'[g] = resolved[g] /\ entry'[wants[g]] = entry[wants[g]]
        BY <2>3, <2>5, <4>1
      <4> QED  BY <4>1, <4>2 DEF FetchInv, AwaitedIsPending
    <3> QED  BY <3>1, <3>2
  <2>12. asked' \in Seq(Asset) /\ DOMAIN resolved' = Fetch
    BY <1>2, <1>4 DEF FetchInv
  <2> QED  BY <1>2, <2>1, <2>3, <2>6, <2>8, <2>9, <2>10, <2>11, <2>12 DEF FetchInv, AwaitedIsPending
<1>5. Instead # "waiting" /\ Instead # "new"
  BY DEF Instead
<1> QED  BY <1>1, <1>3, <1>4, <1>5 DEF BeginFetch

\* The entry of content c is gone, and with it whoever waited for it has an
\* answer, or no longer waits.
LEMMA RemovalKeepsPending ==
  ASSUME FetchInv, NEW c \in Asset, NEW out, out \subseteq Fetch, NEW how,
         how # Unset, UNCHANGED <<wants, met, asked>>,
         DOMAIN stage' = Fetch, Waiting' = Waiting \ out,
         \A f \in Fetch : stage'[f] = "new" => stage[f] = "new",
         entry' = [entry EXCEPT ![c] = Unset],
         resolved' = [g \in Fetch |-> IF entry[c] # Unset /\ entry[c].of = g /\ g \notin out
                                      THEN how ELSE resolved[g]],
         \A f \in out : f \in Waiting /\ wants[f] = c,
         how = "closed" => out # {},
         frames' \in Seq([c : Asset, part : Nat])
  PROVE  FetchInv'
<1>1. \A d \in Asset : entry[d] # Unset => entry[d].of \in Waiting /\ wants[entry[d].of] = d
  BY DEF FetchInv, AwaitedIsPending
<1>2. /\ entry' \in [Asset -> {Unset} \cup Pending] /\ entry'[c] = Unset
      /\ \A d \in Asset \ {c} : entry'[d] = entry[d]
  BY DEF FetchInv
<1>3. \A g \in Fetch : resolved'[g] # resolved[g] => g \in Waiting /\ wants[g] = c
  BY <1>1
<1>4. \A g \in Fetch : stage'[g] = "new" => resolved'[g] = Unset
  BY <1>3 DEF FetchInv, Waiting
<1>5. ASSUME NEW d \in Asset, entry'[d] # Unset
      PROVE  /\ resolved'[entry'[d].of] = Unset
             /\ entry'[d].of \in Waiting' /\ wants[entry'[d].of] = d
  <2>1. PICK g : g = entry[d].of
    OBVIOUS
  <2>2. d # c /\ g \in Waiting /\ wants[g] = d /\ resolved[g] = Unset /\ g \in Fetch
    BY <1>1, <1>2, <1>5, <2>1 DEF FetchInv, Waiting
  <2> QED  BY <1>2, <1>3, <1>5, <2>1, <2>2
<1>6. \A g, h \in Waiting' : g # h /\ wants[g] = wants[h] => g \in met
  BY DEF FetchInv
<1>7. ASSUME NEW g \in Waiting' \ met
      PROVE  /\ resolved'[g] # "closed"
             /\ resolved'[g] = Unset => entry'[wants[g]] # Unset /\ entry'[wants[g]].of = g
  <2>1. g \in Waiting \ met /\ g \notin out /\ g \in Fetch /\ wants[g] \in Asset
    BY <1>7 DEF Waiting, FetchInv
  <2>2. resolved[g] # "closed" /\ (resolved[g] = Unset => entry[wants[g]] # Unset /\ entry[wants[g]].of = g)
    BY <2>1 DEF FetchInv, AwaitedIsPending
  <2>3. CASE wants[g] # c
    BY <1>2, <1>3, <2>1, <2>2, <2>3
  <2>4. CASE wants[g] = c
    <3>1. out = {}
      BY <2>1, <2>4 DEF FetchInv
    <3>2. CASE resolved[g] = Unset
      BY <2>1, <2>2, <2>4, <3>1, <3>2
    <3>3. CASE resolved[g] # Unset
      BY <2>1, <2>2, <2>4, <3>1, <3>3
    <3> QED  BY <3>2, <3>3
  <2> QED  BY <2>3, <2>4
<1>8. asked' \in Seq(Asset) /\ DOMAIN resolved' = Fetch /\ wants' \in [Fetch -> Asset]
  BY DEF FetchInv
<1> QED  BY <1>2, <1>4, <1>5, <1>6, <1>7, <1>8 DEF FetchInv, AwaitedIsPending

LEMMA TimeOutKeeps ==
  ASSUME FetchInv, NEW f \in Fetch, TimeOut(f) PROVE FetchInv'
<1>1. PICK c : c = wants[f]
  OBVIOUS
<1>2. /\ c \in Asset /\ f \in Waiting
      /\ entry' = [entry EXCEPT ![c] = Unset]
      /\ resolved' = [g \in Fetch |-> IF entry[c] # Unset /\ entry[c].of = g /\ g \notin {f}
                                      THEN "closed" ELSE resolved[g]]
      /\ UNCHANGED <<wants, met, asked, frames>>
  BY <1>1 DEF TimeOut, FetchInv
<1>3. /\ DOMAIN stage' = Fetch /\ Waiting' = Waiting \ {f}
      /\ \A g \in Fetch : stage'[g] = "new" => stage[g] = "new"
  BY DEF TimeOut, Become, Instead, Waiting, FetchInv
<1>4. "closed" # Unset /\ frames' \in Seq([c : Asset, part : Nat])
  BY <1>2, FetchAssumption DEF FetchInv
<1>5. {f} \subseteq Fetch /\ (\A g \in {f} : g \in Waiting /\ wants[g] = c) /\ {f} # {}
  BY <1>1, <1>2
<1> QED  BY <1>2, <1>3, <1>4, <1>5, RemovalKeepsPending

\* A fetch that is through leaves, and the others go on.
LEMMA GoingKeeps ==
  ASSUME FetchInv, NEW f \in Fetch, Wake(f) \/ Http(f) PROVE FetchInv'
<1>1. /\ DOMAIN stage' = Fetch /\ Waiting' \subseteq Waiting
      /\ \A g \in Fetch : stage'[g] = "new" => stage[g] = "new"
  BY DEF Wake, Http, Become, Instead, Waiting, FetchInv
<1>2. \A g \in Waiting \ Waiting' : resolved[g] # Unset
  BY DEF Wake, Http, Become, Waiting, FetchInv
<1>3. UNCHANGED <<wants, resolved, met, entry, asked, frames>>
  BY DEF Wake, Http
<1> QED  BY <1>1, <1>2, <1>3, ElsewhereKeeps DEF FetchInv

\* What the peer and the channel do.
LEMMA ChannelKeeps ==
  ASSUME FetchInv, Serve \/ LinkEnds \/ Authenticated PROVE FetchInv'
<1>1. UNCHANGED <<stage, wants, resolved, met, entry>>
  BY DEF Serve, LinkEnds, Authenticated
<1>2. asked' \in Seq(Asset) /\ frames' \in Seq([c : Asset, part : Nat])
  <2>1. CASE Serve
    <3>1. PICK c : c = Head(asked)
      OBVIOUS
    <3>2. c \in Asset /\ asked' \in Seq(Asset)
      BY <2>1, <3>1 DEF Serve, FetchInv
    <3>3. CASE frames' = Append(frames, [c |-> c, part |-> 0])
      BY <3>2, <3>3 DEF FetchInv
    <3>4. ASSUME NEW n \in 0..Pieces[c],
                 frames' = frames \o [i \in 1..n |-> [c |-> c, part |-> i]]
          PROVE  frames' \in Seq([c : Asset, part : Nat])
      <4>1. n \in Nat
        BY <3>2, FetchAssumption
      <4>2. [i \in 1..n |-> [c |-> c, part |-> i]] \in Seq([c : Asset, part : Nat])
        BY <3>2, <4>1
      <4> QED  BY <3>4, <4>2 DEF FetchInv
    <3> QED  BY <2>1, <3>1, <3>2, <3>3, <3>4 DEF Serve
  <2>2. CASE LinkEnds
    BY <2>2 DEF LinkEnds
  <2>3. CASE Authenticated
    BY <2>3 DEF Authenticated, FetchInv
  <2> QED  BY <2>1, <2>2, <2>3
<1>3. Waiting' = Waiting
  BY <1>1 DEF Waiting
<1> QED  BY <1>1, <1>2, <1>3, ElsewhereKeeps DEF FetchInv

LEMMA HandleKeeps == ASSUME FetchInv, Handle PROVE FetchInv'
<1>1. PICK m : m = Head(frames)
  OBVIOUS
<1>2. /\ m.c \in Asset /\ m.part \in Nat /\ frames' \in Seq([c : Asset, part : Nat])
      /\ UNCHANGED <<stage, wants, asked, met>> /\ Waiting' = Waiting
      /\ Ignored(m) \/ NotFound(m) \/ Fragment(m)
  <2>1. frames # <<>> /\ frames \in Seq([c : Asset, part : Nat]) /\ frames' = Tail(frames)
    BY DEF Handle, FetchInv
  <2>2. m \in [c : Asset, part : Nat] /\ frames' \in Seq([c : Asset, part : Nat])
    <3>1. PICK S : S = [c : Asset, part : Nat]
      OBVIOUS
    <3>2. m \in S /\ frames' \in Seq(S)
      <4>1. PICK q : q = frames
        OBVIOUS
      <4>2. q \in Seq(S) /\ q # <<>>
        BY <2>1, <3>1, <4>1
      <4>3. Head(q) \in S /\ Tail(q) \in Seq(S)
        BY <4>2
      <4>4. m = Head(q) /\ frames' = Tail(q)
        BY <1>1, <2>1, <4>1
      <4> QED  BY <4>3, <4>4
    <3> QED  BY <3>1, <3>2
  <2>3. UNCHANGED <<stage, wants, asked, met>> /\ Waiting' = Waiting
    BY DEF Handle, Waiting
  <2>4. Ignored(m) \/ NotFound(m) \/ Fragment(m)
    BY <1>1 DEF Handle
  <2> QED  BY <2>2, <2>3, <2>4
<1>3. ASSUME NEW how \in {"ok", "notFound"}, entry[m.c] # Unset, Resolve(m.c, how) PROVE FetchInv'
  <2>1. PICK g : g = entry[m.c].of
    OBVIOUS
  <2>2. g \in Fetch
    BY <1>2, <1>3, <2>1 DEF FetchInv, Pending
  <2>3. PICK out : out = {}
    OBVIOUS
  <2>4. resolved' = [h \in Fetch |-> IF entry[m.c] # Unset /\ entry[m.c].of = h /\ h \notin out
                                     THEN how ELSE resolved[h]]
    BY <1>3, <2>1, <2>2, <2>3 DEF Resolve, FetchInv
  <2>5. how # Unset /\ how # "closed" /\ entry' = [entry EXCEPT ![m.c] = Unset]
    BY <1>3, FetchAssumption DEF Resolve
  <2>6. DOMAIN stage' = Fetch /\ (\A f \in Fetch : stage'[f] = "new" => stage[f] = "new")
        /\ Waiting' = Waiting \ out
    BY <1>2, <2>3 DEF FetchInv
  <2>7. out \subseteq Fetch /\ \A f \in out : f \in Waiting /\ wants[f] = m.c
    BY <2>3
  <2> QED  BY <1>2, <2>4, <2>5, <2>6, <2>7, RemovalKeepsPending
<1>4. ASSUME NEW e, e = [entry[m.c] EXCEPT !.parts = @ \cup {m.part}, !.total = Pieces[m.c]],
             entry[m.c] # Unset, entry' = [entry EXCEPT ![m.c] = e], UNCHANGED resolved
      PROVE  FetchInv'
  <2>1. entry[m.c] \in Pending
    BY <1>2, <1>4 DEF FetchInv
  <2>2. e \in Pending /\ e.of = entry[m.c].of
    BY <1>2, <1>4, <2>1, FetchAssumption DEF Pending
  <2>3. e # Unset
    BY <2>2, FetchAssumption
  <2>4. entry' \in [Asset -> {Unset} \cup Pending]
        /\ \A c \in Asset : /\ entry'[c] = Unset <=> entry[c] = Unset
                            /\ entry[c] # Unset => entry'[c].of = entry[c].of
    BY <1>2, <1>4, <2>2, <2>3 DEF FetchInv
  <2> QED  BY <1>2, <1>4, <2>4, ElsewhereKeeps DEF FetchInv
<1>5. CASE Ignored(m)
  BY <1>2, <1>5, ElsewhereKeeps DEF Ignored, FetchInv
<1>6. CASE NotFound(m)
  BY <1>3, <1>6 DEF NotFound
<1>7. CASE Fragment(m)
  BY <1>3, <1>4, <1>7 DEF Fragment
<1> QED  BY <1>2, <1>5, <1>6, <1>7

LEMMA FetchesKeep == FetchInv /\ [FNext]_fvars => FetchInv'
<1> SUFFICES ASSUME FetchInv, [FNext]_fvars PROVE FetchInv'
  OBVIOUS
<1>1. CASE UNCHANGED fvars
  BY <1>1 DEF fvars, FetchInv, AwaitedIsPending, Waiting
<1> QED  BY <1>1, BeginKeepsPending, TimeOutKeeps, GoingKeeps, ChannelKeeps, HandleKeeps
         DEF FNext

-----------------------------------------------------------------------------
(* Two browsers that have settled have each other, and who waits for a peer  *)
(* is in pending_fetches or has an answer: for any browsers, connections,    *)
(* fetches and contents, however calls, letters, late answers, failures,     *)
(* time-outs and departures interleave.                                      *)
THEOREM BrowsersHold == BSpec /\ FSpec => []BrowserHolds
<1>1. BrowsersInv => SettledHaveEachOther
  BY SettledPair
<1>2. FetchInv => AwaitedIsPending
  BY DEF FetchInv
<1>3. SettledHaveEachOther /\ AwaitedIsPending => BrowserHolds
  BY DEF BrowserHolds
<1> QED  BY <1>1, <1>2, <1>3, BrowsersStart, BrowsersKeep, FetchesStart, FetchesKeep, PTL
         DEF BSpec, FSpec

-----------------------------------------------------------------------------
(* The caches of SdkCache.                                                  *)

\* Induction up to n, over the set of the numbers of which a claim holds.
LEMMA Upward ==
    ASSUME NEW n \in Nat, NEW X, 0 \in X, \A i \in 1..n : i - 1 \in X => i \in X
    PROVE  0..n \subseteq X
<1> DEFINE less == { pair \in Nat \X Nat : pair[1] < pair[2] }
           missing == (0..n) \ X
<1>1. IsWellFoundedOn(less, Nat)
  BY NatLessThanWellFounded, Zenon DEF OpToRel
<1> SUFFICES ASSUME missing # {} PROVE FALSE
  OBVIOUS
<1> HIDE DEF less
<1>2. PICK m \in missing : \A k \in missing : <<k, m>> \notin less
  <2>1. missing \subseteq Nat
    OBVIOUS
  <2> QED  BY <1>1, <2>1, WFMin
<1>3. m \in 1..n /\ m - 1 \in 0..n /\ m - 1 \in Nat /\ m \in Nat /\ m - 1 < m
  OBVIOUS
<1>4. <<m - 1, m>> \in less
  BY <1>3 DEF less
<1>5. m - 1 \in X
  BY <1>2, <1>3, <1>4
<1> QED  BY <1>3, <1>5

\* The results of a loop of n steps, from base on.
Steps(g, S, base, n, step) ==
    /\ g \in [0..n -> S] /\ g[0] = base
    /\ \A i \in 1..n : g[i] = step[<<g[i - 1], i>>]

\* A loop of n steps that does not leave S has a result after each of them.
LEMMA LoopEnds ==
    ASSUME NEW S, NEW base \in S, NEW n \in Nat, NEW step \in [S \X (1..n) -> S]
    PROVE  \E g : Steps(g, S, base, n, step)
<1> DEFINE Ran(m) == \E g \in [0..m -> S] :
                          g[0] = base /\ \A i \in 1..m : g[i] = step[<<g[i - 1], i>>]
           X == {m \in 0..n : Ran(m)}
<1>1. 0 \in X
  <2>1. PICK g : g = [i \in 0..0 |-> base]
    OBVIOUS
  <2>2. g \in [0..0 -> S] /\ g[0] = base /\ 1..0 = {}
    BY <2>1
  <2> QED  BY <2>2
<1>2. ASSUME NEW m \in 1..n, m - 1 \in X  PROVE m \in X
  <2>1. PICK g \in [0..(m - 1) -> S] :
              g[0] = base /\ \A i \in 1..(m - 1) : g[i] = step[<<g[i - 1], i>>]
    BY <1>2
  <2>2. PICK h : h = [i \in 0..m |-> IF i = m THEN step[<<g[m - 1], m>>] ELSE g[i]]
    OBVIOUS
  <2>3. step[<<g[m - 1], m>>] \in S
    BY <2>1
  <2>4. h \in [0..m -> S] /\ h[0] = base /\ h[m] = step[<<g[m - 1], m>>]
    BY <2>1, <2>2, <2>3
  <2>5. \A i \in 0..(m - 1) : h[i] = g[i]
    BY <2>2
  <2>6. \A i \in 1..m : h[i] = step[<<h[i - 1], i>>]
    <3> SUFFICES ASSUME NEW i \in 1..m PROVE h[i] = step[<<h[i - 1], i>>]
      OBVIOUS
    <3>1. i - 1 \in 0..(m - 1) /\ h[i - 1] = g[i - 1]
      BY <2>5
    <3>2. CASE i = m
      BY <2>4, <3>1, <3>2
    <3>3. CASE i # m
      <4>1. i \in 1..(m - 1) /\ i \in 0..(m - 1)
        BY <3>3
      <4> QED  BY <2>1, <2>5, <3>1, <4>1
    <3> QED  BY <3>2, <3>3
  <2>7. Ran(m)
    BY <2>4, <2>6
  <2> QED  BY <2>7
<1> HIDE DEF Ran
<1>3. 0..n \subseteq X
  <2> HIDE DEF X
  <2> QED  BY <1>1, <1>2, Upward
<1>4. Ran(n)
  BY <1>3
<1> QED  BY <1>4 DEF Ran, Steps

\* Sizes.
CacheEntry(K) == [key : K, size : Nat, age : Nat]

\* The entries of a cache are records of their kind.
LEMMA EntriesAre ==
    ASSUME NEW K, NEW s \in Seq(CacheEntry(K)), NEW i \in 1..Len(s)
    PROVE  /\ s[i] \in CacheEntry(K) /\ s[i].key \in K /\ s[i].size \in Nat /\ s[i].age \in Nat
           /\ s[i] = [key |-> s[i].key, size |-> s[i].size, age |-> s[i].age]
<1>1. s[i] \in CacheEntry(K)
  OBVIOUS
<1> QED  BY <1>1 DEF CacheEntry

\* Sums adds the sizes up entry by entry, and every sum is a number.
LEMMA SumsAre ==
    ASSUME NEW K, NEW s \in Seq(CacheEntry(K))
    PROVE  /\ Sums(s) \in [0..Len(s) -> Int] /\ Sums(s)[0] = 0
           /\ \A i \in 1..Len(s) : Sums(s)[i] = Sums(s)[i - 1] + s[i].size
<1> DEFINE upto == CHOOSE f : f = [i \in 0..Len(s) |->
                                     IF i = 0 THEN 0 ELSE f[i - 1] + s[i].size]
<1>1. Sums(s) = upto
  BY Zenon DEF Sums
<1>2. PICK n \in Nat : n = Len(s)
  OBVIOUS
<1>3. \A i \in 1..n : s[i].size \in Int
  <2>1. \A i \in 1..Len(s) : s[i].size \in Nat
    BY EntriesAre, Zenon
  <2> QED  BY <1>2, <2>1
<1>4. upto = [i \in 0..n |-> IF i = 0 THEN 0 ELSE upto[i - 1] + s[i].size]
  <2>1. PICK step : step = [x \in Int \X (1..n) |-> x[1] + s[x[2]].size]
    OBVIOUS
  <2>2. step \in [Int \X (1..n) -> Int]
    BY <1>3, <2>1
  <2>3. PICK g \in [0..n -> Int] : g[0] = 0 /\ \A i \in 1..n : g[i] = step[<<g[i - 1], i>>]
    <3>1. PICK S : S = Int
      OBVIOUS
    <3>2. PICK base \in S : base = 0
      BY <3>1
    <3>3. step \in [S \X (1..n) -> S]
      BY <2>2, <3>1
    <3>4. \E g : Steps(g, S, base, n, step)
      BY <3>3, LoopEnds
    <3> QED  BY <3>1, <3>2, <3>4 DEF Steps
  <2>4. \A i \in 1..n : g[i] = g[i - 1] + s[i].size
    <3> SUFFICES ASSUME NEW i \in 1..n PROVE g[i] = g[i - 1] + s[i].size
      OBVIOUS
    <3>1. i - 1 \in 0..n
      OBVIOUS
    <3> QED  BY <2>1, <2>3, <3>1
  <2>5. \A i \in 0..n : g[i] = IF i = 0 THEN 0 ELSE g[i - 1] + s[i].size
    BY <2>3, <2>4
  <2>6. g = [i \in 0..n |-> IF i = 0 THEN 0 ELSE g[i - 1] + s[i].size]
    BY <2>3, <2>5
  <2>7. g = [i \in 0..Len(s) |-> IF i = 0 THEN 0 ELSE g[i - 1] + s[i].size]
    BY <1>2, <2>6
  <2>8. upto = [i \in 0..Len(s) |-> IF i = 0 THEN 0 ELSE upto[i - 1] + s[i].size]
    BY <2>7, Zenon
  <2> QED  BY <1>2, <2>8
<1> HIDE DEF upto
<1>5. upto[0] = 0 /\ \A i \in 1..n : upto[i] = upto[i - 1] + s[i].size
  BY <1>4
<1> DEFINE X == {i \in 0..n : upto[i] \in Int}
<1>6. 0..n \subseteq X
  <2>1. 0 \in X
    BY <1>5
  <2>2. \A i \in 1..n : i - 1 \in X => i \in X
    BY <1>3, <1>5
  <2> HIDE DEF X
  <2> QED  BY <2>1, <2>2, Upward
<1>7. upto \in [0..n -> Int]
  BY <1>4, <1>6
<1> QED  BY <1>1, <1>2, <1>5, <1>7

\* Arithmetic that SumsAgree needs.
LEMMA Shifted ==
    ASSUME NEW u \in Int, NEW v \in Int, NEW w \in Int, NEW p \in Int, NEW q \in Int,
           u - p = v - q
    PROVE  (u + w) - p = (v + w) - q
OBVIOUS

\* The n entries of s after a and those of t after b have the same sizes.
Alike(s, a, t, b, n) ==
    /\ a + n <= Len(s) /\ b + n <= Len(t)
    /\ \A i \in 1..n : s[a + i].size = t[b + i].size

\* What lies between two places adds up to the same wherever it is.
LEMMA SumsAgree ==
    ASSUME NEW K, NEW s \in Seq(CacheEntry(K)), NEW t \in Seq(CacheEntry(K)),
           NEW a \in Nat, NEW b \in Nat, NEW n \in Nat,
           Alike(s, a, t, b, n)
    PROVE  Sums(s)[a + n] - Sums(s)[a] = Sums(t)[b + n] - Sums(t)[b]
<1> USE DEF Alike
<1> DEFINE X == {i \in 0..n : Sums(s)[a + i] - Sums(s)[a] = Sums(t)[b + i] - Sums(t)[b]}
<1>1. PICK f : f = Sums(s)
  OBVIOUS
<1>2. PICK g : g = Sums(t)
  OBVIOUS
<1>3. /\ f \in [0..Len(s) -> Int] /\ g \in [0..Len(t) -> Int]
      /\ \A i \in 1..Len(s) : f[i] = f[i - 1] + s[i].size
      /\ \A i \in 1..Len(t) : g[i] = g[i - 1] + t[i].size
  BY <1>1, <1>2, SumsAre
<1>4. Len(s) \in Nat /\ Len(t) \in Nat
  OBVIOUS
<1>5. f[a] \in Int /\ g[b] \in Int
  <2>1. a \in 0..Len(s) /\ b \in 0..Len(t)
    BY <1>4
  <2> QED  BY <1>3, <2>1
<1>6. 0 \in X
  BY <1>1, <1>2, <1>5
<1>7. ASSUME NEW i \in 1..n, i - 1 \in X  PROVE i \in X
  <2>1. f[a + (i - 1)] - f[a] = g[b + (i - 1)] - g[b]
    BY <1>1, <1>2, <1>7
  <2>2. PICK x \in 1..Len(s) : x = a + i
    BY <1>4
  <2>3. PICK y \in 1..Len(t) : y = b + i
    BY <1>4
  <2>4. a + (i - 1) = x - 1 /\ b + (i - 1) = y - 1
    BY <2>2, <2>3
  <2>5. f[x] = f[x - 1] + s[x].size /\ g[y] = g[y - 1] + t[y].size /\ s[x].size = t[y].size
    BY <1>3, <2>2, <2>3
  <2>6. f[x - 1] \in Int /\ g[y - 1] \in Int /\ s[x].size \in Int
    <3>1. x - 1 \in 0..Len(s) /\ y - 1 \in 0..Len(t)
      BY <1>4
    <3>2. s[x].size \in Nat
      BY EntriesAre, Zenon
    <3>3. f[x - 1] \in Int
      BY <1>3, <3>1
    <3>4. g[y - 1] \in Int
      BY <1>3, <3>1
    <3> QED  BY <3>2, <3>3, <3>4
  <2>7. f[x - 1] - f[a] = g[y - 1] - g[b]
    BY <2>1, <2>4
  <2>8. f[x] - f[a] = g[y] - g[b]
    <3>1. PICK u \in Int, v \in Int, w \in Int, p \in Int, q \in Int :
                 u = f[x - 1] /\ v = g[y - 1] /\ w = s[x].size /\ p = f[a] /\ q = g[b]
      BY <1>5, <2>6
    <3>2. f[x] = u + w /\ g[y] = v + w /\ u - p = v - q
      BY <2>5, <2>7, <3>1
    <3>3. (u + w) - p = (v + w) - q
      BY <3>2, Shifted
    <3>4. f[x] - f[a] = (u + w) - p /\ g[y] - g[b] = (v + w) - q
      BY <3>1, <3>2, Zenon
    <3> QED  BY <3>3, <3>4
  <2> QED  BY <1>1, <1>2, <2>2, <2>3, <2>8
<1>8. 0..n \subseteq X
  <2> HIDE DEF X
  <2> QED  BY <1>6, <1>7, Upward
<1> QED  BY <1>8

\* The last sum is the size of all, and no entries have none.
LEMMA SizeOfIs ==
    ASSUME NEW K, NEW s \in Seq(CacheEntry(K))
    PROVE  /\ SizeOf(s) \in Int /\ Sums(s)[Len(s)] = SizeOf(s) /\ Sums(s)[0] = 0
           /\ \A i \in 0..Len(s) : Sums(s)[i] \in Int
           /\ Len(s) = 0 => SizeOf(s) = 0
<1>1. Len(s) \in Nat
  OBVIOUS
<1>2. Sums(s) \in [0..Len(s) -> Int] /\ Sums(s)[0] = 0
  BY SumsAre
<1> QED  BY <1>1, <1>2 DEF SizeOf

\* Sequences that begin with the same sizes begin with the same sums.
LEMMA SumsAgreeFirst ==
    ASSUME NEW K, NEW s \in Seq(CacheEntry(K)), NEW t \in Seq(CacheEntry(K)), NEW n \in Nat,
           n <= Len(s), n <= Len(t), \A i \in 1..n : s[i].size = t[i].size
    PROVE  Sums(s)[n] - Sums(s)[0] = Sums(t)[n] - Sums(t)[0]
<1>1. PICK z \in Nat : z = 0
  OBVIOUS
<1>2. z + n <= Len(s) /\ z + n <= Len(t) /\ z + n = n /\ \A i \in 1..n : z + i = i
  BY <1>1
<1>3. \A i \in 1..n : s[z + i].size = t[z + i].size
  BY <1>2
<1>4. Sums(s)[z + n] - Sums(s)[z] = Sums(t)[z + n] - Sums(t)[z]
  <2>1. Alike(s, z, t, z, n)
    BY <1>2, <1>3 DEF Alike
  <2> QED  BY <2>1, SumsAgree
<1> QED  BY <1>1, <1>2, <1>4

\* No entries, no size.
LEMMA NothingIsZero ==
    ASSUME NEW K, NEW s \in Seq(CacheEntry(K)), Len(s) = 0
    PROVE  SizeOf(s) = 0
BY SizeOfIs

\* What SubSeq is: the library says it of any function.
LEMMA SubSeqIs ==
    ASSUME NEW V, NEW s, NEW m \in Int, NEW n \in Int, \A i \in m..n : s[i] \in V
    PROVE  /\ SubSeq(s, m, n) \in Seq(V)
           /\ Len(SubSeq(s, m, n)) = IF m <= n THEN n - m + 1 ELSE 0
           /\ \A i \in 1..(n - m + 1) : SubSeq(s, m, n)[i] = s[m + i - 1]
BY SubSeqProperties

\* RemoveAt takes one entry out and keeps the others in order.
LEMMA RemoveAtIs ==
    ASSUME NEW V, NEW s \in Seq(V), NEW i \in 1..Len(s)
    PROVE  /\ RemoveAt(s, i) \in Seq(V) /\ Len(RemoveAt(s, i)) = Len(s) - 1
           /\ \A j \in 1..(i - 1) : RemoveAt(s, i)[j] = s[j]
           /\ \A j \in i..(Len(s) - 1) : RemoveAt(s, i)[j] = s[j + 1]
<1>1. PICK n \in Nat : n = Len(s)
  OBVIOUS
<1>2. \A j \in 1..n : s[j] \in V
  BY <1>1
<1>3. PICK a : a = SubSeq(s, 1, i - 1)
  OBVIOUS
<1>4. a \in Seq(V) /\ Len(a) = i - 1 /\ \A j \in 1..(i - 1) : a[j] = s[j]
  <2>1. i - 1 \in Int /\ \A j \in 1..(i - 1) : s[j] \in V
    BY <1>1, <1>2
  <2>2. /\ SubSeq(s, 1, i - 1) \in Seq(V)
        /\ Len(SubSeq(s, 1, i - 1)) = IF 1 <= i - 1 THEN (i - 1) - 1 + 1 ELSE 0
        /\ \A j \in 1..((i - 1) - 1 + 1) : SubSeq(s, 1, i - 1)[j] = s[1 + j - 1]
    BY <2>1, SubSeqIs
  <2> QED  BY <1>3, <2>1, <2>2
<1>5. PICK b : b = SubSeq(s, i + 1, n)
  OBVIOUS
<1>6. b \in Seq(V) /\ Len(b) = n - i /\ \A j \in 1..(n - i) : b[j] = s[i + j]
  <2>1. i + 1 \in Int /\ n \in Int /\ \A j \in (i + 1)..n : s[j] \in V
    BY <1>1, <1>2
  <2>2. /\ SubSeq(s, i + 1, n) \in Seq(V)
        /\ Len(SubSeq(s, i + 1, n)) = IF i + 1 <= n THEN n - (i + 1) + 1 ELSE 0
        /\ \A j \in 1..(n - (i + 1) + 1) : SubSeq(s, i + 1, n)[j] = s[i + 1 + j - 1]
    BY <2>1, SubSeqIs
  <2> QED  BY <1>1, <1>5, <2>1, <2>2
<1>7. /\ a \o b \in Seq(V) /\ Len(a \o b) = Len(a) + Len(b)
      /\ \A j \in 1..(Len(a) + Len(b)) : (a \o b)[j] = IF j <= Len(a) THEN a[j] ELSE b[j - Len(a)]
  BY <1>4, <1>6, ConcatProperties
<1>8. RemoveAt(s, i) = a \o b
  BY <1>1, <1>3, <1>5 DEF RemoveAt
<1>9. PICK r : r = a \o b
  OBVIOUS
<1>10. r \in Seq(V) /\ Len(r) = n - 1
  BY <1>1, <1>4, <1>6, <1>7, <1>9
<1>11. \A j \in 1..(i - 1) : r[j] = s[j]
  BY <1>1, <1>4, <1>6, <1>7, <1>9
<1>12. ASSUME NEW j \in i..(n - 1) PROVE r[j] = s[j + 1]
  <2>1. j \in 1..(Len(a) + Len(b)) /\ ~(j <= Len(a)) /\ j - Len(a) = j - i + 1
    BY <1>1, <1>4, <1>6
  <2>2. r[j] = b[j - i + 1]
    BY <1>7, <1>9, <2>1
  <2>3. j - i + 1 \in 1..(n - i) /\ i + (j - i + 1) = j + 1
    BY <1>1
  <2> QED  BY <1>6, <2>2, <2>3
<1> QED  BY <1>1, <1>8, <1>9, <1>10, <1>11, <1>12

\* An entry that is taken out takes its size along.
LEMMA SizeOfRemoved ==
    ASSUME NEW K, NEW s \in Seq(CacheEntry(K)), NEW i \in 1..Len(s)
    PROVE  SizeOf(RemoveAt(s, i)) = SizeOf(s) - s[i].size
<1>1. PICK r : r = RemoveAt(s, i)
  OBVIOUS
<1>2. PICK n \in Nat : n = Len(s)
  OBVIOUS
<1>3. /\ r \in Seq(CacheEntry(K)) /\ Len(r) = n - 1
      /\ \A j \in 1..(i - 1) : r[j] = s[j]
      /\ \A j \in i..(n - 1) : r[j] = s[j + 1]
  BY <1>1, <1>2, RemoveAtIs
<1>4. PICK h \in Nat : h = i - 1
  OBVIOUS
<1>5. PICK d \in Nat : d = n - i
  <2>1. n - i \in Nat
    BY <1>2
  <2> QED  BY <2>1
<1>6. Sums(r)[h] - Sums(r)[0] = Sums(s)[h] - Sums(s)[0]
  <2>1. h <= Len(r) /\ h <= Len(s)
    BY <1>2, <1>3, <1>4
  <2>2. \A j \in 1..h : r[j] = s[j]
    BY <1>3, <1>4
  <2>3. \A j \in 1..h : r[j].size = s[j].size
    BY <2>2
  <2> QED  BY <1>3, <2>1, <2>3, SumsAgreeFirst
<1>7. Sums(r)[n - 1] - Sums(r)[h] = Sums(s)[n] - Sums(s)[i]
  <2>1. h + d <= Len(r) /\ i + d <= Len(s) /\ h + d = n - 1 /\ i + d = n
    BY <1>2, <1>3, <1>4, <1>5
  <2>2. ASSUME NEW j \in 1..d PROVE r[h + j].size = s[i + j].size
    <3>1. h + j \in i..(n - 1) /\ (h + j) + 1 = i + j
      BY <1>2, <1>4, <1>5
    <3> QED  BY <1>3, <3>1
  <2>3. i \in Nat
    OBVIOUS
  <2>4. Sums(r)[h + d] - Sums(r)[h] = Sums(s)[i + d] - Sums(s)[i]
    <3>1. Alike(r, h, s, i, d)
      BY <2>1, <2>2 DEF Alike
    <3> QED  BY <1>3, <2>3, <3>1, SumsAgree
  <2> QED  BY <2>1, <2>4
<1>8. Sums(s)[i] = Sums(s)[h] + s[i].size /\ s[i].size \in Int
  <2>1. s[i].size \in Nat
    BY EntriesAre, Zenon
  <2> QED  BY <1>4, <2>1, SumsAre
<1>9. /\ Sums(r)[h] \in Int /\ Sums(s)[h] \in Int /\ Sums(r)[0] = 0 /\ Sums(s)[0] = 0
      /\ SizeOf(r) \in Int /\ SizeOf(s) \in Int
      /\ Sums(r)[n - 1] = SizeOf(r) /\ Sums(s)[n] = SizeOf(s)
  <2>1. h \in 0..Len(r) /\ h \in 0..Len(s)
    BY <1>2, <1>3, <1>4
  <2>2. Sums(r)[h] \in Int /\ Sums(r)[0] = 0 /\ SizeOf(r) \in Int /\ Sums(r)[Len(r)] = SizeOf(r)
    BY <1>3, <2>1, SizeOfIs
  <2>3. Sums(s)[h] \in Int /\ Sums(s)[0] = 0 /\ SizeOf(s) \in Int /\ Sums(s)[Len(s)] = SizeOf(s)
    BY <2>1, SizeOfIs
  <2> QED  BY <1>2, <1>3, <2>2, <2>3
<1>10. SizeOf(r) - Sums(r)[h] = SizeOf(s) - (Sums(s)[h] + s[i].size) /\ Sums(r)[h] = Sums(s)[h]
  BY <1>6, <1>7, <1>8, <1>9
<1>11. PICK u \in Int, v \in Int, w \in Int, z \in Int :
              u = SizeOf(r) /\ v = SizeOf(s) /\ w = s[i].size /\ z = Sums(s)[h]
  BY <1>8, <1>9
<1>12. u - z = v - (z + w)
  BY <1>10, <1>11
<1>13. u = v - w
  BY <1>12
<1> QED  BY <1>1, <1>11, <1>13

\* Append of the library, for entries.
LEMMA AppendedIs ==
    ASSUME NEW K, NEW s \in Seq(CacheEntry(K)), NEW e \in CacheEntry(K)
    PROVE  Append(s, e) \in Seq(CacheEntry(K)) /\ Len(Append(s, e)) = Len(s) + 1
<1>1. PICK E : E = CacheEntry(K)
  OBVIOUS
<1>2. Append(s, e) \in Seq(E) /\ Len(Append(s, e)) = Len(s) + 1
  BY <1>1
<1> QED  BY <1>1, <1>2

\* An entry that is put at the end adds its size.
LEMMA SizeOfAppended ==
    ASSUME NEW K, NEW s \in Seq(CacheEntry(K)), NEW e \in CacheEntry(K)
    PROVE  SizeOf(Append(s, e)) = SizeOf(s) + e.size
<1>1. PICK t \in Seq(CacheEntry(K)) : t = Append(s, e)
  BY AppendedIs
<1>2. PICK n \in Nat : n = Len(s)
  OBVIOUS
<1>3. Len(t) = n + 1 /\ t[n + 1] = e /\ \A j \in 1..n : t[j] = s[j]
  BY <1>1, <1>2
<1>4. Sums(t)[n] - Sums(t)[0] = Sums(s)[n] - Sums(s)[0]
  <2>1. n <= Len(t) /\ n <= Len(s) /\ \A j \in 1..n : t[j].size = s[j].size
    BY <1>2, <1>3
  <2> QED  BY <2>1, SumsAgreeFirst
<1>5. Sums(t)[n + 1] = Sums(t)[n] + e.size
  <2>1. n + 1 \in 1..Len(t) /\ (n + 1) - 1 = n
    BY <1>3
  <2> QED  BY <1>3, <2>1, SumsAre
<1>6. /\ Sums(t)[n] \in Int /\ Sums(t)[0] = 0 /\ Sums(t)[n + 1] = SizeOf(t)
      /\ Sums(s)[0] = 0 /\ Sums(s)[n] = SizeOf(s) /\ SizeOf(s) \in Int
  <2>1. n \in 0..Len(t)
    BY <1>3
  <2> QED  BY <1>2, <1>3, <2>1, SizeOfIs
<1> QED  BY <1>1, <1>4, <1>5, <1>6

\* The entries from n + 1 on.
LEMMA SuffixIs ==
    ASSUME NEW V, NEW s \in Seq(V), NEW n \in 0..Len(s)
    PROVE  /\ SubSeq(s, n + 1, Len(s)) \in Seq(V)
           /\ Len(SubSeq(s, n + 1, Len(s))) = Len(s) - n
           /\ \A j \in 1..(Len(s) - n) : SubSeq(s, n + 1, Len(s))[j] = s[n + j]
<1>1. PICK m \in Nat : m = Len(s)
  OBVIOUS
<1>2. n + 1 \in Int /\ m \in Int /\ \A j \in (n + 1)..m : s[j] \in V
  BY <1>1
<1>3. /\ SubSeq(s, n + 1, m) \in Seq(V)
      /\ Len(SubSeq(s, n + 1, m)) = IF n + 1 <= m THEN m - (n + 1) + 1 ELSE 0
      /\ \A j \in 1..(m - (n + 1) + 1) : SubSeq(s, n + 1, m)[j] = s[n + 1 + j - 1]
  BY <1>2, SubSeqIs
<1> QED  BY <1>1, <1>3

\* Without the first n entries their sum is missing.
LEMMA SizeOfSuffix ==
    ASSUME NEW K, NEW s \in Seq(CacheEntry(K)), NEW n \in 0..Len(s)
    PROVE  SizeOf(SubSeq(s, n + 1, Len(s))) = SizeOf(s) - Sums(s)[n]
<1>1. PICK t \in Seq(CacheEntry(K)) : t = SubSeq(s, n + 1, Len(s))
  BY SuffixIs
<1>2. PICK d \in Nat : d = Len(s) - n
  OBVIOUS
<1>3. Len(t) = d /\ n + d = Len(s) /\ \A j \in 1..d : t[j] = s[n + j]
  BY <1>1, <1>2, SuffixIs
<1>4. Sums(t)[d] - Sums(t)[0] = Sums(s)[n + d] - Sums(s)[n]
  <2>1. n \in Nat /\ 0 + d <= Len(t) /\ n + d <= Len(s) /\ \A j \in 1..d : t[0 + j].size = s[n + j].size
    BY <1>3
  <2>2. Sums(t)[0 + d] - Sums(t)[0] = Sums(s)[n + d] - Sums(s)[n]
    <3>1. PICK z \in Nat : z = 0
      OBVIOUS
    <3>2. Alike(t, z, s, n, d)
      BY <2>1, <3>1 DEF Alike
    <3>3. Sums(t)[z + d] - Sums(t)[z] = Sums(s)[n + d] - Sums(s)[n]
      BY <2>1, <3>2, SumsAgree
    <3> QED  BY <3>1, <3>3
  <2> QED  BY <2>2
<1>5. /\ Sums(t)[0] = 0 /\ Sums(t)[d] = SizeOf(t) /\ SizeOf(t) \in Int
      /\ Sums(s)[n] \in Int /\ Sums(s)[n + d] = SizeOf(s) /\ SizeOf(s) \in Int
  BY <1>3, SizeOfIs
<1> QED  BY <1>1, <1>4, <1>5

\* A cache knows its size and keeps its limit.
Sound(l) ==
    /\ l.total = SizeOf(l.entries)
    /\ l.total <= Room \/ Len(l.entries) = 1
Caches(K) == {l \in [entries : Seq(CacheEntry(K)), total : Int] : Sound(l)}

\* A cache whose total is the size of its entries, and which keeps its limit.
LEMMA SoundIs ==
    ASSUME NEW K, NEW s \in Seq(CacheEntry(K)), SizeOf(s) <= Room \/ Len(s) = 1
    PROVE  [entries |-> s, total |-> SizeOf(s)] \in Caches(K)
<1>1. SizeOf(s) \in Int
  BY SizeOfIs
<1>2. PICK l : l = [entries |-> s, total |-> SizeOf(s)]
  OBVIOUS
<1>3. l \in [entries : Seq(CacheEntry(K)), total : Int] /\ l.entries = s /\ l.total = SizeOf(s)
  BY <1>1, <1>2
<1> QED  BY <1>2, <1>3 DEF Sound, Caches

\* What it is to be a cache.
LEMMA CacheIs ==
    ASSUME NEW K, NEW l \in Caches(K)
    PROVE  /\ l.entries \in Seq(CacheEntry(K)) /\ Len(l.entries) \in Nat
           /\ l = [entries |-> l.entries, total |-> l.total]
           /\ l.total = SizeOf(l.entries) /\ l.total \in Int
           /\ l.total <= Room \/ Len(l.entries) = 1
<1>1. l \in [entries : Seq(CacheEntry(K)), total : Int] /\ Sound(l)
  BY DEF Caches
<1>2. l.entries \in Seq(CacheEntry(K)) /\ l.total \in Int /\ l = [entries |-> l.entries, total |-> l.total]
  BY <1>1
<1> QED  BY <1>1, <1>2 DEF Sound

\* A cleared cache.
LEMMA EmptyIsSound ==
    ASSUME NEW K PROVE [entries |-> <<>>, total |-> 0] \in Caches(K)
<1>1. PICK s \in Seq(CacheEntry(K)) : s = <<>>
  <2>1. PICK E : E = CacheEntry(K)
    OBVIOUS
  <2>2. <<>> \in Seq(E)
    OBVIOUS
  <2> QED  BY <2>1, <2>2
<1>2. SizeOf(s) = 0
  BY <1>1, NothingIsZero
<1>3. [entries |-> s, total |-> SizeOf(s)] \in Caches(K)
  BY <1>2, SoundIs, CacheAssumption
<1> QED  BY <1>1, <1>2, <1>3

\* A cache of some keys is a cache of more keys.
LEMMA CachesGrow ==
    ASSUME NEW K, NEW M, K \subseteq M PROVE Caches(K) \subseteq Caches(M)
<1> SUFFICES ASSUME NEW l \in Caches(K) PROVE l \in Caches(M)
  OBVIOUS
<1>1. CacheEntry(K) \subseteq CacheEntry(M)
  BY DEF CacheEntry
<1>2. l.entries \in Seq(CacheEntry(M))
  BY <1>1, CacheIs, SeqMonotonic
<1>3. l = [entries |-> l.entries, total |-> SizeOf(l.entries)]
      /\ (SizeOf(l.entries) <= Room \/ Len(l.entries) = 1)
  BY CacheIs
<1> QED  BY <1>2, <1>3, SoundIs

\* Where a key is.
LEMMA PlaceIs ==
    ASSUME NEW l, NEW key, Has(l, key)
    PROVE  /\ PlaceOf(l, key) \in 1..Len(l.entries)
           /\ EntryOf(l, key) = l.entries[PlaceOf(l, key)]
BY DEF Has, PlaceOf, EntryOf

\* delete (cache.ts).
LEMMA DeletedKeeps ==
    ASSUME NEW K, NEW l \in Caches(K), NEW key
    PROVE  Deleted(l, key) \in Caches(K)
<1>1. CASE ~Has(l, key)
  BY <1>1 DEF Deleted
<1>2. CASE Has(l, key)
  <2>1. PICK s \in Seq(CacheEntry(K)) : s = l.entries
    BY CacheIs
  <2>2. PICK i \in 1..Len(s) : i = PlaceOf(l, key)
    BY <1>2, <2>1, PlaceIs
  <2>3. PICK e : e = EntryOf(l, key)
    OBVIOUS
  <2>4. e = s[i]
    BY <1>2, <2>1, <2>2, <2>3, PlaceIs
  <2>5. e.size \in Nat
    BY <2>4, EntriesAre
  <2>6. PICK r \in Seq(CacheEntry(K)) : r = RemoveAt(s, i)
    BY RemoveAtIs
  <2>7. SizeOf(r) = SizeOf(s) - e.size /\ SizeOf(s) \in Int /\ Len(r) = Len(s) - 1
    BY <2>4, <2>6, SizeOfRemoved, SizeOfIs, RemoveAtIs
  <2>8. l.total = SizeOf(s) /\ (SizeOf(s) <= Room \/ Len(s) = 1)
    BY <2>1, CacheIs
  <2>9. Len(s) = 1 => SizeOf(r) = 0
    <3> SUFFICES ASSUME Len(s) = 1 PROVE SizeOf(r) = 0
      OBVIOUS
    <3>1. Len(r) = 0
      BY <2>7
    <3> QED  BY <3>1, NothingIsZero
  <2>10. SizeOf(r) <= Room
    BY <2>5, <2>7, <2>8, <2>9, CacheAssumption
  <2>11. Deleted(l, key) = [entries |-> r, total |-> SizeOf(r)]
    BY <1>2, <2>1, <2>2, <2>3, <2>6, <2>7, <2>8 DEF Deleted
  <2> QED  BY <2>10, <2>11, SoundIs
<1> QED  BY <1>1, <1>2

\* get: whether it finds the entry, an expired one or none.
LEMMA GotKeeps ==
    ASSUME NEW K, NEW l \in Caches(K), NEW key
    PROVE  Got(l, key) \in Caches(K)
<1>1. CASE ~Hit(l, key)
  BY <1>1, DeletedKeeps DEF Got
<1>2. CASE Hit(l, key)
  <2>1. PICK s \in Seq(CacheEntry(K)) : s = l.entries
    BY CacheIs
  <2>2. PICK i \in 1..Len(s) : i = PlaceOf(l, key)
    BY <1>2, <2>1, PlaceIs DEF Hit
  <2>3. PICK e : e = EntryOf(l, key)
    OBVIOUS
  <2>4. e = s[i]
    BY <1>2, <2>1, <2>2, <2>3, PlaceIs DEF Hit
  <2>5. e.size \in Nat /\ e \in CacheEntry(K)
    BY <2>4, EntriesAre
  <2>6. PICK r \in Seq(CacheEntry(K)) : r = RemoveAt(s, i)
    BY RemoveAtIs
  <2>7. SizeOf(r) = SizeOf(s) - e.size /\ SizeOf(s) \in Int /\ Len(r) = Len(s) - 1
    BY <2>4, <2>6, SizeOfRemoved, SizeOfIs, RemoveAtIs
  <2>8. PICK t \in Seq(CacheEntry(K)) : t = Append(r, e)
    BY <2>5, AppendedIs
  <2>9. SizeOf(t) = SizeOf(r) + e.size /\ Len(t) = Len(r) + 1
    BY <2>5, <2>8, SizeOfAppended, AppendedIs
  <2>10. SizeOf(t) = SizeOf(s) /\ Len(t) = Len(s)
    BY <2>5, <2>7, <2>9
  <2>11. /\ l = [entries |-> s, total |-> SizeOf(s)]
         /\ SizeOf(s) <= Room \/ Len(s) = 1
    BY <2>1, CacheIs
  <2>12. Got(l, key) = [entries |-> t, total |-> SizeOf(t)]
    <3>1. Got(l, key) = [l EXCEPT !.entries = Append(RemoveAt(l.entries, PlaceOf(l, key)), EntryOf(l, key))]
      BY <1>2, Zenon DEF Got
    <3>2. Got(l, key) = [l EXCEPT !.entries = t]
      BY <2>1, <2>2, <2>3, <2>6, <2>8, <3>1
    <3> QED  BY <2>10, <2>11, <3>2
  <2> QED  BY <2>10, <2>11, <2>12, SoundIs
<1> QED  BY <1>1, <1>2

\* Any number of gets in a row.
LEMMA GotAllKeeps ==
    ASSUME NEW K, NEW l \in Caches(K), NEW keys, Len(keys) \in Nat
    PROVE  GotAll(l, keys) \in Caches(K)
<1> DEFINE upto == CHOOSE f : f = [i \in 0..Len(keys) |->
                                     IF i = 0 THEN l ELSE Got(f[i - 1], keys[i])]
<1>1. GotAll(l, keys) = upto[Len(keys)]
  BY Zenon DEF GotAll
<1>2. PICK n \in Nat : n = Len(keys)
  OBVIOUS
<1>3. PICK S : S = Caches(K)
  OBVIOUS
<1>4. upto = [i \in 0..n |-> IF i = 0 THEN l ELSE Got(upto[i - 1], keys[i])]
  <2>1. PICK step : step = [x \in S \X (1..n) |-> Got(x[1], keys[x[2]])]
    OBVIOUS
  <2>2. step \in [S \X (1..n) -> S]
    <3>1. \A x \in S \X (1..n) : Got(x[1], keys[x[2]]) \in S
      <4> SUFFICES ASSUME NEW c \in S, NEW i \in 1..n PROVE Got(c, keys[i]) \in S
        OBVIOUS
      <4>1. PICK key : key = keys[i]
        OBVIOUS
      <4> QED  BY <1>3, <4>1, GotKeeps
    <3> QED  BY <2>1, <3>1
  <2>3. PICK g : Steps(g, S, l, n, step)
    BY <1>3, <2>2, LoopEnds
  <2>4. g \in [0..n -> S] /\ g[0] = l /\ \A i \in 1..n : g[i] = step[<<g[i - 1], i>>]
    BY <2>3 DEF Steps
  <2>5. \A i \in 1..n : g[i] = Got(g[i - 1], keys[i])
    <3> SUFFICES ASSUME NEW i \in 1..n PROVE g[i] = Got(g[i - 1], keys[i])
      OBVIOUS
    <3>1. g[i - 1] \in S
      BY <2>4
    <3>2. PICK c \in S : c = g[i - 1]
      BY <3>1
    <3>3. step[<<c, i>>] = Got(c, keys[i])
      BY <2>1
    <3> QED  BY <2>4, <3>2, <3>3
  <2>6. g = [i \in 0..n |-> IF i = 0 THEN l ELSE Got(g[i - 1], keys[i])]
    <3>1. \A i \in 0..n : g[i] = IF i = 0 THEN l ELSE Got(g[i - 1], keys[i])
      BY <2>4, <2>5
    <3> QED  BY <2>4, <3>1
  <2>7. g = [i \in 0..Len(keys) |-> IF i = 0 THEN l ELSE Got(g[i - 1], keys[i])]
    BY <1>2, <2>6
  <2>8. upto = [i \in 0..Len(keys) |-> IF i = 0 THEN l ELSE Got(upto[i - 1], keys[i])]
    BY <2>7, Zenon
  <2> QED  BY <1>2, <2>8
<1> HIDE DEF upto
<1> DEFINE X == {i \in 0..n : upto[i] \in S}
<1>5. 0 \in X
  BY <1>3, <1>4
<1>6. ASSUME NEW i \in 1..n, i - 1 \in X PROVE i \in X
  <2>1. PICK c \in S : c = upto[i - 1]
    BY <1>6
  <2>2. upto[i] = Got(c, keys[i])
    BY <1>4, <2>1
  <2>3. PICK key : key = keys[i]
    OBVIOUS
  <2> QED  BY <1>3, <2>2, <2>3, GotKeeps
<1>7. 0..n \subseteq X
  <2> HIDE DEF X
  <2> QED  BY <1>5, <1>6, Upward
<1> QED  BY <1>1, <1>2, <1>3, <1>7

\* cleanup: the deletes of its loop one by one.
LEMMA CleanedKeeps ==
    ASSUME NEW K, NEW l \in Caches(K)
    PROVE  Cleaned(l) \in Caches(K)
<1> DEFINE Next1(c, i) == IF l.entries[i].age > Ttl THEN Deleted(c, l.entries[i].key) ELSE c
           upto == CHOOSE f : f = [i \in 0..Len(l.entries) |->
                        IF i = 0 THEN l
                        ELSE IF l.entries[i].age > Ttl THEN Deleted(f[i - 1], l.entries[i].key)
                        ELSE f[i - 1]]
<1>1. Cleaned(l) = upto[Len(l.entries)]
  BY Zenon DEF Cleaned
<1>2. PICK n \in Nat : n = Len(l.entries)
  BY CacheIs
<1>3. PICK S : S = Caches(K)
  OBVIOUS
<1>4. ASSUME NEW c \in S, NEW i PROVE Next1(c, i) \in S
  <2>1. PICK key : key = l.entries[i].key
    OBVIOUS
  <2> QED  BY <1>3, <2>1, DeletedKeeps
<1>5. upto = [i \in 0..n |-> IF i = 0 THEN l ELSE Next1(upto[i - 1], i)]
  <2> HIDE DEF Next1
  <2>1. PICK step : step = [x \in S \X (1..n) |-> Next1(x[1], x[2])]
    OBVIOUS
  <2>2. step \in [S \X (1..n) -> S]
    BY <1>4, <2>1
  <2>3. PICK g : Steps(g, S, l, n, step)
    BY <1>3, <2>2, LoopEnds
  <2>4. g \in [0..n -> S] /\ g[0] = l /\ \A i \in 1..n : g[i] = step[<<g[i - 1], i>>]
    BY <2>3 DEF Steps
  <2>5. \A i \in 1..n : g[i] = Next1(g[i - 1], i)
    <3> SUFFICES ASSUME NEW i \in 1..n PROVE g[i] = Next1(g[i - 1], i)
      OBVIOUS
    <3>1. g[i - 1] \in S
      BY <2>4
    <3>2. PICK c \in S : c = g[i - 1]
      BY <3>1
    <3>3. step[<<c, i>>] = Next1(c, i)
      BY <2>1
    <3> QED  BY <2>4, <3>2, <3>3
  <2>6. g = [i \in 0..n |-> IF i = 0 THEN l ELSE Next1(g[i - 1], i)]
    <3>1. \A i \in 0..n : g[i] = IF i = 0 THEN l ELSE Next1(g[i - 1], i)
      BY <2>4, <2>5
    <3> QED  BY <2>4, <3>1
  <2>7. g = [i \in 0..Len(l.entries) |->
               IF i = 0 THEN l
               ELSE IF l.entries[i].age > Ttl THEN Deleted(g[i - 1], l.entries[i].key)
               ELSE g[i - 1]]
    BY <1>2, <2>6 DEF Next1
  <2>8. upto = [i \in 0..Len(l.entries) |->
               IF i = 0 THEN l
               ELSE IF l.entries[i].age > Ttl THEN Deleted(upto[i - 1], l.entries[i].key)
               ELSE upto[i - 1]]
    BY <2>7, Zenon
  <2> QED  BY <1>2, <2>8 DEF Next1
<1> HIDE DEF upto
<1> DEFINE X == {i \in 0..n : upto[i] \in S}
<1>6. 0 \in X
  BY <1>3, <1>5
<1>7. ASSUME NEW i \in 1..n, i - 1 \in X PROVE i \in X
  <2>1. PICK c \in S : c = upto[i - 1]
    BY <1>7
  <2> HIDE DEF Next1
  <2>2. upto[i] = Next1(c, i)
    BY <1>5, <2>1
  <2> QED  BY <1>4, <2>2
<1>8. 0..n \subseteq X
  <2> HIDE DEF X
  <2> QED  BY <1>6, <1>7, Upward
<1> QED  BY <1>1, <1>2, <1>3, <1>8

\* The second half of set, which evicts: that the loop over the oldest entries
\* has a least stop is where the CHOOSE of Evicted gets its witness.
LEMMA PutKeeps ==
    ASSUME NEW K, NEW l \in Caches(K), NEW key \in K, NEW size \in Nat
    PROVE  Put(l, key, size) \in Caches(K)
<1>1. PICK s \in Seq(CacheEntry(K)) : s = l.entries
  BY CacheIs
<1>2. PICK f : f = Sums(s)
  OBVIOUS
<1>3. PICK len \in Nat : len = Len(s)
  OBVIOUS
<1>4. (\A i \in 0..len : f[i] \in Int) /\ l.total \in Int /\ l.total = SizeOf(s)
  BY <1>1, <1>2, <1>3, SizeOfIs, CacheIs
<1> DEFINE Enough(n) == l.total - f[n] + size <= Room
           Least(n) == (n = len \/ Enough(n)) /\ \A m \in 0..(n - 1) : l.total - f[m] + size > Room
<1>5. \E n \in 0..len : Least(n)
  <2> SUFFICES ASSUME \A n \in 0..len : ~Least(n) PROVE FALSE
    OBVIOUS
  <2> DEFINE X == {n \in 0..len : \A m \in 0..(n - 1) : l.total - f[m] + size > Room}
  <2>1. 0 \in X
    OBVIOUS
  <2>2. ASSUME NEW i \in 1..len, i - 1 \in X PROVE i \in X
    <3>1. i - 1 \in 0..len /\ ~Enough(i - 1)
      BY <2>2
    <3>2. l.total - f[i - 1] + size > Room
      BY <1>4, <3>1, CacheAssumption
    <3>3. ASSUME NEW m \in 0..(i - 1) PROVE l.total - f[m] + size > Room
      <4>1. m = i - 1 \/ m \in 0..((i - 1) - 1)
        OBVIOUS
      <4> QED  BY <2>2, <3>2, <4>1
    <3> QED  BY <3>3
  <2>3. 0..len \subseteq X
    <3> HIDE DEF X
    <3> QED  BY <2>1, <2>2, Upward
  <2>4. len \in X
    <3> HIDE DEF X
    <3>1. len \in 0..len
      OBVIOUS
    <3> QED  BY <2>3, <3>1
  <2> QED  BY <2>4
<1>6. PICK n : n = Evicted(l, size)
  OBVIOUS
<1>7. n \in 0..len /\ (n = len \/ Enough(n))
  <2>1. n = CHOOSE x \in 0..len : Least(x)
    BY <1>1, <1>2, <1>3, <1>6 DEF Evicted
  <2> HIDE DEF Least
  <2>2. n \in 0..len /\ Least(n)
    BY <1>5, <2>1
  <2> QED  BY <2>2 DEF Least
<1>8. PICK t \in Seq(CacheEntry(K)) : t = SubSeq(s, n + 1, len)
  BY <1>3, <1>7, SuffixIs
<1>9. SizeOf(t) = SizeOf(s) - f[n] /\ Len(t) = len - n /\ SizeOf(t) \in Int
  BY <1>2, <1>3, <1>7, <1>8, SizeOfSuffix, SuffixIs, SizeOfIs
<1>10. PICK e \in CacheEntry(K) : e = [key |-> key, size |-> size, age |-> 0]
  BY DEF CacheEntry
<1>11. PICK u \in Seq(CacheEntry(K)) : u = Append(t, e)
  BY AppendedIs
<1>12. SizeOf(u) = SizeOf(t) + size /\ Len(u) = Len(t) + 1
  BY <1>10, <1>11, SizeOfAppended, AppendedIs
<1>13. SizeOf(u) = l.total - f[n] + size
  BY <1>4, <1>9, <1>12
<1>14. SizeOf(u) <= Room \/ Len(u) = 1
  BY <1>7, <1>9, <1>12, <1>13
<1>15. Put(l, key, size) = [entries |-> u, total |-> SizeOf(u)]
  BY <1>1, <1>2, <1>3, <1>6, <1>8, <1>10, <1>11, <1>13 DEF Put
<1> QED  BY <1>14, <1>15, SoundIs

\* set, with its delete before.
LEMMA SetKeeps ==
    ASSUME NEW K, NEW l \in Caches(K), NEW key, NEW size \in Sizes
    PROVE  Set(l, key, size) \in Caches(K \cup {key})
<1>1. PICK M : M = K \cup {key}
  OBVIOUS
<1>2. PICK m : m = Deleted(l, key)
  OBVIOUS
<1>3. m \in Caches(M)
  BY <1>1, <1>2, DeletedKeeps, CachesGrow
<1>4. Put(m, key, size) \in Caches(M)
  BY <1>1, <1>3, PutKeeps, CacheAssumption
<1> QED  BY <1>1, <1>2, <1>4 DEF Set

\* Time changes no size.
LEMMA AgedKeeps ==
    ASSUME NEW K, NEW l \in Caches(K)
    PROVE  Aged(l) \in Caches(K)
<1>1. PICK s \in Seq(CacheEntry(K)) : s = l.entries
  BY CacheIs
<1>2. PICK n \in Nat : n = Len(s)
  OBVIOUS
<1>3. PICK t : t = [i \in 1..n |-> Older(s[i], Ttl)]
  OBVIOUS
<1>4. \A i \in 1..n : t[i] \in CacheEntry(K) /\ t[i].size = s[i].size
  <2> SUFFICES ASSUME NEW i \in 1..n PROVE t[i] \in CacheEntry(K) /\ t[i].size = s[i].size
    OBVIOUS
  <2>1. s[i] \in CacheEntry(K)
    BY <1>2
  <2>2. PICK e \in CacheEntry(K) : e = s[i]
    BY <2>1
  <2>3. PICK k \in K, z \in Nat, a \in Nat : e = [key |-> k, size |-> z, age |-> a]
    BY DEF CacheEntry
  <2>4. PICK b \in Nat : b = IF a <= Ttl THEN a + 1 ELSE a
    BY CacheAssumption
  <2>5. Older(e, Ttl) = [key |-> k, size |-> z, age |-> b]
    BY <2>3, <2>4 DEF Older
  <2>6. Older(e, Ttl) \in CacheEntry(K) /\ Older(e, Ttl).size = e.size
    BY <2>3, <2>5 DEF CacheEntry
  <2> QED  BY <1>3, <2>2, <2>6
<1>5. t \in Seq(CacheEntry(K)) /\ Len(t) = n
  <2>1. PICK E : E = CacheEntry(K)
    OBVIOUS
  <2>2. t \in [1..n -> E]
    BY <1>3, <1>4, <2>1
  <2> QED  BY <2>1, <2>2
<1>6. SizeOf(t) = SizeOf(s)
  <2>1. Sums(t)[n] - Sums(t)[0] = Sums(s)[n] - Sums(s)[0]
    BY <1>2, <1>4, <1>5, SumsAgreeFirst
  <2>2. /\ Sums(t)[0] = 0 /\ Sums(s)[0] = 0 /\ SizeOf(t) \in Int /\ SizeOf(s) \in Int
        /\ Sums(t)[n] = SizeOf(t) /\ Sums(s)[n] = SizeOf(s)
    BY <1>2, <1>5, SizeOfIs
  <2> QED  BY <2>1, <2>2
<1>7. /\ l = [entries |-> s, total |-> SizeOf(s)]
      /\ SizeOf(s) <= Room \/ Len(s) = 1
  BY <1>1, CacheIs
<1>8. Aged(l) = [entries |-> t, total |-> SizeOf(t)]
  <2>1. Aged(l) = [l EXCEPT !.entries = [i \in 1..Len(l.entries) |-> Older(l.entries[i], Ttl)]]
    BY Zenon DEF Aged
  <2>2. Aged(l) = [l EXCEPT !.entries = t]
    BY <1>1, <1>2, <1>3, <2>1
  <2> QED  BY <1>6, <1>7, <2>2
<1> QED  BY <1>2, <1>5, <1>6, <1>7, <1>8, SoundIs

\* The requests that are under way.
Going == {"fetching", "resolved", "rejected"}

Preloading ==
    [step : {"new", "over"}]
    \cup [step : {"manifest"}, cid : ContentId, by : Preload]
    \cup [step : {"fragments", "failed"}, cid : ContentId, todo : Seq(FragmentId),
          loading : SUBSET FragmentId]

LruOK == \E K : lru \in [Kind -> Caches(K)]

PreloadOK ==
    /\ pending \in [ContentId -> [by : Preload, age : Nat] \cup {NoRequest}]
    /\ factory \in [Preload -> {"none", "ok", "error"} \cup Going]
    /\ preload \in [Preload -> Preloading]
    /\ lost \in [ContentId -> Nat]

\* Who makes a request waits for it.
Asks ==
    \A p \in Preload :
        /\ factory[p] \in Going => preload[p].step = "manifest" /\ preload[p].by = p
        /\ preload[p].step = "new" => factory[p] = "none"

\* Of a content that has no pending request all are given up that are under way.
AsksOnce ==
    \A c \in ContentId :
        Cardinality(Running(c)) <= lost[c] + (IF pending[c] = NoRequest THEN 0 ELSE 1)

CachesInv == LruOK /\ PreloadOK /\ Asks /\ AsksOnce

\* The caches begin empty, the calls not yet made.
LEMMA CachesStart == CacheInit => CachesInv
<1> SUFFICES ASSUME CacheInit PROVE CachesInv
  OBVIOUS
<1>1. LruOK
  <2>1. PICK K : K = {}
    OBVIOUS
  <2>2. [entries |-> <<>>, total |-> 0] \in Caches(K)
    BY EmptyIsSound
  <2> QED  BY <2>2 DEF CacheInit, LruOK
<1>2. PreloadOK /\ Asks
  BY DEF CacheInit, PreloadOK, Asks, Preloading, Going
<1>3. AsksOnce
  <2>1. \A c \in ContentId : Running(c) = {}
    BY DEF CacheInit, Running
  <2>2. \A c \in ContentId : lost[c] = 0 /\ pending[c] = NoRequest /\ Cardinality(Running(c)) = 0
    BY <2>1, FS_EmptySet DEF CacheInit
  <2> QED  BY <2>2 DEF AsksOnce
<1> QED  BY <1>1, <1>2, <1>3 DEF CachesInv

\* One cache is changed, perhaps with a new key.
LEMMA OneKept ==
    ASSUME NEW K, NEW M, NEW k \in Kind, NEW m \in Caches(M), K \subseteq M,
           lru \in [Kind -> Caches(K)], lru' = [lru EXCEPT ![k] = m]
    PROVE  LruOK'
<1>1. Caches(K) \subseteq Caches(M)
  BY CachesGrow
<1>2. lru' \in [Kind -> Caches(M)]
  BY <1>1
<1> QED  BY <1>2 DEF LruOK

\* One cache is changed, with the keys there are.
LEMMA KeepKept ==
    ASSUME NEW K, NEW k \in Kind, NEW m \in Caches(K),
           lru \in [Kind -> Caches(K)], lru' = [lru EXCEPT ![k] = m]
    PROVE  LruOK'
BY OneKept

\* The names of the three caches.
LEMMA KindsAre == "manifest" \in Kind /\ "fragment" \in Kind /\ "response" \in Kind
BY DEF Kind

\* Every step leaves the three caches sound.
LEMMA LruStep ==
    ASSUME CachesInv, CacheNext
    PROVE  LruOK'
<1>1. PICK K : lru \in [Kind -> Caches(K)]
  BY DEF CachesInv, LruOK
<1> USE KindsAre
<1>2. ASSUME UNCHANGED lru PROVE LruOK'
  BY <1>2 DEF CachesInv, LruOK
<1>3. ASSUME NEW k \in Kind, CleanUp(k) PROVE LruOK'
  <2>1. lru[k] \in Caches(K) /\ lru' = [lru EXCEPT ![k] = Cleaned(lru[k])]
    BY <1>1, <1>3 DEF CleanUp
  <2>2. Cleaned(lru[k]) \in Caches(K)
    BY <2>1, CleanedKeeps
  <2> QED  BY <1>1, <2>1, <2>2, KeepKept
<1>4. CASE Clear
  <2>1. [entries |-> <<>>, total |-> 0] \in Caches(K)
    BY EmptyIsSound
  <2>2. lru' \in [Kind -> Caches(K)]
    BY <1>4, <2>1 DEF Clear
  <2> QED  BY <2>2 DEF LruOK
<1>5. CASE Elapse
  <2>1. \A k \in Kind : Aged(lru[k]) \in Caches(K)
    <3> SUFFICES ASSUME NEW k \in Kind PROVE Aged(lru[k]) \in Caches(K)
      OBVIOUS
    <3>1. lru[k] \in Caches(K)
      BY <1>1
    <3> QED  BY <3>1, AgedKeeps
  <2>2. lru' \in [Kind -> Caches(K)]
    BY <1>5, <2>1 DEF Elapse
  <2> QED  BY <2>2 DEF LruOK
<1>6. ASSUME NEW k \in Kind, NEW key, lru' = [lru EXCEPT ![k] = Got(@, key)]  PROVE LruOK'
  <2>1. lru[k] \in Caches(K) /\ lru' = [lru EXCEPT ![k] = Got(lru[k], key)]
    BY <1>1, <1>6
  <2>2. Got(lru[k], key) \in Caches(K)
    BY <2>1, GotKeeps
  <2> QED  BY <1>1, <2>1, <2>2, KeepKept
<1>7. ASSUME NEW k \in Kind, NEW key, NEW size \in Sizes, lru' = [lru EXCEPT ![k] = Set(@, key, size)]
      PROVE  LruOK'
  <2>1. lru[k] \in Caches(K) /\ lru' = [lru EXCEPT ![k] = Set(lru[k], key, size)]
    BY <1>1, <1>7
  <2>2. Set(lru[k], key, size) \in Caches(K \cup {key})
    BY <2>1, SetKeeps
  <2>3. PICK M : M = K \cup {key}
    OBVIOUS
  <2>4. K \subseteq M
    BY <2>3
  <2> QED  BY <1>1, <2>1, <2>2, <2>3, <2>4, OneKept
<1>8. ASSUME NEW c \in ContentId, NEW p \in Preload, Start(p, c) PROVE LruOK'
  <2>1. UNCHANGED lru \/ lru' = [lru EXCEPT !["manifest"] = Got(@, c)]
    BY <1>8 DEF Start
  <2> QED  BY <1>2, <1>6, <2>1
<1>9. ASSUME NEW p \in Preload, Manifest(p) PROVE LruOK'
  <2>1. PICK key : key = preload[p].cid
    OBVIOUS
  <2>2. UNCHANGED lru \/ \E size \in Sizes : lru' = [lru EXCEPT !["manifest"] = Set(@, key, size)]
    BY <1>9, <2>1 DEF Manifest
  <2> QED  BY <1>2, <1>7, <2>2
<1>10. ASSUME NEW p \in Preload, NEW f \in FragmentId, Loaded(p, f) PROVE LruOK'
  <2>1. PICK key : key = <<preload[p].cid, f>>
    OBVIOUS
  <2>2. UNCHANGED lru \/ \E size \in Sizes : lru' = [lru EXCEPT !["fragment"] = Set(@, key, size)]
    BY <1>10, <2>1 DEF Loaded
  <2> QED  BY <1>2, <1>7, <2>2
<1>11. ASSUME NEW q \in Reader, Fetched(q) PROVE LruOK'
  <2>1. PICK key : key = reading[q].url
    OBVIOUS
  <2>2. UNCHANGED lru \/ \E size \in Sizes : lru' = [lru EXCEPT !["response"] = Set(@, key, size)]
    BY <1>11, <2>1 DEF Fetched
  <2> QED  BY <1>2, <1>7, <2>2
<1>12. ASSUME NEW q \in Reader, NEW u \in Url, CachedFetch(q, u) PROVE LruOK'
  <2>1. lru' = [lru EXCEPT !["response"] = Got(@, u)]
    BY <1>12 DEF CachedFetch
  <2> QED  BY <1>6, <2>1
<1>13. ASSUME NEW p \in Preload, Chunk(p) PROVE LruOK'
  <2>1. preload[p] \in Preloading /\ preload[p].step = "fragments"
    BY <1>13 DEF Chunk, CachesInv, PreloadOK
  <2>2. PICK t \in Seq(FragmentId) : t = preload[p].todo
    BY <2>1 DEF Preloading
  <2>3. PICK n \in 0..Len(t) : n = IF Len(t) < Concurrency THEN Len(t) ELSE Concurrency
    BY CacheAssumption
  <2>4. PICK keys : keys = [i \in 1..n |-> <<preload[p].cid, t[i]>>]
    OBVIOUS
  <2>5. Len(keys) \in Nat
    <3>1. PICK U : U = {<<preload[p].cid, t[i]>> : i \in 1..n}
      OBVIOUS
    <3>2. keys \in [1..n -> U] /\ n \in Nat
      BY <2>3, <2>4, <3>1
    <3>3. keys \in Seq(U)
      BY <3>2
    <3> QED  BY <3>3
  <2>6. lru' = [lru EXCEPT !["fragment"] = GotAll(lru["fragment"], keys)]
    BY <1>13, <2>2, <2>3, <2>4 DEF Chunk
  <2>7. GotAll(lru["fragment"], keys) \in Caches(K)
    BY <1>1, <2>5, GotAllKeeps
  <2> QED  BY <1>1, <2>6, <2>7, KeepKept
<1>14. ASSUME NEW p \in Preload, Finally(p) \/ HasManifest(p) \/ Done(p)  PROVE LruOK'
  BY <1>2, <1>14 DEF Finally, HasManifest, Done
<1>15. ASSUME NEW c \in ContentId, Cancel(c)  PROVE LruOK'
  BY <1>2, <1>15 DEF Cancel
<1> QED  BY <1>3, <1>4, <1>5, <1>8, <1>9, <1>10, <1>11, <1>12, <1>13, <1>14, <1>15 DEF CacheNext

\* The requests of a content that are under way can be counted.
LEMMA RunningIsFinite ==
    ASSUME NEW c PROVE IsFiniteSet(Running(c)) /\ Cardinality(Running(c)) \in Nat
<1>1. Running(c) \subseteq Preload
  BY DEF Running
<1> QED  BY <1>1, FS_Subset, FS_CardinalityType, CacheAssumption

\* A step that neither makes, ends nor gives up a request.
LEMMA NobodyAsks ==
    ASSUME AsksOnce, \A c \in ContentId : Running(c)' = Running(c),
           lost' = lost,
           \A c \in ContentId : pending'[c] = NoRequest <=> pending[c] = NoRequest
    PROVE  AsksOnce'
BY DEF AsksOnce

\* dedupe: it gives up what has timed out, and makes a request where none is pending.
LEMMA StartKeeps ==
    ASSUME CachesInv, NEW p \in Preload, NEW c \in ContentId, Start(p, c)
    PROVE  PreloadOK' /\ Asks' /\ AsksOnce'
<1> USE DEF CachesInv
<1>1. PreloadOK /\ Asks /\ AsksOnce
  OBVIOUS
<1>2. PICK left : left = Drop(TimedOut)
  OBVIOUS
<1>3. /\ left \in [ContentId -> [by : Preload, age : Nat] \cup {NoRequest}]
      /\ \A d \in ContentId : left[d] # pending[d] => d \in TimedOut /\ left[d] = NoRequest /\ pending[d] # NoRequest
      /\ \A d \in ContentId : d \in TimedOut => left[d] = NoRequest
  BY <1>1, <1>2 DEF PreloadOK, Drop, TimedOut
<1>4. preload[p].step = "new" /\ factory[p] = "none"
  BY <1>1 DEF Start, Asks
<1>5. /\ lost' = [d \in ContentId |-> IF d \in TimedOut THEN lost[d] + 1 ELSE lost[d]]
      /\ lost' \in [ContentId -> Nat]
  BY <1>1 DEF Start, PreloadOK
<1>6. \A d \in ContentId :
          Cardinality(Running(d)) <= lost'[d] + (IF left[d] = NoRequest THEN 0 ELSE 1)
  <2> SUFFICES ASSUME NEW d \in ContentId
               PROVE  Cardinality(Running(d)) <= lost'[d] + (IF left[d] = NoRequest THEN 0 ELSE 1)
    OBVIOUS
  <2>1. Cardinality(Running(d)) \in Nat /\ lost[d] \in Nat
    BY <1>1, RunningIsFinite DEF PreloadOK
  <2>2. Cardinality(Running(d)) <= lost[d] + (IF pending[d] = NoRequest THEN 0 ELSE 1)
    BY <1>1 DEF AsksOnce
  <2>3. CASE d \in TimedOut
    BY <1>3, <1>5, <2>1, <2>2, <2>3
  <2>4. CASE d \notin TimedOut
    BY <1>3, <1>5, <2>1, <2>2, <2>4
  <2> QED  BY <2>3, <2>4
<1>7. CASE left[c] # NoRequest /\ pending' = left /\ factory' = factory
           /\ preload' = [preload EXCEPT ![p] = [step |-> "manifest", cid |-> c, by |-> left[c].by]]
  <2>1. left[c].by \in Preload
    BY <1>3, <1>7
  <2>2. PICK new \in Preloading : new = [step |-> "manifest", cid |-> c, by |-> left[c].by]
    BY <2>1 DEF Preloading
  <2>3. PreloadOK'
    BY <1>1, <1>3, <1>5, <1>7, <2>2 DEF PreloadOK
  <2>4. Asks'
    BY <1>1, <1>4, <1>7 DEF Asks, Going, PreloadOK
  <2>5. \A d \in ContentId : Running(d)' = Running(d)
    BY <1>1, <1>4, <1>7 DEF Running, PreloadOK
  <2>6. AsksOnce'
    BY <1>6, <1>7, <2>5 DEF AsksOnce
  <2> QED  BY <2>3, <2>4, <2>6
<1>8. CASE /\ left[c] = NoRequest
           /\ preload' = [preload EXCEPT ![p] = [step |-> "manifest", cid |-> c, by |-> p]]
           /\ pending' = [left EXCEPT ![c] = [by |-> p, age |-> 0]]
           /\ factory' \in {[factory EXCEPT ![p] = x] : x \in {"resolved", "fetching"}}
  <2>1. PICK x \in {"resolved", "fetching"} : factory' = [factory EXCEPT ![p] = x]
    BY <1>8
  <2>2. PICK new \in Preloading : new = [step |-> "manifest", cid |-> c, by |-> p]
    BY DEF Preloading
  <2>3. PICK pend \in [by : Preload, age : Nat] : pend = [by |-> p, age |-> 0]
    OBVIOUS
  <2>4. PreloadOK'
    BY <1>1, <1>3, <1>5, <1>8, <2>1, <2>2, <2>3 DEF PreloadOK, Going
  <2>5. Asks'
    BY <1>1, <1>8, <2>1 DEF Asks, Going, PreloadOK
  <2>6. \A d \in ContentId \ {c} : Running(d)' = Running(d)
    BY <1>1, <1>4, <1>8, <2>1 DEF Running, PreloadOK
  <2>7. Running(c)' = Running(c) \cup {p} /\ p \notin Running(c)
    BY <1>1, <1>4, <1>8, <2>1 DEF Running, PreloadOK
  <2>8. PICK R : R = Running(c)
    OBVIOUS
  <2>9. Cardinality(Running(c)') = Cardinality(Running(c)) + 1
    <3>1. IsFiniteSet(R) /\ p \notin R
      BY <2>7, <2>8, RunningIsFinite
    <3>2. Cardinality(R \cup {p}) = Cardinality(R) + 1
      BY <3>1, FS_AddElement
    <3> QED  BY <2>7, <2>8, <3>2
  <2>10. pend # NoRequest
    BY <2>3, CacheAssumption
  <2>11. AsksOnce'
    <3> SUFFICES ASSUME NEW d \in ContentId
                 PROVE  Cardinality(Running(d)') <= lost'[d] + (IF pending'[d] = NoRequest THEN 0 ELSE 1)
      BY DEF AsksOnce
    <3>1. CASE d = c
      <4>1. pending'[c] # NoRequest
        BY <1>3, <1>8, <2>3, <2>10
      <4>2. Cardinality(R) \in Nat /\ lost'[c] \in Nat /\ Cardinality(R) <= lost'[c]
        BY <1>5, <1>6, <1>8, <2>8, RunningIsFinite
      <4> QED  BY <2>8, <2>9, <3>1, <4>1, <4>2
    <3>2. CASE d # c
      BY <1>3, <1>6, <1>8, <2>6, <3>2
    <3> QED  BY <3>1, <3>2
  <2> QED  BY <2>4, <2>5, <2>11
<1> QED  BY <1>2, <1>7, <1>8 DEF Start

\* The factory has its answer, and is still under way.
LEMMA FactoryKeeps ==
    ASSUME CachesInv, NEW p \in Preload, factory[p] \in Going,
           NEW x \in {"resolved", "rejected"}, factory' = [factory EXCEPT ![p] = x],
           UNCHANGED <<pending, preload, lost>>
    PROVE  PreloadOK' /\ Asks' /\ AsksOnce'
<1>1. PreloadOK /\ Asks /\ AsksOnce
  BY DEF CachesInv
<1>2. PreloadOK'
  BY <1>1 DEF PreloadOK, Going
<1>3. Asks'
  BY <1>1 DEF Asks, Going, PreloadOK
<1>4. \A c \in ContentId : Running(c)' = Running(c)
  BY <1>1 DEF Running, Going, PreloadOK
<1> QED  BY <1>1, <1>2, <1>3, <1>4, NobodyAsks

\* dedupe's finally ends one request, and drops the pending one.
LEMMA FinallyKeeps ==
    ASSUME CachesInv, NEW p \in Preload, Finally(p)
    PROVE  PreloadOK' /\ Asks' /\ AsksOnce'
<1>1. PreloadOK /\ Asks /\ AsksOnce
  BY DEF CachesInv
<1>2. PICK c : c = preload[p].cid
  OBVIOUS
<1>3. factory[p] \in {"resolved", "rejected"} /\ pending' = Drop({c}) /\ UNCHANGED <<preload, lost>>
  BY <1>2 DEF Finally
<1>4. PICK x \in {"ok", "error"} : factory' = [factory EXCEPT ![p] = x]
  BY DEF Finally
<1>5. preload[p].step = "manifest" /\ preload[p].by = p /\ c \in ContentId
  <2>1. preload[p].step = "manifest" /\ preload[p].by = p /\ preload[p] \in Preloading
    BY <1>1, <1>3 DEF Asks, Going, PreloadOK
  <2> QED  BY <1>2, <2>1 DEF Preloading
<1>6. /\ pending' \in [ContentId -> [by : Preload, age : Nat] \cup {NoRequest}]
      /\ pending'[c] = NoRequest /\ \A d \in ContentId \ {c} : pending'[d] = pending[d]
  BY <1>1, <1>3, <1>5 DEF PreloadOK, Drop
<1>7. PreloadOK'
  BY <1>1, <1>3, <1>4, <1>6 DEF PreloadOK
<1>8. Asks'
  BY <1>1, <1>3, <1>4, <1>5 DEF Asks, Going, PreloadOK
<1>9. \A d \in ContentId \ {c} : Running(d)' = Running(d)
  BY <1>1, <1>2, <1>3, <1>4, <1>5 DEF Running, PreloadOK
<1>10. PICK R : R = Running(c)
  OBVIOUS
<1>11. p \in R /\ Running(c)' = R \ {p}
  BY <1>1, <1>2, <1>3, <1>4, <1>5, <1>10 DEF Running, PreloadOK
<1>12. Cardinality(R \ {p}) = Cardinality(R) - 1 /\ Cardinality(R) \in Nat
  BY <1>10, <1>11, FS_RemoveElement, RunningIsFinite
<1>13. AsksOnce'
  <2> SUFFICES ASSUME NEW d \in ContentId
               PROVE  Cardinality(Running(d)') <= lost'[d] + (IF pending'[d] = NoRequest THEN 0 ELSE 1)
    BY DEF AsksOnce
  <2>1. lost'[d] = lost[d] /\ lost[d] \in Nat
    BY <1>1, <1>3 DEF PreloadOK
  <2>2. Cardinality(Running(d)) <= lost[d] + (IF pending[d] = NoRequest THEN 0 ELSE 1)
    BY <1>1 DEF AsksOnce
  <2>3. CASE d = c
    <3>1. Running(d)' = R \ {p} /\ Running(d) = R
      BY <1>10, <1>11, <2>3
    <3>2. Cardinality(R) <= lost[d] + 1
      BY <1>12, <2>1, <2>2, <3>1
    <3>3. Cardinality(R \ {p}) <= lost'[d]
      BY <1>12, <2>1, <3>2
    <3>4. pending'[d] = NoRequest
      BY <1>6, <2>3
    <3> QED  BY <2>1, <3>1, <3>3, <3>4
  <2>4. CASE d # c
    BY <1>6, <1>9, <2>1, <2>2, <2>4
  <2> QED  BY <2>3, <2>4
<1> QED  BY <1>7, <1>8, <1>13

\* cancel gives a request up.
LEMMA CancelKeeps ==
    ASSUME CachesInv, NEW c \in ContentId, Cancel(c)
    PROVE  PreloadOK' /\ Asks' /\ AsksOnce'
<1>1. PreloadOK /\ Asks /\ AsksOnce
  BY DEF CachesInv
<1>2. /\ pending[c] # NoRequest /\ pending' = Drop({c})
      /\ lost' = [lost EXCEPT ![c] = lost[c] + 1] /\ UNCHANGED <<factory, preload>>
  BY DEF Cancel
<1>3. /\ pending' \in [ContentId -> [by : Preload, age : Nat] \cup {NoRequest}]
      /\ pending'[c] = NoRequest /\ \A d \in ContentId \ {c} : pending'[d] = pending[d]
  BY <1>1, <1>2 DEF PreloadOK, Drop
<1>4. PreloadOK' /\ Asks'
  <2>1. lost' \in [ContentId -> Nat]
    BY <1>1, <1>2 DEF PreloadOK
  <2>2. PreloadOK'
    BY <1>1, <1>2, <1>3, <2>1 DEF PreloadOK
  <2>3. Asks'
    BY <1>1, <1>2 DEF Asks
  <2> QED  BY <2>2, <2>3
<1>5. AsksOnce'
  <2> SUFFICES ASSUME NEW d \in ContentId
               PROVE  Cardinality(Running(d)') <= lost'[d] + (IF pending'[d] = NoRequest THEN 0 ELSE 1)
    BY DEF AsksOnce
  <2>1. Running(d)' = Running(d)
    BY <1>2 DEF Running
  <2>2. lost[d] \in Nat /\ Cardinality(Running(d)) <= lost[d] + (IF pending[d] = NoRequest THEN 0 ELSE 1)
    BY <1>1 DEF PreloadOK, AsksOnce
  <2>3. lost'[d] = IF d = c THEN lost[d] + 1 ELSE lost[d]
    BY <1>1, <1>2 DEF PreloadOK
  <2>4. CASE d = c
    BY <1>2, <1>3, <2>1, <2>2, <2>3, <2>4
  <2>5. CASE d # c
    BY <1>3, <2>1, <2>2, <2>3, <2>5
  <2> QED  BY <2>4, <2>5
<1> QED  BY <1>4, <1>5

\* Time gives no request up by itself.
LEMMA ElapseKeeps ==
    ASSUME CachesInv, Elapse
    PROVE  PreloadOK' /\ Asks' /\ AsksOnce'
<1>1. PreloadOK /\ Asks /\ AsksOnce
  BY DEF CachesInv
<1>2. ASSUME NEW c \in ContentId
      PROVE  /\ pending'[c] \in [by : Preload, age : Nat] \cup {NoRequest}
             /\ pending'[c] = NoRequest <=> pending[c] = NoRequest
  <2>1. CASE pending[c] = NoRequest
    BY <2>1 DEF Elapse
  <2>2. CASE pending[c] # NoRequest
    <3>1. PICK p \in Preload, n \in Nat : pending[c] = [by |-> p, age |-> n]
      BY <1>1, <2>2 DEF PreloadOK
    <3>2. PICK m \in Nat : m = IF n <= Timeout THEN n + 1 ELSE n
      BY CacheAssumption
    <3>3. Older(pending[c], Timeout) = [by |-> p, age |-> m]
      BY <3>1, <3>2 DEF Older
    <3>4. pending'[c] = [by |-> p, age |-> m]
      BY <2>2, <3>3 DEF Elapse
    <3> QED  BY <2>2, <3>4, CacheAssumption
  <2> QED  BY <2>1, <2>2
<1>3. pending' \in [ContentId -> [by : Preload, age : Nat] \cup {NoRequest}]
  <2>1. pending' = [c \in ContentId |-> pending'[c]]
    BY DEF Elapse
  <2> QED  BY <1>2, <2>1
<1>4. UNCHANGED <<factory, preload, lost>>
  BY DEF Elapse
<1>5. PreloadOK' /\ Asks'
  BY <1>1, <1>3, <1>4 DEF PreloadOK, Asks
<1>6. \A c \in ContentId : Running(c)' = Running(c)
  BY <1>4 DEF Running
<1> QED  BY <1>1, <1>2, <1>4, <1>5, <1>6, NobodyAsks

\* A preload goes on that has made no request, or has made it.
LEMMA PreloadGoesOn ==
    ASSUME CachesInv, NEW p \in Preload, NEW new \in Preloading,
           factory[p] \notin Going, new.step # "new",
           preload' = [preload EXCEPT ![p] = new], UNCHANGED <<pending, factory, lost>>
    PROVE  PreloadOK' /\ Asks' /\ AsksOnce'
<1>1. PreloadOK /\ Asks /\ AsksOnce
  BY DEF CachesInv
<1>2. PreloadOK'
  BY <1>1 DEF PreloadOK
<1>3. Asks'
  BY <1>1 DEF Asks, PreloadOK
<1>4. \A c \in ContentId : Running(c)' = Running(c)
  BY <1>1 DEF Running, PreloadOK, Going
<1> QED  BY <1>1, <1>2, <1>3, <1>4, NobodyAsks

\* What follows the manifest touches no request.
LEMMA PreloadKeeps ==
    ASSUME CachesInv, NEW p \in Preload,
           HasManifest(p) \/ Chunk(p) \/ Done(p) \/ \E f \in FragmentId : Loaded(p, f)
    PROVE  PreloadOK' /\ Asks' /\ AsksOnce'
<1>1. PreloadOK /\ Asks /\ AsksOnce
  BY DEF CachesInv
<1>2. PICK r \in Preloading : r = preload[p]
  BY <1>1 DEF PreloadOK
<1>3. CASE HasManifest(p)
  <2>1. r.step = "manifest" /\ factory[r.by] \in {"ok", "error"}
    BY <1>2, <1>3 DEF HasManifest
  <2>2. factory[p] \notin Going
    BY <1>1, <1>2, <2>1 DEF Asks, Going
  <2>3. r.cid \in ContentId
    BY <2>1 DEF Preloading
  <2>4. PICK todo \in Seq(FragmentId) : todo = Wanted[p]
    BY CacheAssumption
  <2>5. [step |-> "over"] \in Preloading
    BY DEF Preloading
  <2>6. [step |-> "fragments", cid |-> r.cid, todo |-> todo, loading |-> {}] \in Preloading
    BY <2>3 DEF Preloading
  <2>7. PICK new \in Preloading : new = IF factory[r.by] = "error" THEN [step |-> "over"]
                   ELSE [step |-> "fragments", cid |-> r.cid, todo |-> todo, loading |-> {}]
    BY <2>5, <2>6
  <2>8. preload' = [preload EXCEPT ![p] = new] /\ UNCHANGED <<pending, factory, lost>>
    BY <1>2, <1>3, <2>4, <2>7 DEF HasManifest, Loading
  <2>9. new.step # "new"
    BY <2>7
  <2> QED  BY <2>2, <2>8, <2>9, PreloadGoesOn
<1>4. CASE Chunk(p)
  <2>1. r.step = "fragments"
    BY <1>2, <1>4 DEF Chunk
  <2>2. factory[p] \notin Going
    BY <1>1, <1>2, <2>1 DEF Asks, Going
  <2>3. PICK t \in Seq(FragmentId) : t = r.todo
    BY <2>1 DEF Preloading
  <2>4. r.cid \in ContentId /\ r = [step |-> "fragments", cid |-> r.cid, todo |-> t, loading |-> r.loading]
    BY <2>1, <2>3 DEF Preloading
  <2>5. PICK n \in 0..Len(t) : n = IF Len(t) < Concurrency THEN Len(t) ELSE Concurrency
    BY CacheAssumption
  <2>6. PICK keys : keys = [i \in 1..n |-> <<r.cid, t[i]>>]
    OBVIOUS
  <2>7. PICK s : s = {t[i] : i \in {j \in 1..n : ~Hit(lru["fragment"], keys[j])}}
    OBVIOUS
  <2>8. s \in SUBSET FragmentId
    BY <2>5, <2>7
  <2>9. PICK rest \in Seq(FragmentId) : rest = SubSeq(t, n + 1, Len(t))
    BY SuffixIs
  <2>10. PICK new \in Preloading : new = [step |-> "fragments", cid |-> r.cid, todo |-> rest, loading |-> s]
    BY <2>4, <2>8 DEF Preloading
  <2>11. preload' = [preload EXCEPT ![p] = Loading("fragments", r.cid, rest, s)]
    BY <1>2, <1>4, <2>3, <2>5, <2>6, <2>7, <2>9 DEF Chunk
  <2>12. preload' = [preload EXCEPT ![p] = new]
    BY <2>10, <2>11 DEF Loading
  <2>13. UNCHANGED <<pending, factory, lost>>
    BY <1>4 DEF Chunk
  <2> QED  BY <2>2, <2>10, <2>12, <2>13, PreloadGoesOn
<1>5. CASE Done(p)
  <2>1. r.step \in {"fragments", "failed"}
    BY <1>2, <1>5 DEF Done
  <2>2. factory[p] \notin Going
    BY <1>1, <1>2, <2>1 DEF Asks, Going
  <2>3. PICK new \in Preloading : new = [step |-> "over"]
    BY DEF Preloading
  <2>4. preload' = [preload EXCEPT ![p] = new] /\ UNCHANGED <<pending, factory, lost>>
    BY <1>5, <2>3 DEF Done
  <2> QED  BY <2>2, <2>3, <2>4, PreloadGoesOn
<1>6. ASSUME NEW f \in FragmentId, Loaded(p, f)  PROVE PreloadOK' /\ Asks' /\ AsksOnce'
  <2>1. r.step \in {"fragments", "failed"} /\ UNCHANGED <<pending, factory, lost>>
    BY <1>2, <1>6 DEF Loaded
  <2>2. factory[p] \notin Going
    BY <1>1, <1>2, <2>1 DEF Asks, Going
  <2>3. /\ r = [step |-> r.step, cid |-> r.cid, todo |-> r.todo, loading |-> r.loading]
        /\ r.cid \in ContentId /\ r.todo \in Seq(FragmentId) /\ r.loading \in SUBSET FragmentId
    BY <2>1 DEF Preloading
  <2>4. PICK s \in {r.step, "failed"} :
              preload' = [preload EXCEPT ![p] = Loading(s, r.cid, r.todo, r.loading \ {f})]
    BY <1>2, <1>6 DEF Loaded
  <2>5. PICK new \in Preloading :
              new = [step |-> s, cid |-> r.cid, todo |-> r.todo, loading |-> r.loading \ {f}]
    BY <2>1, <2>3 DEF Preloading
  <2>6. preload' = [preload EXCEPT ![p] = new]
    BY <2>4, <2>5 DEF Loading
  <2>7. new.step # "new"
    BY <2>1, <2>5
  <2> QED  BY <2>1, <2>2, <2>6, <2>7, PreloadGoesOn
<1> QED  BY <1>3, <1>4, <1>5, <1>6

\* The invariant is kept by every step.
LEMMA CachesKeep ==
    ASSUME CachesInv, CacheNext
    PROVE  CachesInv'
<1>1. ASSUME UNCHANGED <<pending, factory, preload, lost>>  PROVE PreloadOK' /\ Asks' /\ AsksOnce'
  <2>1. \A c \in ContentId : Running(c)' = Running(c)
    BY <1>1 DEF Running
  <2> QED  BY <1>1, <2>1, NobodyAsks DEF CachesInv, PreloadOK, Asks
<1>2. ASSUME \/ Clear \/ \E k \in Kind : CleanUp(k)
             \/ \E q \in Reader : Fetched(q) \/ \E u \in Url : CachedFetch(q, u)
      PROVE  PreloadOK' /\ Asks' /\ AsksOnce'
  <2>1. CASE Clear
    BY <1>1, <2>1 DEF Clear
  <2>2. CASE \E k \in Kind : CleanUp(k)
    BY <1>1, <2>2 DEF CleanUp
  <2>3. CASE \E q \in Reader : Fetched(q)
    BY <1>1, <2>3 DEF Fetched
  <2>4. CASE \E q \in Reader, u \in Url : CachedFetch(q, u)
    BY <1>1, <2>4 DEF CachedFetch
  <2> QED  BY <1>2, <2>1, <2>2, <2>3, <2>4
<1>3. ASSUME NEW p \in Preload, Manifest(p)  PROVE PreloadOK' /\ Asks' /\ AsksOnce'
  <2>1. factory[p] \in Going /\ UNCHANGED <<pending, preload, lost>>
    BY <1>3 DEF Manifest, Going
  <2>2. \E x \in {"resolved", "rejected"} : factory' = [factory EXCEPT ![p] = x]
    BY <1>3 DEF Manifest
  <2> QED  BY <2>1, <2>2, FactoryKeeps
<1>4. PreloadOK' /\ Asks' /\ AsksOnce'
  <2>1. CASE \E c \in ContentId : Cancel(c) \/ \E p \in Preload : Start(p, c)
    BY <2>1, CancelKeeps, StartKeeps
  <2>2. CASE Elapse
    BY <2>2, ElapseKeeps
  <2>3. CASE \E p \in Preload : Finally(p)
    BY <2>3, FinallyKeeps
  <2>4. CASE \E p \in Preload : HasManifest(p) \/ Chunk(p) \/ Done(p) \/ \E f \in FragmentId : Loaded(p, f)
    BY <2>4, PreloadKeeps
  <2> QED  BY <1>2, <1>3, <2>1, <2>2, <2>3, <2>4 DEF CacheNext
<1> QED  BY <1>4, LruStep DEF CachesInv

\* CachesHold is an invariant: for any contents, calls, sizes and room.
THEOREM CachesAreKept == CacheSpec => []CachesHold
<1>1. CachesInv => CachesHold
  <2> SUFFICES ASSUME CachesInv PROVE CachesHold
    OBVIOUS
  <2>1. PICK K : lru \in [Kind -> Caches(K)]
    BY DEF CachesInv, LruOK
  <2>2. SizesAddUp
    <3> SUFFICES ASSUME NEW k \in Kind
                 PROVE  lru[k].total = SizeOf(lru[k].entries)
                        /\ (lru[k].total <= Room \/ Len(lru[k].entries) = 1)
      BY DEF SizesAddUp
    <3>1. PICK l \in Caches(K) : l = lru[k]
      BY <2>1
    <3> QED  BY <3>1, CacheIs
  <2>3. ASSUME NEW c \in ContentId PROVE Cardinality(Running(c)) <= 1 + lost[c]
    <3>1. /\ Cardinality(Running(c)) \in Nat /\ lost[c] \in Nat
          /\ Cardinality(Running(c)) <= lost[c] + (IF pending[c] = NoRequest THEN 0 ELSE 1)
      BY RunningIsFinite DEF CachesInv, PreloadOK, AsksOnce
    <3> QED  BY <3>1
  <2> QED  BY <2>2, <2>3 DEF CachesHold
<1>2. CachesInv /\ [CacheNext]_cacheVars => CachesInv'
  <2>1. ASSUME CachesInv, UNCHANGED cacheVars PROVE CachesInv'
    BY <2>1 DEF CachesInv, LruOK, PreloadOK, Asks, AsksOnce, Running, cacheVars
  <2> QED  BY <2>1, CachesKeep
<1> QED  BY <1>1, <1>2, CachesStart, PTL DEF CacheSpec
=============================================================================
