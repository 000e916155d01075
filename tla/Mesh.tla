-------------------------------- MODULE Mesh --------------------------------
(***************************************************************************)
(* How content spreads between nodes: uploads, fetches and deletions by    *)
(* clients of a node, its announcements in the DHT and by gossip, and the  *)
(* replication cycle that pulls what other nodes hold (replication.rs of   *)
(* the node), with what the replication manager counts as a holder.        *)
(*                                                                         *)
(* A content is one fragment of the same hash, as an upload makes it.      *)
(* Requests between nodes are answered or fail: how the event loops track  *)
(* them is PeerRequests, and the steps of the storage are NodeStorage.     *)
(***************************************************************************)
EXTENDS Naturals, Sequences, FiniteSets, SequencesExt

CONSTANTS
    Node,
    Content,
    Nothing,        \* no content, no node
    Held,           \* what is on the disk of each node, and in the DHT, at first
    Lossy,          \* whether requests, records and announcements get lost
    MaxItems,       \* ReplicationConfig.max_items_per_cycle
    Budget,         \* max_storage_usage_pct, as a number of fragments
    MaxRequests,    \* bound: requests of clients in a behaviour
    MaxStops        \* bound: nodes that stop, in a behaviour

ASSUME MeshAssumption ==
    /\ Nothing \notin Content \cup Node
    /\ Held \in [Node -> SUBSET Content] /\ Lossy \in BOOLEAN
    /\ {MaxItems, Budget, MaxRequests, MaxStops} \subseteq Nat

VARIABLES
    files, listed, pinned,      \* on the disk of each node: fragments, contents
    records,        \* the DHT: the nodes whose record of a content is stored
    heard,          \* P2pState.content_announcements: contents and who has them
    up,             \* the nodes that run, each connected to the others
    request,        \* the request of a client that a node works on
    requests,       \* how many there were
    stops,
    cycle,          \* the replication cycle of each node
    pull,           \* replicate_content of each target: its next step
    source,         \* the provider it asks
    holders,        \* ReplicationManager.content_fragments
    raced           \* history: deleted on a node while it was being stored

meshVars == <<files, listed, pinned, records, heard, up, request, requests, stops,
              cycle, pull, source, holders, raced>>
disk == <<files, listed, pinned>>
shared == <<records, heard>>
cycling == <<cycle, pull, source, holders>>
life == <<up, requests, stops>>

NoRequest == [op |-> "none", cid |-> Nothing, step |-> "idle", from |-> Nothing]
NoCycle == [step |-> "idle", asking |-> {}, local |-> {}, targets |-> <<>>]

MInit ==
    /\ files = Held /\ listed = Held /\ pinned = [n \in Node |-> {}]
    /\ records = [c \in Content |-> {n \in Node : c \in Held[n]}]
    /\ heard = [n \in Node |-> <<>>]
    /\ up = Node
    /\ request = [n \in Node |-> NoRequest]
    /\ requests = 0 /\ stops = 0
    /\ cycle = [n \in Node |-> NoCycle]
    /\ pull = [n \in Node |-> [c \in Content |-> "none"]]
    /\ source = [n \in Node |-> [c \in Content |-> Nothing]]
    /\ holders = [n \in Node |-> [c \in Content |-> {}]]
    /\ raced = [n \in Node |-> {}]

-----------------------------------------------------------------------------
(* What a node does for others, and the DHT.                                *)

\* A request for the manifest or the fragment of a content is answered.
HasManifest(p, c) == p \in up /\ c \in listed[p]
HasFragment(p, c) == p \in up /\ c \in files[p]

\* A record names its announcer alone; it takes the place of older ones, on
\* the nodes of the DHT that it reaches.
Announced(n, c, kept) == [records EXCEPT ![c] = kept \cup {n}]
Kept(c) == IF Lossy THEN SUBSET records[c] ELSE {{}}

\* The peers that a broadcast reaches by gossip, and what one does with it.
Reached(n) == IF Lossy THEN SUBSET (up \ {n}) ELSE {up \ {n}}
Hears(m, c, from) == Append(heard[m], <<c, from>>)

\* Whom FindProviders names: the announcer of a record; nobody, when there is
\* none or the query times out.
Providers(c) == {<<p>> : p \in records[c]}
                \cup (IF Lossy \/ records[c] = {} THEN {<<>>} ELSE {})

\* Whether a fragment of c is between its file and its listing on n.
Storing(n, c) == \/ request[n].cid = c /\ request[n].step \in {"list", "listFetched"}
                 \/ pull[n][c] \in {"list", "pin"}

-----------------------------------------------------------------------------
(* Clients of a node.                                                       *)

Begin(n, what, c, step) ==
    /\ n \in up /\ request[n] = NoRequest /\ requests < MaxRequests
    /\ requests' = requests + 1
    /\ request' = [request EXCEPT
                     ![n] = [op |-> what, cid |-> c, step |-> step, from |-> Nothing]]

Step(n, step) == request' = [request EXCEPT ![n].step = step]
End(n) == request' = [request EXCEPT ![n] = NoRequest]

\* upload_content: the fragment, the content, the DHT and the gossip.
Upload(n, c) ==
    /\ Begin(n, "upload", c, "list")
    /\ files' = [files EXCEPT ![n] = @ \cup {c}]
    /\ raced' = [raced EXCEPT ![n] = @ \ {c}]
    /\ UNCHANGED <<listed, pinned, shared, up, stops, cycling>>

ListUpload(n) ==
    /\ request[n].step = "list"
    /\ listed' = [listed EXCEPT ![n] = @ \cup {request[n].cid}]
    /\ pinned' = [pinned EXCEPT ![n] = @ \ {request[n].cid}]
    /\ Step(n, "announce")
    /\ UNCHANGED <<files, shared, life, cycling, raced>>

AnnounceUpload(n) ==
    /\ request[n].step = "announce"
    /\ LET c == request[n].cid IN
         /\ \E kept \in Kept(c) : records' = Announced(n, c, kept)
         /\ \E reached \in Reached(n) :
              heard' = [m \in Node |-> IF m \in reached THEN Hears(m, c, n) ELSE heard[m]]
    /\ End(n)
    /\ UNCHANGED <<disk, life, cycling, raced>>

\* delete, by a client or the garbage collection: never of pinned content.
Delete(n, c) ==
    /\ c \in listed[n] \ pinned[n]
    /\ Begin(n, "delete", c, "remove")
    /\ UNCHANGED <<disk, shared, up, stops, cycling, raced>>

RemoveFile(n) ==
    /\ request[n].step = "remove"
    /\ files' = [files EXCEPT ![n] = @ \ {request[n].cid}]
    /\ raced' = IF Storing(n, request[n].cid)
                THEN [raced EXCEPT ![n] = @ \cup {request[n].cid}] ELSE raced
    /\ Step(n, "unlist")
    /\ UNCHANGED <<listed, pinned, shared, life, cycling>>

Unlist(n) ==
    /\ request[n].step = "unlist"
    /\ listed' = [listed EXCEPT ![n] = @ \ {request[n].cid}]
    /\ pinned' = [pinned EXCEPT ![n] = @ \ {request[n].cid}]
    /\ raced' = IF Storing(n, request[n].cid) THEN raced
                ELSE [raced EXCEPT ![n] = @ \ {request[n].cid}]
    /\ End(n)
    /\ UNCHANGED <<files, shared, life, cycling>>

\* fetch_remote_content, of content that the node does not have.  With no
\* provider in the DHT it takes those it heard of, or else its peers; and it
\* asks the first of them only.
Fetch(n, c) ==
    /\ c \notin listed[n]
    /\ Begin(n, "fetch", c, "manifest")
    /\ UNCHANGED <<disk, shared, up, stops, cycling, raced>>

HeardOf(n, c) == SelectSeq(heard[n], LAMBDA news : news[1] = c)
First(n, c, named) ==
    CASE named # <<>> -> {named[1]}
      [] named = <<>> /\ HeardOf(n, c) # <<>> -> {HeardOf(n, c)[1][2]}
      [] OTHER -> up \ {n}

FetchManifest(n) ==
    /\ request[n].step = "manifest"
    /\ LET c == request[n].cid IN
         \E named \in Providers(c) :
            LET asked == {p \in First(n, c, named) : p # n /\ HasManifest(p, c)} IN
            \/ \E p \in asked :
                  request' = [request EXCEPT ![n].step = "fragment", ![n].from = p]
            \/ (Lossy \/ asked # First(n, c, named) \/ asked = {}) /\ End(n)
    /\ UNCHANGED <<disk, shared, life, cycling, raced>>

FetchFragment(n) ==
    /\ request[n].step = "fragment"
    /\ LET c == request[n].cid IN
         \/ /\ HasFragment(request[n].from, c)
            /\ files' = [files EXCEPT ![n] = @ \cup {c}]
            /\ raced' = [raced EXCEPT ![n] = @ \ {c}]
            /\ Step(n, "listFetched")
         \/ /\ Lossy \/ ~HasFragment(request[n].from, c)
            /\ End(n) /\ UNCHANGED <<files, raced>>
    /\ UNCHANGED <<listed, pinned, shared, life, cycling>>

\* What was fetched is stored unpinned, and not announced.
ListFetched(n) ==
    /\ request[n].step = "listFetched"
    /\ listed' = [listed EXCEPT ![n] = @ \cup {request[n].cid}]
    /\ pinned' = [pinned EXCEPT ![n] = @ \ {request[n].cid}]
    /\ End(n)
    /\ UNCHANGED <<files, shared, life, cycling, raced>>

RequestStep(n) ==
    /\ n \in up
    /\ \/ ListUpload(n) \/ AnnounceUpload(n) \/ RemoveFile(n) \/ Unlist(n)
       \/ FetchManifest(n) \/ FetchFragment(n) \/ ListFetched(n)

-----------------------------------------------------------------------------
(* The replication cycle, scan_and_replicate.                               *)

\* register_content and add_fragment_holder of the replication manager.
Registered(n) == [c \in Content |-> IF c \in listed[n] THEN {n} ELSE holders[n][c]]
WithHolders(n, c, those) == [holders EXCEPT ![n][c] = @ \cup those]

\* Below the budget, the contents of the node are registered afresh, with the
\* node as their holder.  A node without content of its own does nothing.
Scan(n) ==
    /\ cycle[n].step = "idle"
    /\ Cardinality(files[n]) < Budget /\ listed[n] # {}
    /\ cycle' = [cycle EXCEPT ![n] = [NoCycle EXCEPT !.step = "holders",
                                                     !.asking = listed[n]]]
    /\ holders' = [holders EXCEPT ![n] = Registered(n)]
    /\ UNCHANGED <<disk, shared, life, request, pull, source, raced>>

FindHolders(n, c) ==
    /\ cycle[n].step = "holders" /\ c \in cycle[n].asking
    /\ \E named \in Providers(c) :
          holders' = WithHolders(n, c, ToSet(named))
    /\ cycle' = [cycle EXCEPT ![n].asking = @ \ {c}, ![n].local = @ \cup {c}]
    /\ UNCHANGED <<disk, shared, life, request, pull, source, raced>>

\* The announcements are drained; `local` goes on holding the local contents.
Drain(n) ==
    /\ cycle[n].step = "holders" /\ cycle[n].asking = {}
    /\ cycle' = [cycle EXCEPT ![n].step = "catalogs", ![n].asking = up \ {n},
                              ![n].targets = [i \in DOMAIN heard[n] |-> heard[n][i][1]]]
    /\ heard' = [heard EXCEPT ![n] = <<>>]
    /\ UNCHANGED <<disk, records, life, request, pull, source, holders, raced>>

Catalog(n, p) ==
    /\ cycle[n].step = "catalogs" /\ p \in cycle[n].asking
    /\ \E catalog \in (IF p \in up THEN SetToSeqs(listed[p]) ELSE {})
                      \cup (IF Lossy \/ p \notin up THEN {<<>>} ELSE {}) :
          cycle' = [cycle EXCEPT ![n].asking = @ \ {p}, ![n].targets = @ \o catalog]
    /\ UNCHANGED <<disk, shared, life, request, pull, source, holders, raced>>

\* select_replication_targets: the first of what is not local, each once.
Selected(local, candidates) ==
    LET remote == SelectSeq(candidates, LAMBDA c : c \notin local)
        firsts == {i \in DOMAIN remote : \A j \in 1..(i - 1) : remote[j] # remote[i]}
        once == [k \in 1..Cardinality(firsts) |->
                   remote[CHOOSE i \in firsts :
                            Cardinality({j \in firsts : j <= i}) = k]]
    IN SubSeq(once, 1, IF Len(once) < MaxItems THEN Len(once) ELSE MaxItems)

Select(n) ==
    /\ cycle[n].step = "catalogs" /\ cycle[n].asking = {}
    /\ LET targets == Selected(cycle[n].local, cycle[n].targets) IN
         /\ cycle' = [cycle EXCEPT ![n] = IF targets = <<>> THEN NoCycle
                                          ELSE [NoCycle EXCEPT !.step = "pull",
                                                               !.targets = targets]]
         /\ pull' = [pull EXCEPT ![n] = [c \in Content |->
                       IF c \in ToSet(targets) THEN "providers" ELSE "none"]]
    /\ UNCHANGED <<disk, shared, life, request, source, holders, raced>>

Pulls(n, c, from, to) == pull[n][c] = from /\ pull' = [pull EXCEPT ![n][c] = to]

\* replicate_content, one task for each target: the providers in the DHT,
\* the manifest, the fragment.
PullProviders(n, c) ==
    /\ \E named \in Providers(c) :
         \/ /\ named # <<>> /\ Pulls(n, c, "providers", "manifest")
            /\ source' = [source EXCEPT ![n][c] = named[1]]
         \/ named = <<>> /\ Pulls(n, c, "providers", "failed") /\ UNCHANGED source
    /\ UNCHANGED <<disk, shared, life, request, cycle, holders, raced>>

PullFrom(n, c, from, to, has) ==
    /\ \/ has /\ source[n][c] # n /\ Pulls(n, c, from, to) /\ UNCHANGED source
       \/ /\ Lossy \/ ~has \/ source[n][c] = n
          /\ Pulls(n, c, from, "failed")
          /\ source' = [source EXCEPT ![n][c] = Nothing]
    /\ UNCHANGED <<disk, shared, life, request, cycle, holders, raced>>

PullManifest(n, c) ==
    /\ pull[n][c] = "manifest"
    /\ PullFrom(n, c, "manifest", "fragment", HasManifest(source[n][c], c))
PullFragment(n, c) ==
    /\ pull[n][c] = "fragment"
    /\ PullFrom(n, c, "fragment", "pulled", HasFragment(source[n][c], c))

\* Mutant: the content is listed although its fragment could not be stored.
StorePulledUnchecked(n, c) ==
    /\ Pulls(n, c, "pulled", "list")
    /\ source' = [source EXCEPT ![n][c] = Nothing]
    /\ UNCHANGED <<disk, shared, life, request, cycle, holders, raced>>

\* The results are collected in the order of the targets: the fragment, unless
\* the node has it by now, the content, its pin and its announcement.
StorePulled(n, c) ==
    /\ Pulls(n, c, "pulled", "list")
    /\ files' = [files EXCEPT ![n] = @ \cup {c}]
    /\ source' = [source EXCEPT ![n][c] = Nothing]
    /\ raced' = [raced EXCEPT ![n] = IF c \in files[n] THEN @ ELSE @ \ {c}]
    /\ UNCHANGED <<listed, pinned, shared, life, request, cycle, holders>>

ListPulled(n, c) ==
    /\ Pulls(n, c, "list", "pin")
    /\ listed' = [listed EXCEPT ![n] = @ \cup {c}]
    /\ pinned' = [pinned EXCEPT ![n] = @ \ {c}]
    /\ UNCHANGED <<files, shared, life, request, cycle, source, holders, raced>>

PinPulled(n, c) ==
    /\ Pulls(n, c, "pin", "announce")
    /\ pinned' = [pinned EXCEPT ![n] = @ \cup ({c} \cap listed[n])]
    /\ UNCHANGED <<files, listed, shared, life, request, cycle, source, holders, raced>>

\* The end of a target, stored or not; the last one ends the cycle.
Collected(n) ==
    cycle' = [cycle EXCEPT ![n] = IF Len(@.targets) = 1 THEN NoCycle
                                  ELSE [@ EXCEPT !.targets = Tail(@)]]

AnnouncePulled(n, c) ==
    /\ Pulls(n, c, "announce", "none")
    /\ \E kept \in Kept(c) : records' = Announced(n, c, kept)
    /\ Collected(n)
    /\ UNCHANGED <<disk, heard, life, request, source, holders, raced>>

\* Mutant: the cycle waits for ever for a pull that failed.
PullFailedWaiting(n, c) ==
    /\ Pulls(n, c, "failed", "none")
    /\ UNCHANGED <<disk, shared, life, request, cycle, source, holders, raced>>

PullFailed(n, c) ==
    /\ Pulls(n, c, "failed", "none")
    /\ Collected(n)
    /\ UNCHANGED <<disk, shared, life, request, source, holders, raced>>

CycleStep(n) ==
    /\ n \in up
    /\ \/ Scan(n) \/ Drain(n) \/ Select(n)
       \/ \E c \in Content : \/ FindHolders(n, c) \/ PullProviders(n, c)
                             \/ PullManifest(n, c) \/ PullFragment(n, c)
       \/ \E p \in Node : Catalog(n, p)
       \/ \E c \in Content :
             /\ cycle[n].step = "pull" /\ c = Head(cycle[n].targets)
             /\ \/ StorePulled(n, c) \/ ListPulled(n, c) \/ PinPulled(n, c)
                \/ AnnouncePulled(n, c) \/ PullFailed(n, c)

-----------------------------------------------------------------------------
(* Nodes come and go; what is not on the disk is lost.                      *)

Stop(n) ==
    /\ n \in up /\ stops < MaxStops
    /\ up' = up \ {n} /\ stops' = stops + 1
    /\ request' = [request EXCEPT ![n] = NoRequest]
    /\ cycle' = [cycle EXCEPT ![n] = NoCycle]
    /\ pull' = [pull EXCEPT ![n] = [c \in Content |-> "none"]]
    /\ source' = [source EXCEPT ![n] = [c \in Content |-> Nothing]]
    /\ holders' = [holders EXCEPT ![n] = [c \in Content |-> {}]]
    /\ heard' = [heard EXCEPT ![n] = <<>>]
    \* a deletion that was interrupted leaves the listing behind
    /\ raced' = [raced EXCEPT ![n] = @ \cup (listed[n] \ files[n])]
    /\ UNCHANGED <<disk, records, requests>>

Start(n) ==
    /\ n \notin up
    /\ up' = up \cup {n}
    /\ UNCHANGED <<disk, shared, request, requests, stops, cycling, raced>>

MNext ==
    \E n \in Node :
        \/ \E c \in Content : Upload(n, c) \/ Delete(n, c) \/ Fetch(n, c)
        \/ RequestStep(n) \/ CycleStep(n) \/ Stop(n) \/ Start(n)

MSpec == /\ MInit /\ [][MNext]_meshVars
         /\ \A n \in Node : WF_meshVars(RequestStep(n)) /\ WF_meshVars(CycleStep(n))

-----------------------------------------------------------------------------
MeshTypeOK ==
    /\ files \in [Node -> SUBSET Content] /\ listed \in [Node -> SUBSET Content]
    /\ \A n \in Node : pinned[n] \subseteq listed[n]
    /\ records \in [Content -> SUBSET Node]
    /\ up \subseteq Node

(* A node that lists a content has its fragment, or a deletion removed it   *)
(* while it was being stored: the cycle checks has_fragment and lists the   *)
(* content later (replication.rs:307).                                      *)
WholeUnlessRaced ==
    \A n \in Node : \A c \in listed[n] :
        \/ c \in files[n] \cup raced[n]
        \/ request[n].step = "unlist" /\ request[n].cid = c

(* Content spreads: a node that runs and has content of its own, with room  *)
(* in its budget, gets a content whose only record names a node that runs   *)
(* and has it, as long as this stays so (replication.rs:149-370).           *)
Offered(n, m, c) == /\ {n, m} \subseteq up /\ listed[n] # {}
                    /\ Cardinality(files[n]) < Budget
                    /\ records[c] = {m} /\ c \in listed[m] \cap files[m]
Spreads == \A n, m \in Node, c \in Content :
              n # m => ([](Offered(n, m, c) ~> (~Offered(n, m, c) \/ c \in listed[n])))
=============================================================================
