---------------------------- MODULE ContentPath ----------------------------
(***************************************************************************)
(* How the gateway serves content (gateway/src/lib.rs, main.rs, cache.rs,  *)
(* p2p_resolver.rs, node_resolver.rs, upload.rs, pin.rs, and the IPFS      *)
(* client of protocol/src/storage.rs): a request resolves a name, fetches  *)
(* a path through cache, peers, node-runners and IPFS, and may then fetch  *)
(* the index of the site instead.                                          *)
(*                                                                         *)
(* A fetched body is "html", or "error": the client of IPFS does not look  *)
(* at the status of an answer, so the text of an error passes for content. *)
(* The breaker that guards IPFS is CircuitBreaker; here it may refuse.     *)
(***************************************************************************)
EXTENDS Integers, FiniteSets

CONSTANTS Request, Root,
          Site,        \* the roots that are directories with an index.html
          Name,
          Record,      \* what each name stands for: a root or a name, or nothing
          Page,        \* subpaths that have no file (routes of an application)
          MaxEntries,  \* capacity of the cache
          MaxDepth,    \* MAX_ALIAS_DEPTH
          Attempts,    \* retry_attempts of the IPFS client
          MaxRequests  \* bound of the model

ASSUME EntriesAssumption == MaxEntries \in Nat

VARIABLES entries,   \* the cache: key -> body
          stale,     \* the keys whose entry has outlived its time
          used,      \* last_accessed: key -> the entries that were used after it
          req,       \* per request: its step and what it needs for it
          since,     \* history: key -> the keys read or set since it was
          started

cache  == <<entries, stale, used, since>>
cvars  == <<cache, req, started>>

Bare(r)  == <<r, "">>
Index(r) == <<r, "index.html">>
Key      == {Bare(r) : r \in Root} \cup {Index(r) : r \in Site} \cup Site \X Page

Idle    == [step |-> "idle"]
\* Key k is used, and the others have not been used since.
Newest(f, k) == [x \in DOMAIN f \cup {k} |-> IF x = k THEN {} ELSE f[x] \cup {k}]

\* The body that exists under a key, where it is stored.
Body(k) == IF k \in {Bare(r) : r \in Root \ Site} \cup {Index(r) : r \in Site}
             THEN {"html"} ELSE {}

CInit ==
    /\ entries = <<>> /\ stale = {}
    /\ used = <<>> /\ since = <<>> /\ started = 0
    /\ req = [q \in Request |-> Idle]

Step(q, new) == req' = [req EXCEPT ![q] = new]
\* fetch_content of key k; `last` when its answer is the answer.
Fetch(k, last) == [step |-> "lookup", key |-> k, last |-> last]
Go(q, step) == Step(q, [req[q] EXCEPT !.step = step])

----------------------------------------------------------------------------
(* The handlers.                                                           *)

\* A request for a root, a path or a name.  A deployment with a process or a
\* function answers itself.
Start(q) ==
    /\ req[q] = Idle /\ started < MaxRequests
    /\ started' = started + 1
    /\ \/ \E k \in Key : Step(q, Fetch(k, FALSE))
       \/ \E n \in Name : Step(q, [step |-> "resolve", name |-> n, hops |-> 0])
    /\ UNCHANGED <<cache>>

\* Mutant: the loop over aliases has no bound.
ResolveEver(q) ==
    /\ req[q].step = "resolve"
    /\ LET to == Record[req[q].name]
       IN  Step(q, CASE to \in Root -> Fetch(Bare(to), FALSE)
                     [] to \in Name -> [req[q] EXCEPT !.name = to]
                     [] OTHER       -> Idle)
    /\ UNCHANGED <<cache, started>>

\* resolve_shadow_name_and_serve: one round of its loop.
Resolve(q) ==
    /\ req[q].step = "resolve"
    /\ LET to == Record[req[q].name]
       IN  Step(q, CASE req[q].hops = MaxDepth -> Idle
                     [] to \in Root -> Fetch(Bare(to), FALSE)
                     [] to \in Name -> [req[q] EXCEPT !.name = to, !.hops = @ + 1]
                     [] OTHER       -> Idle)
    /\ UNCHANGED <<cache, started>>

\* An answer: a root that did not yield HTML, or a page that was not found,
\* is followed by the index.  (An answer of status 404 is HTML.)
Answer(q, status, html) ==
    LET k == req[q].key
    IN  Step(q, IF ~req[q].last /\ (IF k[2] = "" THEN ~html ELSE status = 404 /\ k[2] \in Page)
                  THEN Fetch(Index(k[1]), TRUE) ELSE Idle)

----------------------------------------------------------------------------
(* The cache.                                                              *)

\* Mutant: reading does not count as use.
TouchNot(k) == UNCHANGED used

\* get: a hit becomes the most recently used.
Touch(k) == used' = Newest(used, k)

Lookup(q) ==
    LET k == req[q].key
    IN  /\ req[q].step = "lookup"
        /\ IF k \in DOMAIN entries \ stale
             THEN /\ Touch(k) /\ since' = Newest(since, k)
                  /\ Answer(q, 200, entries[k] = "html")
                  /\ UNCHANGED <<entries, stale>>
             ELSE Go(q, "peers") /\ UNCHANGED cache
        /\ UNCHANGED started

\* set: at capacity the expired entries go, then the least recently used one,
\* also when the key is there already.
Set(k, body) ==
    LET fresh == IF Cardinality(DOMAIN entries) >= MaxEntries
                   THEN DOMAIN entries \ stale ELSE DOMAIN entries
        kept  == IF Cardinality(fresh) >= MaxEntries
                   THEN { x \in fresh : ~(fresh \ {x} \subseteq used[x]) }
                   ELSE fresh
    IN  /\ entries' = [x \in kept \cup {k} |-> IF x = k THEN body ELSE entries[x]]
        /\ stale' = stale \ {k}
        /\ used' = Newest([x \in kept |-> used[x] \cap kept], k)
        /\ since' = Newest(since, k)

\* handle_content_request of p2p.rs: a peer is served from the cache.
PeerGets(k) == /\ k \in DOMAIN entries \ stale
               /\ Touch(k) /\ since' = Newest(since, k)
               /\ UNCHANGED <<entries, stale, req, started>>

\* One entry at a time outlives its time.
Age == /\ stale = {} /\ \E k \in DOMAIN entries \ stale :
            stale' = stale \cup {k}
       /\ UNCHANGED <<entries, used, since, req, started>>

----------------------------------------------------------------------------
(* The sources of fetch_content.                                           *)

Serve(q, body) == Set(req[q].key, body) /\ Answer(q, 200, body = "html")
                  /\ UNCHANGED started

\* resolve_content: one of the providers has it (asked in turn, and once more
\* before that over a circuit), or none has, or the time for this is over.
AskPeers(q) ==
    /\ req[q].step = "peers"
    /\ \/ \E body \in Body(req[q].key) : Serve(q, body)
       \/ Go(q, "nodes") /\ UNCHANGED <<cache, started>>

\* A node-runner answers; what is large is streamed and not kept.
NodeAnswers(q) ==
    \/ \E body \in Body(req[q].key) : Serve(q, body)
    \/ /\ Body(req[q].key) # {} /\ Answer(q, 200, TRUE)
       /\ UNCHANGED <<cache, started>>

\* The node-runners in turn, or none of them.
AskNodes(q) ==
    /\ req[q].step = "nodes"
    /\ \/ NodeAnswers(q)
       \/ Go(q, "breaker") /\ UNCHANGED <<cache, started>>

\* allow_request; a refusal is JSON, and an error page if there is no IPFS.
AskBreaker(q) ==
    /\ req[q].step = "breaker"
    /\ \/ \E html \in BOOLEAN : Answer(q, 503, html)
       \/ Step(q, [step |-> "ipfs", key |-> req[q].key, last |-> req[q].last,
                   attempt |-> 1])
    /\ UNCHANGED <<cache, started>>

\* cat yields the content, or the text of an error: the status is not read.
CatBodies(k) == Body(k) \cup {"error"}

Cat(q) ==
    /\ req[q].step = "ipfs"
    /\ \E body \in CatBodies(req[q].key) : Serve(q, body)

\* The daemon cannot be reached or takes too long.
CatFails(q) ==
    /\ req[q].step = "ipfs"
    /\ IF req[q].attempt < Attempts
         THEN Step(q, [req[q] EXCEPT !.attempt = @ + 1])
         ELSE Answer(q, 404, TRUE)
    /\ UNCHANGED <<cache, started>>

----------------------------------------------------------------------------
Serving(q) == \/ Resolve(q) \/ Lookup(q) \/ AskPeers(q) \/ AskNodes(q)
              \/ AskBreaker(q) \/ Cat(q) \/ CatFails(q)

CNext == \/ \E q \in Request : Start(q) \/ Serving(q)
         \/ \E k \in DOMAIN entries : PeerGets(k)
         \/ Age

CSpec == CInit /\ [][CNext]_cvars

----------------------------------------------------------------------------
\* What has been used lately is found: an entry within its time to live is
\* not evicted before MaxEntries - 1 other keys were used.  (One less than the
\* capacity, since overwriting a key at capacity evicts another.)
RecentlyUsedKept ==
    \A k \in DOMAIN since \ stale :
        Cardinality(since[k]) < MaxEntries - 1 => k \in DOMAIN entries

\* Every request is answered, whatever its sources do and its names say.
RequestsEnd == \A q \in Request : req[q] # Idle ~> req[q] = Idle

\* "SPA fallback: if the subpath returned 404 ..., serve index.html instead":
\* a page of a site that IPFS holds is not answered with an error's text.
PageFallsBack ==
    \A k \in DOMAIN entries : k[2] \in Page => entries[k] # "error"
=============================================================================
