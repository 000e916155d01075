------------------------------ MODULE SdkCache ------------------------------
(***************************************************************************)
(* The caches of the JavaScript SDK (sdk/src/cache.ts): three LRU caches,  *)
(* the deduplicator, and what fills the caches, which are the preloader    *)
(* and the cached fetch.  A step is what runs between two awaits; any      *)
(* number of promises may be waiting.  The gateway's answers are external. *)
(***************************************************************************)
EXTENDS Integers, Sequences, FiniteSets, SequencesExt

CONSTANTS ContentId, Url, FragmentId,
          Preload,       \* calls of preloadFragments, each made once at most
          Wanted,        \* the fragments that each of them is to load, in their
                         \* order in the manifest, which names each once
          Reader,        \* calls of the cached fetch, each made once at most
          Concurrency,   \* fragments that a call loads at a time
          Room,          \* maxSize of each cache
          Sizes,         \* sizes of what is put into a cache
          Ttl, Timeout,  \* lifetimes of an entry and of a pending request
          NoRequest

ASSUME CacheAssumption ==
    /\ IsFiniteSet(Preload) /\ Wanted \in [Preload -> Seq(FragmentId)]
    /\ Concurrency \in Nat \ {0}
    /\ Room \in Nat /\ Sizes \subseteq Nat /\ Ttl \in Nat /\ Timeout \in Nat
    /\ NoRequest \notin [by : Preload, age : Nat]

Kind == {"manifest", "fragment", "response"}

VARIABLES lru,           \* each LRUCache: entries, the one used last at the end,
                         \* and currentSize
          pending,       \* the deduplicator: the call whose factory answers for a
                         \* content, and since when
          factory,       \* the request for a manifest that each preload has made
          preload,       \* each preload: what it waits for and has still to load
          reading,       \* each cached fetch
          lost           \* history: how many pending requests of each content were
                         \* timed out or cancelled

cacheVars == <<lru, pending, factory, preload, reading, lost>>

CacheInit ==
    /\ lru = [k \in Kind |-> [entries |-> <<>>, total |-> 0]]
    /\ pending = [c \in ContentId |-> NoRequest]
    /\ factory = [p \in Preload |-> "none"]
    /\ preload = [p \in Preload |-> [step |-> "new"]]
    /\ reading = [q \in Reader |-> [step |-> "new"]]
    /\ lost = [c \in ContentId |-> 0]

-----------------------------------------------------------------------------
\* LRUCache

Sums(entries) ==
    LET upto[i \in 0 .. Len(entries)] ==
          IF i = 0 THEN 0 ELSE upto[i - 1] + entries[i].size
    IN  upto
SizeOf(entries) == Sums(entries)[Len(entries)]

Has(l, key) == \E i \in 1 .. Len(l.entries) : l.entries[i].key = key
PlaceOf(l, key) == CHOOSE i \in 1 .. Len(l.entries) : l.entries[i].key = key
EntryOf(l, key) == l.entries[PlaceOf(l, key)]

Deleted(l, key) ==
    IF ~Has(l, key) THEN l
    ELSE [entries |-> RemoveAt(l.entries, PlaceOf(l, key)),
          total   |-> l.total - EntryOf(l, key).size]

\* get finds the key, and it has not expired.
Hit(l, key) == Has(l, key) /\ EntryOf(l, key).age <= Ttl

\* get: an expired entry goes, another one moves to the end.
Got(l, key) ==
    IF Hit(l, key)
    THEN [l EXCEPT !.entries = Append(RemoveAt(@, PlaceOf(l, key)), EntryOf(l, key))]
    ELSE Deleted(l, key)

GotAll(l, keys) ==
    LET upto[i \in 0 .. Len(keys)] == IF i = 0 THEN l ELSE Got(upto[i - 1], keys[i])
    IN  upto[Len(keys)]

\* How many of the oldest entries have to go for one of the given size.
Evicted(l, size) ==
    CHOOSE n \in 0 .. Len(l.entries) :
        /\ n = Len(l.entries) \/ l.total - Sums(l.entries)[n] + size <= Room
        /\ \A m \in 0 .. n - 1 : l.total - Sums(l.entries)[m] + size > Room

\* What is put in last is put at the end.
Put(l, key, size) ==
    LET n == Evicted(l, size)
    IN  [entries |-> Append(SubSeq(l.entries, n + 1, Len(l.entries)),
                            [key |-> key, size |-> size, age |-> 0]),
         total   |-> l.total - Sums(l.entries)[n] + size]

\* Mutant: an entry that is replaced still counts.
SetOver(l, key, size) == Put([Deleted(l, key) EXCEPT !.total = l.total], key, size)

Set(l, key, size) == Put(Deleted(l, key), key, size)

\* cleanup deletes what it finds expired, one by one.
Cleaned(l) ==
    LET upto[i \in 0 .. Len(l.entries)] ==
          IF i = 0 THEN l
          ELSE IF l.entries[i].age > Ttl THEN Deleted(upto[i - 1], l.entries[i].key)
          ELSE upto[i - 1]
    IN  upto[Len(l.entries)]

CleanUp(k) ==
    /\ lru' = [lru EXCEPT ![k] = Cleaned(@)]
    /\ UNCHANGED <<pending, factory, preload, reading, lost>>

Clear ==
    /\ lru' = [k \in Kind |-> [entries |-> <<>>, total |-> 0]]
    /\ UNCHANGED <<pending, factory, preload, reading, lost>>

-----------------------------------------------------------------------------
\* RequestDeduplicator

\* The requests that dedupe's clean-up takes for dead.
TimedOut == { c \in ContentId : pending[c] # NoRequest /\ pending[c].age > Timeout }

Drop(contents) == [c \in ContentId |-> IF c \in contents THEN NoRequest ELSE pending[c]]

\* preloadManifest: dedupe answers with the pending request or makes one, whose
\* factory looks into the cache first.
Start(p, c) ==
    LET left == Drop(TimedOut) IN
    /\ preload[p].step = "new"
    /\ lost' = [d \in ContentId |-> IF d \in TimedOut THEN lost[d] + 1 ELSE lost[d]]
    /\ \/ /\ left[c] # NoRequest
          /\ preload' = [preload EXCEPT ![p] =
                             [step |-> "manifest", cid |-> c, by |-> left[c].by]]
          /\ pending' = left
          /\ UNCHANGED <<lru, factory>>
       \/ /\ left[c] = NoRequest
          /\ preload' = [preload EXCEPT ![p] =
                             [step |-> "manifest", cid |-> c, by |-> p]]
          /\ pending' = [left EXCEPT ![c] = [by |-> p, age |-> 0]]
          /\ lru' = [lru EXCEPT !["manifest"] = Got(@, c)]
          /\ factory' = [factory EXCEPT ![p] =
                             IF Hit(lru["manifest"], c) THEN "resolved" ELSE "fetching"]
    /\ UNCHANGED reading

\* The manifest arrives and is cached, or there is an error.
Manifest(p) ==
    /\ factory[p] = "fetching"
    /\ \/ /\ factory' = [factory EXCEPT ![p] = "resolved"]
          /\ \E size \in Sizes :
               lru' = [lru EXCEPT !["manifest"] = Set(@, preload[p].cid, size)]
       \/ factory' = [factory EXCEPT ![p] = "rejected"] /\ UNCHANGED lru
    /\ UNCHANGED <<pending, preload, reading, lost>>

\* finally: whichever request is pending by now is deleted.
Finally(p) ==
    /\ factory[p] \in {"resolved", "rejected"}
    /\ pending' = Drop({preload[p].cid})
    /\ factory' = [factory EXCEPT ![p] = IF @ = "resolved" THEN "ok" ELSE "error"]
    /\ UNCHANGED <<lru, preload, reading, lost>>

Cancel(c) ==
    /\ pending[c] # NoRequest
    /\ pending' = Drop({c})
    /\ lost' = [lost EXCEPT ![c] = @ + 1]
    /\ UNCHANGED <<lru, factory, preload, reading>>

-----------------------------------------------------------------------------
\* A call that loads the fragments of a content.
Loading(step, c, todo, loading) ==
    [step |-> step, cid |-> c, todo |-> todo, loading |-> loading]

\* preloadFragments has its manifest, or an error.
HasManifest(p) ==
    /\ preload[p].step = "manifest" /\ factory[preload[p].by] \in {"ok", "error"}
    /\ preload' = [preload EXCEPT ![p] =
           IF factory[preload[p].by] = "error" THEN [step |-> "over"]
           ELSE Loading("fragments", preload[p].cid, Wanted[p], {})]
    /\ UNCHANGED <<lru, pending, factory, reading, lost>>

\* The next fragments are asked for at once; those in the cache are there.
Chunk(p) ==
    LET r == preload[p]
        n == IF Len(r.todo) < Concurrency THEN Len(r.todo) ELSE Concurrency
        keys == [i \in 1 .. n |-> <<r.cid, r.todo[i]>>]
    IN  /\ r.step = "fragments" /\ r.loading = {} /\ r.todo # <<>>
        /\ preload' = [preload EXCEPT ![p] = Loading("fragments", r.cid,
               SubSeq(r.todo, n + 1, Len(r.todo)),
               {r.todo[i] : i \in {j \in 1 .. n : ~Hit(lru["fragment"], keys[j])}})]
        /\ lru' = [lru EXCEPT !["fragment"] = GotAll(@, keys)]
        /\ UNCHANGED <<pending, factory, reading, lost>>

\* A fragment arrives; one that is refused or fails its hash ends the call, and
\* what else is on its way still goes to the cache.
Loaded(p, f) ==
    LET r == preload[p] IN
    /\ r.step \in {"fragments", "failed"} /\ f \in r.loading
    /\ \/ /\ \E size \in Sizes :
               lru' = [lru EXCEPT !["fragment"] = Set(@, <<r.cid, f>>, size)]
          /\ preload' = [preload EXCEPT
                 ![p] = Loading(r.step, r.cid, r.todo, r.loading \ {f})]
       \/ /\ preload' = [preload EXCEPT
                 ![p] = Loading("failed", r.cid, r.todo, r.loading \ {f})]
          /\ UNCHANGED lru
    /\ UNCHANGED <<pending, factory, reading, lost>>

Done(p) ==
    /\ \/ preload[p].step = "fragments" /\ preload[p].todo = <<>> /\ preload[p].loading = {}
       \/ preload[p].step = "failed" /\ preload[p].loading = {}
    /\ preload' = [preload EXCEPT ![p] = [step |-> "over"]]
    /\ UNCHANGED <<lru, pending, factory, reading, lost>>

-----------------------------------------------------------------------------
\* createCachedFetch: two readers of one URL both fetch it; an answer is cached
\* unless its status forbids that.
CachedFetch(q, u) ==
    /\ reading[q].step = "new"
    /\ lru' = [lru EXCEPT !["response"] = Got(@, u)]
    /\ reading' = [reading EXCEPT ![q] =
           IF Hit(lru["response"], u) THEN [step |-> "over"]
           ELSE [step |-> "fetching", url |-> u]]
    /\ UNCHANGED <<pending, factory, preload, lost>>

Fetched(q) ==
    /\ reading[q].step = "fetching"
    /\ \/ \E size \in Sizes :
            lru' = [lru EXCEPT !["response"] = Set(@, reading[q].url, size)]
       \/ UNCHANGED lru
    /\ reading' = [reading EXCEPT ![q] = [step |-> "over"]]
    /\ UNCHANGED <<pending, factory, preload, lost>>

\* Ages count up to one more than a lifetime.
Older(e, life) == [e EXCEPT !.age = IF @ <= life THEN @ + 1 ELSE @]
Aged(l) == [l EXCEPT !.entries = [i \in 1 .. Len(@) |-> Older(@[i], Ttl)]]

Elapse ==
    /\ lru' = [k \in Kind |-> Aged(lru[k])]
    /\ pending' = [c \in ContentId |-> IF pending[c] = NoRequest THEN NoRequest
                                       ELSE Older(pending[c], Timeout)]
    /\ UNCHANGED <<factory, preload, reading, lost>>

CacheNext ==
    \/ \E k \in Kind : CleanUp(k)
    \/ Clear \/ Elapse
    \/ \E c \in ContentId : Cancel(c) \/ \E p \in Preload : Start(p, c)
    \/ \E p \in Preload :
         \/ Manifest(p) \/ Finally(p) \/ HasManifest(p) \/ Chunk(p) \/ Done(p)
         \/ \E f \in FragmentId : Loaded(p, f)
    \/ \E q \in Reader : Fetched(q) \/ \E u \in Url : CachedFetch(q, u)

CacheSpec == CacheInit /\ [][CacheNext]_cacheVars

-----------------------------------------------------------------------------
\* currentSize is the size of what is there, at most maxSize unless one entry
\* alone is larger.
SizesAddUp ==
    \A k \in Kind :
        /\ lru[k].total = SizeOf(lru[k].entries)
        /\ lru[k].total <= Room \/ Len(lru[k].entries) = 1

\* The requests of a content that are on their way.
Running(c) ==
    { p \in Preload : /\ factory[p] \in {"fetching", "resolved", "rejected"}
                      /\ preload[p].cid = c }

(* A manifest is asked for once at a time, and once more for each request    *)
(* that was given up before it ended, although a request that was given up  *)
(* deletes the one that has taken its place (cache.ts:352), which lets yet  *)
(* another begin; and the caches know their sizes and keep their limits     *)
(* whatever expires, is replaced or comes late.                             *)
CachesHold ==
    /\ SizesAddUp
    /\ \A c \in ContentId : Cardinality(Running(c)) <= 1 + lost[c]
=============================================================================
