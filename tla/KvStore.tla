------------------------------ MODULE KvStore ------------------------------
(***************************************************************************)
(* The gateway's stores for functions (gateway/src/kv_store.rs, secrets.rs *)
(* and their handlers in main.rs): maps of namespaces, each a map of keys. *)
(*                                                                         *)
(* Both are DashMaps of DashMaps, and a behaviour is about one of them:    *)
(* secrets have no lifetime, no limit on keys and no copy.  A guard of the *)
(* outer map is shared for get, delete and clean-up and exclusive for put, *)
(* which is all that keeps a put out of a look-up-and-remove.  The copies  *)
(* in Redis are written by spawned tasks, in any order, and nothing reads  *)
(* them back.                                                              *)
(***************************************************************************)
EXTENDS Integers, FiniteSets, Functions

CONSTANTS Worker, NoValue,
          Item,            \* the pairs of a namespace and a key that are in use
          Lifetimes,       \* lifetimes that a put may ask for, NoValue among them
          MaxKeys, MaxNamespaces,
          MaxTime, MaxPuts \* bounds of the model

ASSUME StoreAssumption ==
    /\ IsFiniteSet(Worker) /\ Worker # {}
    /\ NoValue \in Lifetimes /\ Lifetimes \subseteq Nat \cup {NoValue} /\ NoValue \notin Int
    /\ \A i \in Item : i = <<i[1], i[2]>>
    /\ MaxKeys \in Nat \ {0} /\ MaxNamespaces \in Nat \ {0}

VARIABLES service, \* "kv" or "secrets"
          kv,      \* [namespaces so far -> [keys -> [id, expires]]]
          call,    \* what each worker is in the middle of
          redis,   \* the copies: [namespace, key] -> id of a put, or NoValue
          late,    \* writes to Redis that are under way
          mixed,   \* keys with two writes under way at once, or a failed one
          clock, puts

kvars == <<service, kv, call, redis, late, mixed, clock, puts>>

NoCall == [op |-> "idle"]
Namespace == {i[1] : i \in Item}
Keys       == {i[2] : i \in Item}

Expired(e) == e.expires # NoValue /\ clock > e.expires
Has(n, k)  == n \in DOMAIN kv /\ k \in DOMAIN kv[n]
Live(n, k) == Has(n, k) /\ ~Expired(kv[n][k])

Removed(f, k)   == Restrict(f, DOMAIN f \ {k})
With(f, k, v)   == [x \in DOMAIN f \cup {k} |-> IF x = k THEN v ELSE f[x]]
Holding(n)      == {w \in Worker : call[w].op = "evict" /\ call[w].ns = n}

KvInit ==
    /\ service \in {"kv", "secrets"}
    /\ kv = <<>>
    /\ call = [w \in Worker |-> NoCall]
    /\ redis = [i \in Item |-> NoValue]
    /\ late = {} /\ mixed = {}
    /\ clock = 0 /\ puts = 0

\* A write to Redis is handed to a task of its own.
Persist(n, k, id, what) ==
    /\ late' = late \cup {[item |-> <<n, k>>, id |-> id, what |-> what]}
    /\ mixed' = mixed \cup {x.item : x \in {y \in late : y.item = <<n, k>>}}

\* put: the cap on namespaces, read before the guard is taken.
PutCheck(w, n, k) ==
    /\ call[w] = NoCall /\ puts < MaxPuts
    /\ n \in DOMAIN kv \/ Cardinality(DOMAIN kv) < MaxNamespaces
    /\ \E ttl \in IF service = "kv" THEN Lifetimes ELSE {NoValue} :
         call' = [call EXCEPT ![w] = [op |-> "put", ns |-> n, key |-> k,
                                      id |-> puts + 1, ttl |-> ttl]]
    /\ puts' = puts + 1
    /\ UNCHANGED <<service, kv, redis, late, mixed, clock>>

\* put: an entry of a key that exists, or that the limit leaves room for.
Insertion(w, limit) ==
    LET c  == call[w]
        ns == IF c.ns \in DOMAIN kv THEN kv[c.ns] ELSE <<>>
        e  == [id      |-> c.id,
               expires |-> IF c.ttl = NoValue THEN NoValue ELSE clock + c.ttl]
    IN  /\ service = "kv"
        /\ call' = [call EXCEPT ![w] = NoCall]
        /\ IF c.key \in DOMAIN ns \/ Cardinality(DOMAIN ns) < limit
             THEN /\ kv' = With(kv, c.ns, With(ns, c.key, e))
                  /\ Persist(c.ns, c.key, c.id, c.id)
             ELSE /\ kv' = With(kv, c.ns, ns)
                  /\ UNCHANGED <<late, mixed>>
        /\ UNCHANGED <<service, redis, clock, puts>>

\* Mutant: no guard keeps a removal out.
PutInsertFree(w) == call[w].op = "put" /\ Insertion(w, MaxKeys)

\* put: the cap on keys and the insertion, under the exclusive guard.
PutInsert(w) ==
    call[w].op = "put" /\ Holding(call[w].ns) = {} /\ Insertion(w, MaxKeys)

\* set_secret, after the same check.
SetSecret(w) ==
    LET c  == call[w]
        ns == IF c.ns \in DOMAIN kv THEN kv[c.ns] ELSE <<>>
    IN  /\ service = "secrets" /\ c.op = "put"
        /\ call' = [call EXCEPT ![w] = NoCall]
        /\ kv' = With(kv, c.ns, With(ns, c.key, [id |-> c.id, expires |-> NoValue]))
        /\ UNCHANGED <<service, redis, late, mixed, clock, puts>>

\* get finds an expired entry, and drops the entry's lock to remove it.
GetExpired(w, n, k) ==
    /\ call[w] = NoCall /\ Has(n, k) /\ Expired(kv[n][k])
    /\ call' = [call EXCEPT ![w] = [op |-> "evict", ns |-> n, keys |-> {k}]]
    /\ UNCHANGED <<service, kv, redis, late, mixed, clock, puts>>

\* cleanup_expired collects the expired keys of a namespace.
Collect(w, n) ==
    LET gone == {k \in Keys : Has(n, k) /\ Expired(kv[n][k])}
    IN  /\ call[w] = NoCall /\ gone # {}
        /\ call' = [call EXCEPT ![w] = [op |-> "evict", ns |-> n, keys |-> gone]]
        /\ UNCHANGED <<service, kv, redis, late, mixed, clock, puts>>

\* One key is removed; the guard goes with the last.
Evict(w) ==
    /\ call[w].op = "evict"
    /\ \E k \in call[w].keys :
         /\ kv' = [kv EXCEPT ![call[w].ns] = Removed(@, k)]
         /\ call' = [call EXCEPT ![w] = IF call[w].keys = {k} THEN NoCall
                                        ELSE [call[w] EXCEPT !.keys = @ \ {k}]]
    /\ UNCHANGED <<service, redis, late, mixed, clock, puts>>

DeleteKey(w, n, k) ==
    /\ call[w] = NoCall /\ Has(n, k)
    /\ kv' = [kv EXCEPT ![n] = Removed(@, k)]
    /\ IF service = "kv" THEN Persist(n, k, kv[n][k].id, NoValue)
                       ELSE UNCHANGED <<late, mixed>>
    /\ UNCHANGED <<service, call, redis, clock, puts>>

\* Redis applies a write, or the call fails and is logged.
RedisWrites(x) ==
    /\ late' = late \ {x}
    /\ \/ redis' = [redis EXCEPT ![x.item] = x.what] /\ UNCHANGED mixed
       \/ mixed' = mixed \cup {x.item} /\ UNCHANGED redis
    /\ UNCHANGED <<service, kv, call, clock, puts>>

Tick == /\ clock < MaxTime /\ clock' = clock + 1
        /\ UNCHANGED <<service, kv, call, redis, late, mixed, puts>>

KvNext ==
    \/ \E w \in Worker : PutInsert(w) \/ Evict(w) \/ SetSecret(w)
    \/ \E w \in Worker, n \in Namespace :
         \/ Collect(w, n)
         \/ \E k \in {x \in Keys : <<n, x>> \in Item} :
              PutCheck(w, n, k) \/ GetExpired(w, n, k) \/ DeleteKey(w, n, k)
    \/ \E x \in late : RedisWrites(x)
    \/ Tick

KvSpec == KvInit /\ [][KvNext]_kvars

----------------------------------------------------------------------------
\* The limit on keys is never passed, however many put at once
\* (kv_store.rs:97-100 expects an overshoot; the guard of entry() excludes it).
KeysBounded ==
    service = "kv" => \A n \in DOMAIN kv : Cardinality(DOMAIN kv[n]) <= MaxKeys

\* The cap on namespaces is read before the guard is taken: every other
\* writer may pass it once (kv_store.rs:83, secrets.rs:58).
NamespacesBounded ==
    Cardinality(DOMAIN kv) <= MaxNamespaces + Cardinality(Worker) - 1

\* Writes that never overlapped and never failed leave in Redis what the
\* store holds (kv_store.rs:126 spawns them without an order).
RedisFollows ==
    service = "kv" => \A n \in Namespace, k \in Keys :
        Has(n, k) /\ <<n, k>> \notin mixed
          /\ ~(\E x \in late : x.item = <<n, k>>)
        => redis[<<n, k>>] = kv[n][k].id

Bounded == KeysBounded /\ NamespacesBounded /\ RedisFollows

\* A value that has not expired leaves the store by a deletion alone, which
\* Redis is told of: get and clean-up decide that a key has expired and
\* remove it in two steps, and a put must not come in between.
LiveSurvives ==
    [][service = "kv" => \A n \in Namespace, k \in Keys :
         Live(n, k) /\ ~Has(n, k)' =>
           \E x \in late' \ late : x.item = <<n, k>> /\ x.what = NoValue]_kvars

(* The store never exceeds its limits by more than what is under way, its   *)
(* copy in Redis follows unless writes overtake one another, and a value    *)
(* that lives is not lost to an expiry (kv_store.rs:57, 83).                *)
StoreHolds == []Bounded /\ LiveSurvives
=============================================================================
