------------------------------- MODULE ApiKeys -------------------------------
(***************************************************************************)
(* The API keys of gateways that share a Redis, or of gateways without one *)
(* (gateway/src/api_keys.rs).  No operation touches two keys, but for the  *)
(* limit on how many are created in a minute, which is left out: there is  *)
(* one key.  Each rotation gives it another hash.  A key that was created  *)
(* with a time to end does so by itself and is not modelled.               *)
(***************************************************************************)
EXTENDS Integers

CONSTANTS Gateway,
          Client,         \* the requests that can be in progress at once
          Ttl,            \* cache_ttl, in units of time (30 s)
          MaxHash,        \* bound on creation and rotations
          MaxRequests,    \* bound on the requests of a behaviour
          None

VARIABLES withRedis,      \* whether the gateways have a Redis
          stored,         \* apikeys:<id> in Redis: [hash, enabled], or None
          listed,         \* whether the id is a member of apikeys:list
          byHash,         \* keys_by_hash of a gateway: [enabled, age], or None
          byId,           \* id_to_hash of a gateway
          request,        \* what each client's request is about to do
          hashes,         \* how many hashes the key has had
          begun,          \* how many requests have begun
          quiet           \* history: the time since the key was revoked or deleted
                          \* while no other request was in progress, or None

keyVars == <<withRedis, stored, listed, byHash, byId, request, hashes,
             begun, quiet>>
copies  == <<byHash, byId>>
redisVars == <<withRedis, stored, listed>>

Hash == 1..MaxHash
NoRequest == [op |-> "none", step |-> "none"]
Busy == { c \in Client : request[c] # NoRequest }

\* A key as Redis has it, and as a gateway keeps it.
Key == [hash : Hash, enabled : BOOLEAN]
Entry == [enabled : BOOLEAN, age : 0..Ttl]

ASSUME BoundAssumption == Ttl \in Nat /\ MaxHash \in Nat \ {0} /\ MaxRequests \in Nat
ASSUME NoneAssumption == None \notin Nat \cup Key \cup Entry

Op == {"create", "validate", "revoke", "rotate", "delete"}
Step == {"set", "sadd", "local", "members", "get", "cache", "stamp", "accepted",
         "read", "write", "del", "srem"}
Operation == [op : Op, at : Gateway, step : Step, hash : Hash \cup {None},
              copy : Key \cup {None}, alone : BOOLEAN, lapsed : BOOLEAN]

KeysTypeOK ==
    /\ withRedis \in BOOLEAN /\ listed \in BOOLEAN
    /\ stored \in Key \cup {None}
    /\ byHash \in [Gateway -> [Hash -> Entry \cup {None}]]
    /\ byId \in [Gateway -> Hash \cup {None}]
    /\ request \in [Client -> Operation \cup {NoRequest}]
    /\ hashes \in 0..MaxHash /\ begun \in 0..MaxRequests
    /\ quiet \in 0..Ttl \cup {None}

\* The steps of each operation, and what it carries to them.
StepsOf(op) ==
    CASE op = "create" -> {"set", "sadd", "local"}
      [] op = "validate" -> {"members", "get", "cache", "stamp", "accepted"}
      [] op = "delete" -> {"del", "srem", "local"}
      [] OTHER -> {"read", "write", "local"}

Carries(r) ==
    /\ r.step \in StepsOf(r.op)
    /\ withRedis \/ r.step \in {"local", "read", "accepted"}
    /\ r.op \in {"create", "validate", "rotate"} => r.hash \in Hash
    /\ r.step \in {"write", "cache", "stamp"} => r.copy \in Key
    /\ r.op = "rotate" /\ r.step = "local" => r.copy \in Key

KeysFit == \A c \in Busy : Carries(request[c])

KeysInit ==
    /\ withRedis \in BOOLEAN
    /\ stored = None /\ listed = FALSE
    /\ byHash = [g \in Gateway |-> [h \in Hash |-> None]]
    /\ byId = [g \in Gateway |-> None]
    /\ request = [c \in Client |-> NoRequest]
    /\ hashes = 0 /\ begun = 0 /\ quiet = None

-----------------------------------------------------------------------------
\* A request of c begins, and those in progress are not alone any more.
Begin(c, op, g, step, h) ==
    /\ request[c] = NoRequest /\ begun < MaxRequests /\ begun' = begun + 1
    /\ request' = [d \in Client |->
           IF d = c THEN [op |-> op, at |-> g, step |-> step, hash |-> h, copy |-> None,
                          alone |-> Busy = {} /\ op \in {"revoke", "delete"},
                          lapsed |-> quiet = Ttl /\ op = "validate"]
           ELSE IF d \in Busy THEN [request[d] EXCEPT !.alone = FALSE]
           ELSE request[d]]

Carry(c, copy, step) == request' = [request EXCEPT ![c].copy = copy, ![c].step = step]
Proceed(c, step) == Carry(c, request[c].copy, step)
End(c) == request' = [request EXCEPT ![c] = NoRequest]

\* A revocation or deletion is answered with success.
Answer(c) ==
    /\ End(c)
    /\ quiet' = IF request[c].alone THEN 0 ELSE quiet

\* ApiKeyStore::add
Add(g, h, enabled) ==
    /\ byId' = [byId EXCEPT ![g] = h]
    /\ byHash' = [byHash EXCEPT ![g][h] = [enabled |-> enabled, age |-> 0]]

Create(c, g) ==
    /\ hashes = 0 /\ hashes' = 1
    /\ Begin(c, "create", g, IF withRedis THEN "set" ELSE "local", 1)
    /\ UNCHANGED <<redisVars, copies, quiet>>

Created(c) ==
    LET r == request[c] IN
    /\ r.op = "create"
    /\ \/ /\ r.step = "set" /\ stored' = [hash |-> r.hash, enabled |-> TRUE]
          /\ Proceed(c, "sadd") /\ UNCHANGED <<listed, copies>>
       \/ /\ r.step = "sadd" /\ listed' = TRUE
          /\ Proceed(c, "local") /\ UNCHANGED <<stored, copies>>
       \/ /\ r.step = "local" /\ Add(r.at, r.hash, TRUE)
          /\ End(c) /\ UNCHANGED <<stored, listed>>
    /\ UNCHANGED <<withRedis, hashes, begun, quiet>>

-----------------------------------------------------------------------------
\* Mutant: the age of a cached key is not looked at.
CachedEver(g, h) == byHash[g][h] # None /\ byHash[g][h].enabled

\* ApiKeyStore::get_by_hash finds the key, and it is valid.
Cached(g, h) ==
    /\ byHash[g][h] # None
    /\ byHash[g][h].enabled /\ byHash[g][h].age < Ttl

\* A request brings the key with hash h.  One that is refused at once is no step.
Validate(c, g, h) ==
    /\ h \in 1..hashes
    /\ \/ Cached(g, h) /\ Begin(c, "validate", g, "accepted", h)
       \/ ~Cached(g, h) /\ withRedis /\ Begin(c, "validate", g, "members", h)
    /\ UNCHANGED <<redisVars, copies, hashes, quiet>>

\* The list of keys is read, then the key; a valid one is kept locally, and
\* written back as it was read, with the time of its use.
Validating(c) ==
    LET r == request[c] IN
    /\ r.op = "validate"
    /\ \/ /\ r.step = "members"
          /\ IF listed THEN Proceed(c, "get") ELSE End(c)
          /\ UNCHANGED <<stored, copies>>
       \/ /\ r.step = "get"
          /\ IF stored = [hash |-> r.hash, enabled |-> TRUE]
             THEN Carry(c, stored, "cache")
             ELSE End(c)
          /\ UNCHANGED <<stored, copies>>
       \/ /\ r.step = "cache" /\ Add(r.at, r.hash, TRUE)
          /\ Proceed(c, "stamp") /\ UNCHANGED stored
       \/ /\ r.step = "stamp" /\ stored' \in {r.copy, stored}   \* or the write fails
          /\ Carry(c, None, "accepted")
          /\ UNCHANGED copies
       \/ /\ r.step = "accepted" /\ End(c)
          /\ UNCHANGED <<stored, copies>>
    /\ UNCHANGED <<withRedis, listed, hashes, begun, quiet>>

-----------------------------------------------------------------------------
\* The id is drawn at random: no request can name the key before its creation.
Revoke(c, g) ==
    /\ hashes > 0
    /\ Begin(c, "revoke", g, IF withRedis THEN "read" ELSE "local", None)
    /\ UNCHANGED <<redisVars, copies, hashes, quiet>>

Delete(c, g) ==
    /\ hashes > 0
    /\ Begin(c, "delete", g, IF withRedis THEN "del" ELSE "local", None)
    /\ UNCHANGED <<redisVars, copies, hashes, quiet>>

\* Rotating draws a new hash for the copy that get_key returns.
Rotate(c, g) ==
    /\ hashes \in 1..MaxHash - 1 /\ hashes' = hashes + 1
    /\ Begin(c, "rotate", g, "read", hashes + 1)
    /\ quiet' = None
    /\ UNCHANGED <<redisVars, copies>>

\* What get_by_id finds at gateway g.
Found(g) == byId[g] # None /\ byHash[g][byId[g]] # None

\* get_key: from Redis, or from the gateway's own store.
Read(c) ==
    LET r == request[c] IN
    /\ r.step = "read"
    /\ IF withRedis
       THEN IF stored = None THEN End(c)
            ELSE Carry(c, stored, "write")
       ELSE IF ~Found(r.at) THEN End(c)
            ELSE Carry(c, [hash    |-> byId[r.at],
                           enabled |-> byHash[r.at][byId[r.at]].enabled], "local")
    /\ UNCHANGED <<redisVars, copies, hashes, begun, quiet>>

Write(c) ==
    LET r == request[c] IN
    /\ r.step = "write" /\ Proceed(c, "local")
    /\ stored' = IF r.op = "revoke" THEN [r.copy EXCEPT !.enabled = FALSE]
                 ELSE [r.copy EXCEPT !.hash = r.hash]
    /\ UNCHANGED <<withRedis, listed, copies, hashes, begun, quiet>>

\* The gateway's own copy is disabled, if it has one; without a Redis the key
\* must be there.
RevokeLocal(c) ==
    LET g == request[c].at IN
    /\ request[c].op = "revoke" /\ request[c].step = "local"
    /\ \/ /\ Found(g) /\ byHash' = [byHash EXCEPT ![g][byId[g]].enabled = FALSE]
          /\ Answer(c)
       \/ /\ ~Found(g) /\ UNCHANGED byHash
          /\ IF withRedis THEN Answer(c) ELSE End(c) /\ UNCHANGED quiet
    /\ UNCHANGED <<redisVars, byId, hashes, begun>>

\* update_hash moves the gateway's own copy, as it is, to the new hash.
RotateLocal(c) ==
    LET r == request[c]
        g == r.at
        old == r.copy.hash
    IN  /\ r.op = "rotate" /\ r.step = "local" /\ End(c)
        /\ \/ /\ byHash[g][old] # None
              /\ byId' = [byId EXCEPT ![g] = r.hash]
              /\ byHash' = [byHash EXCEPT ![g][old] = None,
                     ![g][r.hash] = [enabled |-> byHash[g][old].enabled, age |-> 0]]
           \/ byHash[g][old] = None /\ UNCHANGED copies
        /\ UNCHANGED <<redisVars, hashes, begun, quiet>>

Remove(c) ==
    /\ request[c].step \in {"del", "srem"}
    /\ IF request[c].step = "del"
       THEN stored' = None /\ Proceed(c, "srem") /\ UNCHANGED listed
       ELSE listed' = FALSE /\ Proceed(c, "local") /\ UNCHANGED stored
    /\ UNCHANGED <<withRedis, copies, hashes, begun, quiet>>

\* A deletion succeeds whether there was a key or not.
DeleteLocal(c) ==
    LET g == request[c].at IN
    /\ request[c].op = "delete" /\ request[c].step = "local"
    /\ byId' = [byId EXCEPT ![g] = None]
    /\ byHash' = IF byId[g] = None THEN byHash ELSE [byHash EXCEPT ![g][byId[g]] = None]
    /\ Answer(c)
    /\ UNCHANGED <<redisVars, hashes, begun>>

\* A call to Redis fails, or the client is gone and the handler is dropped there.
Abandon(c) ==
    /\ request[c].step \in
           {"set", "sadd", "members", "get", "stamp", "read", "write", "del", "srem"}
    /\ withRedis /\ End(c)
    /\ UNCHANGED <<redisVars, copies, hashes, begun, quiet>>

\* Ages count up to Ttl, where an entry is too old.
Pass ==
    LET Older(age) == IF age < Ttl THEN age + 1 ELSE age IN
    /\ byHash' = [g \in Gateway |-> [h \in Hash |->
           IF byHash[g][h] = None THEN None
           ELSE [byHash[g][h] EXCEPT !.age = Older(@)]]]
    /\ quiet' = IF quiet = None THEN None ELSE Older(quiet)
    /\ UNCHANGED <<redisVars, byId, request, hashes, begun>>

KeysNext ==
    \/ \E c \in Client, g \in Gateway :
         \/ Create(c, g) \/ Revoke(c, g) \/ Delete(c, g) \/ Rotate(c, g)
         \/ \E h \in Hash : Validate(c, g, h)
    \/ \E c \in Client :
         \/ Created(c) \/ Validating(c) \/ Read(c) \/ Write(c) \/ Remove(c)
         \/ RevokeLocal(c) \/ RotateLocal(c) \/ DeleteLocal(c) \/ Abandon(c)
    \/ Pass

KeysSpec == KeysInit /\ [][KeysNext]_keyVars

-----------------------------------------------------------------------------
Disabled(key) == key = None \/ ~key.enabled

\* Why: the one who revokes or deletes alone leaves nothing in Redis ...
AloneRemoves ==
    \A c \in Busy : request[c].alone =>
        /\ Busy = {c} /\ request[c].op \in {"revoke", "delete"} /\ hashes > 0
        /\ request[c].step = "srem" => stored = None
        /\ request[c].step = "local" /\ withRedis => Disabled(stored)

\* ... then nothing that is in Redis or under way can bring the key back, ...
Dead ==
    /\ withRedis /\ hashes > 0 /\ Disabled(stored)
    /\ \A c \in Busy : /\ request[c].op # "create"
                       /\ request[c].step \notin {"cache", "stamp"}
                       /\ request[c].op # "revoke" => Disabled(request[c].copy)

\* ... and what the gateways have of it grows old.
Calm ==
    /\ hashes > 0
    /\ \A c \in Busy : /\ request[c].op \notin {"create", "rotate"}
                       /\ request[c].step \notin {"cache", "stamp"}

CopiesAge ==
    \A g \in Gateway, h \in Hash :
        byHash[g][h] # None /\ byHash[g][h].enabled => byHash[g][h].age >= quiet

Fades == quiet # None => (withRedis => Dead) /\ Calm /\ CopiesAge

LapsedIsDead ==
    \A c \in Busy : request[c].lapsed => Dead /\ request[c].step # "accepted"

(* A key that was revoked or deleted, with no other request in progress     *)
(* (one may write back what it had read), and that is not rotated after, is *)
(* accepted nowhere once the copies of the other gateways "must be          *)
(* re-validated" (api_keys.rs, cache_ttl), whatever hashes it had before.   *)
RevocationLasts ==
    \A c \in Client :
        request[c] # NoRequest /\ request[c].step = "accepted" => ~request[c].lapsed
=============================================================================
