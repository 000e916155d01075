----------------------------- MODULE RateLimits -----------------------------
(***************************************************************************)
(* Admission of requests (gateway/src/rate_limit.rs,                       *)
(* distributed_rate_limit.rs): a window with burst tokens in memory, or a  *)
(* counter in Redis that expires.  The maps are keyed by the client and no *)
(* operation touches two clients, so there is one here.  Time is discrete; *)
(* Second units of it make one second.                                     *)
(***************************************************************************)
EXTENDS Integers, FiniteSets

CONSTANTS Limit,      \* requests per window
          Burst,      \* burst_size
          Second,     \* units of time in a second
          Window,     \* length of a window
          Keep,       \* an entry is kept for so long (120 s)
          LastTime, MaxChecks

\* An entry goes when its window is over and its tokens are renewed: the window
\* is a second, an entry is kept for 120.
ASSUME RateAssumption ==
    /\ Limit \in Nat /\ Burst \in Nat /\ Second \in Nat \ {0}
    /\ Window \in Nat \ {0} /\ Keep \in Nat /\ Keep >= Window + Second
    /\ LastTime \in Nat

VARIABLES backend,  \* "local", or "redis" when a Redis client is configured
          entry,    \* the client's ClientLimit, if it has one
          hits,     \* the counter in Redis: [count, expires]
          now,
          admitted, \* history: how many were admitted at each time
          refused,  \* history: the last request was refused
          faulty    \* history: a call of Redis has failed

rvars == <<backend, entry, hits, now, admitted, refused, faulty>>

NoEntry == [exists |-> FALSE]
Least(a, b) == IF a < b THEN a ELSE b
Admissions(from, to) == UNION { {t} \X (1..admitted[t]) : t \in from..to }
Sum(from, to) == Cardinality(Admissions(from, to))
AdmittedSince(t) == Sum(IF t < 0 THEN 0 ELSE t, now)
Requests == Sum(0, now)

RInit ==
    /\ backend \in {"local", "redis"}
    /\ entry = NoEntry
    /\ hits = [count |-> 0, expires |-> 0]
    /\ now = 0
    /\ admitted = [t \in 0..LastTime |-> 0]
    /\ refused = FALSE /\ faulty = FALSE

Count(ok) == /\ admitted' = [admitted EXCEPT ![now] = IF ok THEN @ + 1 ELSE @]
             /\ refused' = ~ok

\* check_limit: replenish, reset the window, then count or use a token.
CheckLimit ==
    LET e == IF entry.exists THEN entry
             ELSE [exists |-> TRUE, count |-> 0, start |-> now,
                   tokens |-> Burst, last |-> now]
        tokens == Least(e.tokens + ((now - e.last) * Burst) \div Second, Burst)
        over   == now - e.start > Window
        count  == IF over THEN 0 ELSE e.count
        within == count < Limit
        ok     == within \/ tokens > 0
    IN  /\ backend = "local" /\ Requests < MaxChecks
        /\ entry' = [exists |-> TRUE,
                     count  |-> IF ok THEN count + 1 ELSE count,
                     start  |-> IF over THEN now ELSE e.start,
                     tokens |-> IF ok /\ ~within THEN tokens - 1 ELSE tokens,
                     last   |-> now]
        /\ Count(ok)
        /\ UNCHANGED <<backend, hits, now, faulty>>

\* Mutant: entries go at any age.
CleanUpAll ==
    /\ entry.exists
    /\ entry' = NoEntry
    /\ UNCHANGED <<backend, hits, now, admitted, refused, faulty>>

\* cleanup_old_entries
CleanUp ==
    /\ entry.exists /\ now - entry.start >= Keep
    /\ entry' = NoEntry
    /\ UNCHANGED <<backend, hits, now, admitted, refused, faulty>>

\* INCR, of a key that may have expired; above the limit all counts are alike.
Incremented == IF now >= hits.expires THEN 1 ELSE Least(hits.count, Limit) + 1

\* check_redis_limit: INCR, and EXPIRE with the first.
RedisLimit ==
    LET count == Incremented
    IN  /\ backend = "redis" /\ Requests < MaxChecks
        /\ hits' = [count   |-> count,
                    expires |-> IF count = 1 THEN now + Window ELSE hits.expires]
        /\ Count(count <= Limit)
        /\ UNCHANGED <<backend, entry, now, faulty>>

\* The call fails, with or without having counted: the request is admitted.
RedisFails ==
    /\ backend = "redis" /\ Requests < MaxChecks
    /\ faulty' = TRUE /\ Count(TRUE)
    /\ \/ UNCHANGED hits
       \/ hits' = [count   |-> Incremented,
                   expires |-> IF Incremented = 1 THEN now + Window ELSE hits.expires]
    /\ UNCHANGED <<backend, entry, now>>

RTick == /\ now < LastTime /\ now' = now + 1 /\ refused' = FALSE
         /\ UNCHANGED <<backend, entry, hits, admitted, faulty>>

RNext == CheckLimit \/ CleanUp \/ RedisLimit \/ RedisFails \/ RTick

RSpec == RInit /\ [][RNext]_rvars

----------------------------------------------------------------------------
\* However the requests are placed around the ends of windows, renewals of
\* tokens and clean-ups, no stretch of one window's length admits more than
\* two windows' limits and the tokens there can be in it.
AdmittedBounded ==
    ~faulty =>
      AdmittedSince(now - Window) <=
         2 * Limit + (IF backend = "local"
                        THEN Burst + (Window * Burst) \div Second ELSE 0)

\* Nobody is refused who has not used up the limit within the last window.
RefusedOnlyOverLimit == refused => AdmittedSince(now - Window) >= Limit

\* The limit holds for the client, and against it only when it is used up.
LimitHolds == AdmittedBounded /\ RefusedOnlyOverLimit
=============================================================================
