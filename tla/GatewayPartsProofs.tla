------------------------- MODULE GatewayPartsProofs -------------------------
(***************************************************************************)
(* Theorems about parts of a gateway.                                      *)
(*                                                                         *)
(* The circuit breaker, for any number of tasks and any threshold.         *)
(*                                                                         *)
(* A revocation or deletion of an API key lasts.  Types and what each      *)
(* request carries come first.  Then: a revocation that nothing disturbs   *)
(* leaves no valid key in Redis (AloneRemoves); where there is none and no *)
(* request has one in hand, there will be none (Dead), and no gateway gets *)
(* a fresh copy (Calm), so that the copies only age (CopiesAge); when they *)
(* are as old as the cache keeps them, no request that begins is accepted  *)
(* (LapsedIsDead).                                                         *)
(*                                                                         *)
(* A gateway follows its configuration file: Told.                         *)
(*                                                                         *)
(* The functions of a deployment are kept: RoomLeft and LatestLast.        *)
(*                                                                         *)
(* The stores of functions keep what was put: StoreInv.                    *)
(*                                                                         *)
(* A login gives one JWT at most: TokenSpent and CodeSpent.                *)
(*                                                                         *)
(* A rate limit holds: EntryCounts and CounterCounts.                      *)
(***************************************************************************)
EXTENDS CircuitBreaker, ApiKeys, ConfigReload, EdgeFunctions, KvStore, Login,
        RateLimits, FiniteSetTheorems, SequenceTheorems, TLAPS

-----------------------------------------------------------------------------
(* The circuit breaker.                                                    *)

LEMMA BumpType == ASSUME NEW n \in 0..Threshold PROVE Bump(n) \in 1..Threshold
BY ThresholdAssumption DEF Bump

(* The state of the breaker and of every task stays well formed.            *)
THEOREM BreakerType == Spec => []TypeOK
<1>1. ASSUME Init PROVE TypeOK
  <2>1. 0 \in 0..Threshold BY ThresholdAssumption
  <2>2. cooled \in BOOLEAN /\ up \in BOOLEAN BY <1>1 DEF Init
  <2> QED BY <1>1, <2>1, <2>2 DEF Init, TypeOK, States
<1>2. ASSUME TypeOK, [Next]_vars PROVE TypeOK'
  <2> USE <1>2, ThresholdAssumption DEF TypeOK, States, AllowSteps, RecordSteps,
                                        Goto, shared, locals, past
  <2>1. CASE UNCHANGED vars
    BY <2>1 DEF vars
  <2>2. ASSUME NEW t \in Task, Allow(t) \/ Probe(t) \/ GiveUp(t) PROVE TypeOK'
    BY <2>2 DEF Allow, Admit, SeeOpen, Refuse, TryAgain, Probe, GiveUp
  <2>3. ASSUME NEW t \in Task, Succeed(t) \/ Ignore(t) \/ Close(t) \/ Reset(t)
        PROVE TypeOK'
    BY <2>3 DEF Succeed, Ignore, Close, Reset
  <2>4. ASSUME NEW t \in Task, Fail(t) \/ Stamp(t) \/ Trip(t) PROVE TypeOK'
    BY <2>4 DEF Fail, Stamp, Trip
  <2>5. ASSUME NEW t \in Task, AddFailure(t) PROVE TypeOK'
    <3>1. failures' \in 0..Threshold /\ streak' \in 0..Threshold
      BY <2>5, BumpType DEF AddFailure
    <3> QED BY <2>5, <3>1 DEF AddFailure
  <2>6. CASE CoolDown \/ Service
    BY <2>6 DEF CoolDown, Service
  <2> QED BY <2>1, <2>2, <2>3, <2>4, <2>5, <2>6 DEF Next, Record
<1> QED BY <1>1, <1>2, PTL DEF Spec

-----------------------------------------------------------------------------

\* The state and the count agree.
Agree == state = "closed" <=> failures < Threshold

\* Whoever records is alone in the breaker ...
Alone ==
    \A t, u \in Task :
        pc[t] \in RecordSteps /\ u # t => pc[u] \notin AllowSteps \cup RecordSteps

\* ... and knows what the atomics hold.
Knows(t) ==
    /\ pc[t] = "elapsed" => state # "closed"
    /\ pc[t] = "ignore" => Agree
    /\ pc[t] = "close" => state = "halfOpen" /\ failures = Threshold
    /\ pc[t] = "reset" => state = "closed"
    /\ pc[t] = "add" => seen[t] = state /\ Agree
    /\ pc[t] = "stamp" => /\ seen[t] = state /\ count[t] = failures
                          /\ state # "closed" => failures = Threshold
    /\ pc[t] = "trip" => failures = Threshold

Locked == Alone /\ (\A t \in Task : Knows(t)) /\ (In(RecordSteps) = {} => Agree)

\* A step that changes neither the state nor the count, of a task that ends
\* up outside the breaker or asking, keeps the others as they were.
LEMMA OutsideSteps ==
    ASSUME Tracked, TypeOK, Locked, NEW t \in Task,
           Allow(t) \/ Probe(t) \/ GiveUp(t) \/ Ignore(t)
    PROVE  Locked'
<1> USE DEF TypeOK, AllowSteps, RecordSteps, In, Goto, shared, locals
<1>1. CASE Admit(t) \/ Refuse(t) \/ Probe(t) \/ GiveUp(t)
  <2>1. /\ UNCHANGED <<state, failures, seen, count>>
        /\ pc[t] \notin RecordSteps
        /\ \E step \in {"idle", "call"} : Goto(t, step)
    BY <1>1 DEF Admit, Refuse, Probe, GiveUp
  <2> QED BY <2>1 DEF Locked, Alone, Knows, Agree
<1>2. CASE SeeOpen(t)
  BY <1>2 DEF SeeOpen, MayRead, Locked, Alone, Knows, Agree
<1>3. CASE Ignore(t)
  BY <1>3 DEF Ignore, Locked, Alone, Knows, Agree
<1>4. CASE TryAgain(t)
  <2>1. In(RecordSteps) = {} BY <1>4 DEF TryAgain, Locked, Alone
  <2>2. failures = Threshold
    BY <1>4, <2>1, ThresholdAssumption DEF TryAgain, Locked, Knows, Agree
  <2> QED BY <1>4, <2>1, <2>2, ThresholdAssumption
          DEF TryAgain, Locked, Alone, Knows, Agree
<1> QED BY <1>1, <1>2, <1>3, <1>4 DEF Allow

LEMMA RecordingSteps ==
    ASSUME Tracked, TypeOK, Locked, NEW t \in Task, Record(t)
    PROVE  Locked'
<1> USE ThresholdAssumption
    DEF TypeOK, AllowSteps, RecordSteps, In, Goto, shared, locals
<1>1. CASE Succeed(t)
  BY <1>1 DEF Succeed, MayWrite, Locked, Alone, Knows, Agree, States
<1>2. CASE Ignore(t)
  BY <1>2, OutsideSteps
<1>3. CASE Close(t)
  BY <1>3 DEF Close, Locked, Alone, Knows, Agree
<1>4. CASE Reset(t)
  BY <1>4 DEF Reset, Locked, Alone, Knows, Agree
<1>5. CASE Fail(t)
  BY <1>5 DEF Fail, MayWrite, Locked, Alone, Knows, Agree
<1>6. CASE AddFailure(t)
  BY <1>6 DEF AddFailure, Bump, Locked, Alone, Knows, Agree
<1>7. CASE Stamp(t)
  BY <1>7 DEF Stamp, Locked, Alone, Knows, Agree, States
<1>8. CASE Trip(t)
  BY <1>8 DEF Trip, Locked, Alone, Knows, Agree
<1> QED BY <1>1, <1>2, <1>3, <1>4, <1>5, <1>6, <1>7, <1>8 DEF Record

LEMMA LockedStarts == Init => Locked
BY ThresholdAssumption DEF Init, Locked, Alone, Knows, Agree, AllowSteps, RecordSteps, In

LEMMA LockedStays ==
    ASSUME Tracked, TypeOK, Locked, [Next]_vars
    PROVE  Locked'
<1>1. ASSUME NEW t \in Task, Allow(t) \/ Probe(t) \/ GiveUp(t) \/ Record(t)
      PROVE Locked'
  BY <1>1, OutsideSteps, RecordingSteps
<1>2. CASE CoolDown \/ Service \/ UNCHANGED vars
  BY <1>2 DEF CoolDown, Service, vars, shared, locals, past, Locked, Alone, Knows, Agree, In
<1> QED BY <1>1, <1>2 DEF Next

(* Behind the tracker's lock, the breaker of a node is closed exactly while *)
(* fewer failures than the threshold have followed the last success.        *)
THEOREM TrackedIsConsistent == ASSUME Tracked PROVE Spec => []Consistent
<1>1. Locked => Consistent
  BY DEF Locked, Consistent, AtRest, In, Agree
<1> QED BY <1>1, LockedStarts, LockedStays, BreakerType, PTL DEF Spec

\* The failures since the last recovery are those that are counted.
Counted == streak = failures /\ \A t \in Task : pc[t] = "stamp" => nth[t] = count[t]

LEMMA CountedStays ==
    ASSUME Tracked, TypeOK, Locked, Counted, [Next]_vars
    PROVE  Counted'
<1> USE DEF TypeOK, Counted, Goto, shared, locals, past
<1>1. ASSUME NEW t \in Task, Allow(t) \/ Probe(t) \/ GiveUp(t) PROVE Counted'
  BY <1>1 DEF Allow, Admit, SeeOpen, Refuse, TryAgain, Probe, GiveUp
<1>2. ASSUME NEW t \in Task, Succeed(t) \/ Ignore(t) \/ Close(t) \/ Fail(t) \/ Stamp(t) \/ Trip(t)
      PROVE  Counted'
  BY <1>2 DEF Succeed, Ignore, Close, Fail, Stamp, Trip, States
<1>3. ASSUME NEW t \in Task, AddFailure(t) PROVE Counted'
  BY <1>3 DEF AddFailure
<1>4. ASSUME NEW t \in Task, Reset(t) PROVE Counted'
  <2>1. Recovery(t)
    BY <1>4 DEF Reset, Recovery, Locked, Alone, Knows, In, AllowSteps, RecordSteps
  <2> QED BY <1>4, <2>1 DEF Reset
<1>5. CASE CoolDown \/ Service \/ UNCHANGED vars
  BY <1>5 DEF CoolDown, Service, vars
<1> QED BY <1>1, <1>2, <1>3, <1>4, <1>5 DEF Next, Record

(* Behind the tracker's lock, nothing but the Threshold-th failure since the *)
(* last recovery opens the breaker.                                          *)
THEOREM OnlyThresholdOpens == ASSUME Tracked PROVE Spec => OpensAtThreshold
<1>1. Init => Counted
  BY DEF Init, Counted
<1>2. ASSUME TypeOK, Locked, Counted, [Next]_vars
      PROVE  [\A t \in In({"stamp"}) : pc'[t] = "trip" => nth[t] = Threshold]_vars
  <2>1. SUFFICES ASSUME NEW t \in Task, pc[t] = "stamp", pc'[t] = "trip"
                 PROVE  nth[t] = Threshold
    BY DEF In
  <2>2. ASSUME NEW u \in Task, Stamp(u) PROVE u = t
    BY <1>2, <2>1, <2>2 DEF Stamp, Locked, Alone, RecordSteps
  <2>3. Stamp(t)
    <3> USE <1>2, <2>1 DEF TypeOK, Goto
    <3>1. ASSUME NEW u \in Task, Allow(u) \/ Probe(u) \/ GiveUp(u) PROVE FALSE
      BY <3>1 DEF Allow, Admit, SeeOpen, Refuse, TryAgain, Probe, GiveUp
    <3>2. ASSUME NEW u \in Task, Succeed(u) \/ Ignore(u) \/ Close(u) \/ Reset(u) PROVE FALSE
      BY <3>2 DEF Succeed, Ignore, Close, Reset, States
    <3>3. ASSUME NEW u \in Task, Fail(u) \/ AddFailure(u) \/ Trip(u) PROVE FALSE
      BY <3>3 DEF Fail, AddFailure, Trip
    <3>4. ~(CoolDown \/ Service \/ UNCHANGED vars)
      BY DEF CoolDown, Service, vars
    <3> QED BY <2>2, <3>1, <3>2, <3>3, <3>4 DEF Next, Record
  <2>4. seen[t] # "closed" => failures = Threshold
    BY <1>2, <2>1 DEF Locked, Knows
  <2>5. seen[t] \in {"halfOpen", "closed"} /\ (seen[t] = "closed" => count[t] >= Threshold)
    BY <1>2, <2>1, <2>3 DEF Stamp, TypeOK, Goto
  <2> QED BY <1>2, <2>1, <2>4, <2>5, ThresholdAssumption DEF Locked, Knows, Counted, TypeOK
<1> QED BY <1>1, <1>2, LockedStarts, LockedStays, CountedStays, BreakerType, PTL
        DEF Spec, OpensAtThreshold

-----------------------------------------------------------------------------
(* API keys.                                                               *)

\* The inductive invariant.
KeyInv == KeysTypeOK /\ KeysFit /\ AloneRemoves /\ Fades /\ LapsedIsDead

-----------------------------------------------------------------------------
\* A client whose request has an operation or a step is busy with it.
LEMMA BusyIsOperation ==
    ASSUME KeysTypeOK, NEW c \in Client
    PROVE  /\ c \in Busy <=> request[c] \in Operation
           /\ c \notin Busy => request[c] = NoRequest
           /\ request[c].step \in Step => c \in Busy
           /\ request[c].op \in Op => c \in Busy
<1>1. NoRequest.op = "none" /\ NoRequest.step = "none" BY DEF NoRequest
<1>2. NoRequest \notin Operation BY <1>1 DEF Operation, Op
<1> QED BY <1>1, <1>2 DEF KeysTypeOK, Busy, Op, Step

\* Carry changes the copy and the step of one request, and nothing else.
LEMMA CarryFacts ==
    ASSUME KeysTypeOK, NEW c \in Busy, NEW copy \in Key \cup {None}, NEW step \in Step,
           Carry(c, copy, step)
    PROVE  /\ request' \in [Client -> Operation \cup {NoRequest}]
           /\ Busy' = Busy
           /\ \A d \in Client \ {c} : request'[d] = request[d]
           /\ request'[c].op = request[c].op
           /\ request'[c].at = request[c].at
           /\ request'[c].step = step
           /\ request'[c].hash = request[c].hash
           /\ request'[c].copy = copy
           /\ request'[c].alone = request[c].alone
           /\ request'[c].lapsed = request[c].lapsed
<1>1. c \in Client BY DEF Busy
<1>2. request[c] \in Operation BY <1>1, BusyIsOperation
<1> DEFINE r == [[request[c] EXCEPT !.copy = copy] EXCEPT !.step = step]
<1>3. r \in Operation BY <1>2 DEF Operation
<1>4. /\ r.op = request[c].op /\ r.at = request[c].at /\ r.step = step
      /\ r.hash = request[c].hash /\ r.copy = copy /\ r.alone = request[c].alone
      /\ r.lapsed = request[c].lapsed
  BY <1>2 DEF Operation
<1>5. request' = [request EXCEPT ![c] = r]
  BY <1>1, <1>2 DEF Carry, KeysTypeOK
<1> HIDE DEF r
<1>6. request'[c] = r /\ \A d \in Client \ {c} : request'[d] = request[d]
  BY <1>1, <1>5 DEF KeysTypeOK
<1>7. request' \in [Client -> Operation \cup {NoRequest}]
  BY <1>1, <1>3, <1>5 DEF KeysTypeOK
<1>8. NoRequest \notin Operation
  <2>1. NoRequest.op = "none" BY DEF NoRequest
  <2> QED BY <2>1 DEF Operation, Op
<1>9. Busy' = Busy BY <1>1, <1>2, <1>3, <1>6, <1>8 DEF Busy
<1> QED BY <1>4, <1>6, <1>7, <1>9

\* End makes one client free.
LEMMA EndFacts ==
    ASSUME KeysTypeOK, NEW c \in Client, End(c)
    PROVE  /\ request' \in [Client -> Operation \cup {NoRequest}]
           /\ Busy' = Busy \ {c}
           /\ \A d \in Client \ {c} : request'[d] = request[d]
BY DEF End, KeysTypeOK, Busy

\* Begin makes one client busy with what it says; the others stay as they are,
\* but are not alone.
LEMMA BeginFacts ==
    ASSUME KeysTypeOK, NEW c \in Client, NEW op \in Op, NEW g \in Gateway, NEW step \in Step,
           NEW h \in Hash \cup {None}, Begin(c, op, g, step, h)
    PROVE  /\ request' \in [Client -> Operation \cup {NoRequest}]
           /\ begun' \in 0..MaxRequests
           /\ Busy' = Busy \cup {c} /\ c \notin Busy
           /\ request'[c].op = op /\ request'[c].step = step
           /\ request'[c].hash = h /\ request'[c].copy = None
           /\ request'[c].alone => Busy = {} /\ op \in {"revoke", "delete"}
           /\ request'[c].lapsed => quiet = Ttl /\ op = "validate"
           /\ \A d \in Busy : /\ request'[d].op = request[d].op
                              /\ request'[d].at = request[d].at
                              /\ request'[d].step = request[d].step
                              /\ request'[d].hash = request[d].hash
                              /\ request'[d].copy = request[d].copy
                              /\ ~request'[d].alone
                              /\ request'[d].lapsed = request[d].lapsed
<1> DEFINE a == Busy = {} /\ op \in {"revoke", "delete"}
           l == quiet = Ttl /\ op = "validate"
           r == [op |-> op, at |-> g, step |-> step, hash |-> h, copy |-> None,
                 alone |-> a, lapsed |-> l]
<1>1. r \in Operation BY DEF Operation
<1>2. request'[c] = r BY DEF Begin
<1> HIDE DEF a, l
<1>0. r.alone = a /\ r.lapsed = l OBVIOUS
<1> HIDE DEF r
<1>3. NoRequest \notin Operation
  <2>1. NoRequest.op = "none" BY DEF NoRequest
  <2> QED BY <2>1 DEF Operation, Op
<1>4. c \notin Busy BY DEF Begin, Busy
<1>5. ASSUME NEW d \in Busy
      PROVE  /\ request'[d] = [request[d] EXCEPT !.alone = FALSE]
             /\ request[d] \in Operation
             /\ request'[d] \in Operation
  <2>1. d \in Client /\ d # c BY <1>4 DEF Busy
  <2>2. request[d] \in Operation BY <2>1, BusyIsOperation
  <2>3. request'[d] = [request[d] EXCEPT !.alone = FALSE] BY <2>1, <2>2 DEF Begin
  <2> QED BY <2>2, <2>3 DEF Operation
<1>6. \A d \in Client \ Busy : d # c => request'[d] = NoRequest
  BY DEF Begin, Busy
<1>7. request' \in [Client -> Operation \cup {NoRequest}]
  <2>1. \A d \in Client : request'[d] \in Operation \cup {NoRequest} BY <1>1, <1>2, <1>5, <1>6
  <2>2. request' = [d \in Client |-> request'[d]] BY DEF Begin
  <2> QED BY <2>1, <2>2
<1>8. Busy' = Busy \cup {c} BY <1>1, <1>2, <1>3, <1>4, <1>5, <1>6 DEF Busy
<1>9. \A d \in Busy : /\ request'[d].op = request[d].op
                      /\ request'[d].at = request[d].at
                      /\ request'[d].step = request[d].step
                      /\ request'[d].hash = request[d].hash
                      /\ request'[d].copy = request[d].copy
                      /\ ~request'[d].alone
                      /\ request'[d].lapsed = request[d].lapsed
  BY <1>5 DEF Operation
<1>10. begun' \in 0..MaxRequests BY BoundAssumption DEF Begin, KeysTypeOK
<1>11. /\ request'[c].op = op /\ request'[c].step = step
       /\ request'[c].hash = h /\ request'[c].copy = None
  BY <1>2 DEF r
<1>12. request'[c].alone => Busy = {} /\ op \in {"revoke", "delete"}
  <2>1. request'[c].alone => a BY <1>0, <1>2, Zenon
  <2> QED BY <2>1 DEF a
<1>13. request'[c].lapsed => quiet = Ttl /\ op = "validate"
  <2>1. request'[c].lapsed => l BY <1>0, <1>2, Zenon
  <2> QED BY <2>1 DEF l
<1> QED BY <1>4, <1>7, <1>8, <1>9, <1>10, <1>11, <1>12, <1>13

-----------------------------------------------------------------------------
(* Types, and what requests carry.                                         *)

\* A request that goes on to a step of its operation carries what that needs.
LEMMA CarryFits ==
    ASSUME KeysTypeOK, KeysFit, withRedis' = withRedis,
           NEW c \in Busy, NEW copy \in Key \cup {None}, NEW step \in Step,
           Carry(c, copy, step),
           step \in StepsOf(request[c].op),
           withRedis \/ step \in {"local", "read", "accepted"},
           step \in {"write", "cache", "stamp"} => copy \in Key,
           request[c].op = "rotate" /\ step = "local" => copy \in Key
    PROVE  KeysFit'
<1> USE CarryFacts
<1> SUFFICES ASSUME NEW d \in Busy' PROVE Carries(request[d])' BY DEF KeysFit
<1>1. CASE d = c BY <1>1 DEF KeysFit, Carries
<1>2. CASE d # c BY <1>2 DEF KeysFit, Carries, Busy
<1> QED BY <1>1, <1>2

\* What the others carry stays.
LEMMA EndFits ==
    ASSUME KeysTypeOK, KeysFit, withRedis' = withRedis, NEW c \in Client, End(c)
    PROVE  KeysFit'
<1> SUFFICES ASSUME NEW d \in Busy' PROVE Carries(request[d])' BY DEF KeysFit
<1> QED BY EndFacts DEF KeysFit, Carries, Busy

\* A request that begins has nothing to carry.
LEMMA BeginFits ==
    ASSUME KeysTypeOK, KeysFit, withRedis' = withRedis,
           NEW c \in Client, NEW op \in Op, NEW g \in Gateway, NEW step \in Step,
           NEW h \in Hash \cup {None}, Begin(c, op, g, step, h),
           step \in StepsOf(op) \ {"write", "cache", "stamp"},
           withRedis \/ step \in {"local", "read", "accepted"},
           op \in {"create", "validate", "rotate"} => h \in Hash,
           op = "rotate" => step # "local"
    PROVE  KeysFit'
<1> SUFFICES ASSUME NEW d \in Busy' PROVE Carries(request[d])' BY DEF KeysFit
<1>1. CASE d = c
  <2>1. /\ request'[c].op = op /\ request'[c].step = step
        /\ request'[c].hash = h /\ request'[c].copy = None
    BY BeginFacts
  <2>2. Carries(request[c])'
    BY <2>1 DEF Carries
  <2> QED BY <1>1, <2>2
<1>2. CASE d # c BY <1>2, BeginFacts DEF KeysFit, Carries, Busy
<1> QED BY <1>1, <1>2

\* The local copy that ApiKeyStore::add makes is an entry of age 0.
LEMMA AddType ==
    ASSUME KeysTypeOK, NEW g \in Gateway, NEW h \in Hash, NEW e \in BOOLEAN, Add(g, h, e)
    PROVE  /\ byHash' \in [Gateway -> [Hash -> Entry \cup {None}]]
           /\ byId' \in [Gateway -> Hash \cup {None}]
<1>1. [enabled |-> e, age |-> 0] \in Entry BY BoundAssumption DEF Entry
<1> QED BY <1>1 DEF Add, KeysTypeOK

\* Every step keeps the types, and what requests carry.
LEMMA KeyTypeNext == KeysTypeOK /\ KeysFit /\ [KeysNext]_keyVars => KeysTypeOK' /\ KeysFit'
<1> SUFFICES ASSUME KeysTypeOK, KeysFit, [KeysNext]_keyVars PROVE KeysTypeOK' /\ KeysFit'
  OBVIOUS
<1> USE BoundAssumption, NoneAssumption
<1>1. CASE UNCHANGED keyVars
  <2>1. KeysTypeOK' BY <1>1 DEF keyVars, KeysTypeOK
  <2>2. KeysFit' BY <1>1 DEF keyVars, KeysFit, Carries, Busy
  <2> QED BY <2>1, <2>2
<1>2. ASSUME NEW c \in Client, NEW g \in Gateway, Create(c, g) PROVE KeysTypeOK' /\ KeysFit'
  <2> DEFINE step == IF withRedis THEN "set" ELSE "local"
  <2>1. 1 \in Hash BY DEF Hash
  <2>2. step \in Step /\ step \in StepsOf("create") /\ "create" \in Op
    BY DEF Step, StepsOf, Op
  <2>3. Begin(c, "create", g, step, 1) /\ withRedis' = withRedis
    BY <1>2 DEF Create, redisVars
  <2>4. KeysFit' BY <2>1, <2>2, <2>3, BeginFits
  <2>5. /\ request' \in [Client -> Operation \cup {NoRequest}]
        /\ begun' \in 0..MaxRequests
    BY <2>1, <2>2, <2>3, BeginFacts
  <2>6. KeysTypeOK'
    BY <1>2, <2>5 DEF Create, KeysTypeOK, redisVars, copies
  <2> QED BY <2>4, <2>6
<1>3. ASSUME NEW c \in Client, NEW g \in Gateway, Revoke(c, g) PROVE KeysTypeOK' /\ KeysFit'
  <2> DEFINE step == IF withRedis THEN "read" ELSE "local"
  <2>1. step \in Step /\ step \in StepsOf("revoke") /\ "revoke" \in Op
    BY DEF Step, StepsOf, Op
  <2>2. Begin(c, "revoke", g, step, None) /\ withRedis' = withRedis
    BY <1>3 DEF Revoke, redisVars
  <2>3. KeysFit' BY <2>1, <2>2, BeginFits
  <2>4. KeysTypeOK'
    BY <1>3, <2>1, <2>2, BeginFacts DEF Revoke, KeysTypeOK, redisVars, copies
  <2> QED BY <2>3, <2>4
<1>4. ASSUME NEW c \in Client, NEW g \in Gateway, Delete(c, g) PROVE KeysTypeOK' /\ KeysFit'
  <2> DEFINE step == IF withRedis THEN "del" ELSE "local"
  <2>1. step \in Step /\ step \in StepsOf("delete") /\ "delete" \in Op
    BY DEF Step, StepsOf, Op
  <2>2. Begin(c, "delete", g, step, None) /\ withRedis' = withRedis
    BY <1>4 DEF Delete, redisVars
  <2>3. KeysFit' BY <2>1, <2>2, BeginFits
  <2>4. KeysTypeOK'
    BY <1>4, <2>1, <2>2, BeginFacts DEF Delete, KeysTypeOK, redisVars, copies
  <2> QED BY <2>3, <2>4
<1>5. ASSUME NEW c \in Client, NEW g \in Gateway, Rotate(c, g) PROVE KeysTypeOK' /\ KeysFit'
  <2>1. hashes + 1 \in Hash /\ hashes' \in 0..MaxHash BY <1>5 DEF Rotate, Hash
  <2>2. "read" \in Step /\ "read" \in StepsOf("rotate") /\ "rotate" \in Op
    BY DEF Step, StepsOf, Op
  <2>3. Begin(c, "rotate", g, "read", hashes + 1) /\ withRedis' = withRedis
    BY <1>5 DEF Rotate, redisVars
  <2>4. KeysFit' BY <2>1, <2>2, <2>3, BeginFits
  <2>5. KeysTypeOK'
    BY <1>5, <2>1, <2>2, <2>3, BeginFacts DEF Rotate, KeysTypeOK, redisVars, copies
  <2> QED BY <2>4, <2>5
<1>6. ASSUME NEW c \in Client, NEW g \in Gateway, NEW h \in Hash, Validate(c, g, h)
      PROVE  KeysTypeOK' /\ KeysFit'
  <2>1. PICK step \in {"accepted", "members"} :
           Begin(c, "validate", g, step, h) /\ (withRedis \/ step = "accepted")
    BY <1>6 DEF Validate
  <2>2. step \in Step /\ step \in StepsOf("validate") /\ "validate" \in Op
    BY DEF Step, StepsOf, Op
  <2>3. withRedis' = withRedis BY <1>6 DEF Validate, redisVars
  <2>4. KeysFit' BY <2>1, <2>2, <2>3, BeginFits
  <2>5. KeysTypeOK'
    BY <1>6, <2>1, <2>2, BeginFacts DEF Validate, KeysTypeOK, redisVars, copies
  <2> QED BY <2>4, <2>5
<1>7. ASSUME NEW c \in Client, Created(c) PROVE KeysTypeOK' /\ KeysFit'
  <2>1. c \in Busy /\ request[c] \in Operation
    BY <1>7, BusyIsOperation DEF Created, Op
  <2>2. request[c].copy \in Key \cup {None} /\ request[c].at \in Gateway BY <2>1 DEF Operation
  <2>3. request[c].hash \in Hash BY <1>7, <2>1 DEF Created, KeysFit, Carries
  <2>4. withRedis' = withRedis BY <1>7 DEF Created
  <2>5. {"sadd", "local"} \subseteq StepsOf("create") \cap Step BY DEF StepsOf, Step
  <2>6. CASE request[c].step = "set"
    <3>1. Proceed(c, "sadd") /\ withRedis
      BY <1>7, <2>1, <2>6 DEF Created, KeysFit, Carries
    <3>2. KeysFit' BY <1>7, <2>1, <2>2, <2>4, <2>5, <3>1, CarryFits DEF Created, Proceed
    <3>3. request' \in [Client -> Operation \cup {NoRequest}]
      BY <2>1, <2>2, <2>5, <3>1, CarryFacts DEF Proceed
    <3>4. stored' \in Key
      <4>1. stored' = [hash |-> request[c].hash, enabled |-> TRUE]
        BY <1>7, <2>6 DEF Created
      <4> QED BY <2>3, <4>1 DEF Key
    <3> QED BY <1>7, <2>6, <3>2, <3>3, <3>4 DEF Created, KeysTypeOK, copies
  <2>7. CASE request[c].step = "sadd"
    <3>1. Proceed(c, "local") BY <1>7, <2>7 DEF Created
    <3>2. KeysFit' BY <1>7, <2>1, <2>2, <2>4, <2>5, <3>1, CarryFits DEF Created, Proceed
    <3>3. request' \in [Client -> Operation \cup {NoRequest}]
      BY <2>1, <2>2, <2>5, <3>1, CarryFacts DEF Proceed
    <3> QED BY <1>7, <2>7, <3>2, <3>3 DEF Created, KeysTypeOK, copies
  <2>8. CASE request[c].step = "local"
    <3>1. End(c) /\ Add(request[c].at, request[c].hash, TRUE) BY <1>7, <2>8 DEF Created
    <3>2. KeysFit' BY <2>4, <3>1, EndFits
    <3>3. request' \in [Client -> Operation \cup {NoRequest}] BY <3>1, EndFacts
    <3>4. /\ byHash' \in [Gateway -> [Hash -> Entry \cup {None}]]
          /\ byId' \in [Gateway -> Hash \cup {None}]
      BY <2>2, <2>3, <3>1, AddType
    <3> QED BY <1>7, <2>8, <3>2, <3>3, <3>4 DEF Created, KeysTypeOK
  <2> QED BY <1>7, <2>6, <2>7, <2>8 DEF Created
<1>8. ASSUME NEW c \in Client, Validating(c) PROVE KeysTypeOK' /\ KeysFit'
  <2>1. c \in Busy /\ request[c] \in Operation
    BY <1>8, BusyIsOperation DEF Validating, Op
  <2>2. request[c].copy \in Key \cup {None} /\ request[c].at \in Gateway BY <2>1 DEF Operation
  <2>3. request[c].hash \in Hash BY <1>8, <2>1 DEF Validating, KeysFit, Carries
  <2>4. withRedis' = withRedis BY <1>8 DEF Validating
  <2>5. {"get", "cache", "stamp", "accepted"} \subseteq StepsOf("validate") \cap Step
    BY DEF StepsOf, Step
  <2>6. ASSUME End(c) PROVE KeysFit' /\ request' \in [Client -> Operation \cup {NoRequest}]
    BY <2>4, <2>6, EndFits, EndFacts
  <2>7. ASSUME NEW copy \in Key \cup {None},
               NEW step \in {"get", "cache", "stamp", "accepted"},
               Carry(c, copy, step), withRedis,
               step \in {"cache", "stamp"} => copy \in Key
        PROVE  KeysFit' /\ request' \in [Client -> Operation \cup {NoRequest}]
    BY <1>8, <2>1, <2>4, <2>5, <2>7, CarryFits, CarryFacts DEF Validating
  <2>8. CASE request[c].step = "members"
    <3>1. KeysFit' /\ request' \in [Client -> Operation \cup {NoRequest}]
      <4>1. withRedis BY <2>1, <2>8 DEF KeysFit, Carries
      <4>2. End(c) \/ Carry(c, request[c].copy, "get")
        BY <1>8, <2>8 DEF Validating, Proceed
      <4>3. CASE Carry(c, request[c].copy, "get") BY <2>2, <2>7, <4>1, <4>3
      <4> QED BY <2>6, <4>2, <4>3
    <3> QED BY <1>8, <2>8, <3>1 DEF Validating, KeysTypeOK, copies
  <2>9. CASE request[c].step = "get"
    <3>1. KeysFit' /\ request' \in [Client -> Operation \cup {NoRequest}]
      <4>1. withRedis BY <2>1, <2>9 DEF KeysFit, Carries
      <4>2. End(c) \/ Carry(c, stored, "cache") BY <1>8, <2>9 DEF Validating
      <4>3. CASE Carry(c, stored, "cache") /\ ~End(c)
        <5>1. stored = [hash |-> request[c].hash, enabled |-> TRUE]
          BY <1>8, <2>9, <4>3 DEF Validating
        <5>2. stored \in Key BY <2>3, <5>1 DEF Key
        <5> QED BY <2>7, <4>1, <4>3, <5>2
      <4> QED BY <2>6, <4>2, <4>3
    <3> QED BY <1>8, <2>9, <3>1 DEF Validating, KeysTypeOK, copies
  <2>10. CASE request[c].step = "cache"
    <3>1. KeysFit' /\ request' \in [Client -> Operation \cup {NoRequest}]
      <4>1. withRedis /\ request[c].copy \in Key BY <2>1, <2>10 DEF KeysFit, Carries
      <4>2. Carry(c, request[c].copy, "stamp") BY <1>8, <2>10 DEF Validating, Proceed
      <4> QED BY <2>7, <4>1, <4>2
    <3>2. /\ byHash' \in [Gateway -> [Hash -> Entry \cup {None}]]
          /\ byId' \in [Gateway -> Hash \cup {None}]
      BY <1>8, <2>2, <2>3, <2>10, AddType DEF Validating
    <3> QED BY <1>8, <2>10, <3>1, <3>2 DEF Validating, KeysTypeOK
  <2>11. CASE request[c].step = "stamp"
    <3>1. KeysFit' /\ request' \in [Client -> Operation \cup {NoRequest}]
      <4>1. withRedis BY <2>1, <2>11 DEF KeysFit, Carries
      <4>2. Carry(c, None, "accepted") BY <1>8, <2>11 DEF Validating
      <4> QED BY <2>7, <4>1, <4>2
    <3>2. stored' \in Key \cup {None} BY <1>8, <2>2, <2>11 DEF Validating, KeysTypeOK
    <3> QED BY <1>8, <2>11, <3>1, <3>2 DEF Validating, KeysTypeOK, copies
  <2>12. CASE request[c].step = "accepted"
    <3>1. KeysFit' /\ request' \in [Client -> Operation \cup {NoRequest}]
      BY <1>8, <2>6, <2>12 DEF Validating
    <3> QED BY <1>8, <2>12, <3>1 DEF Validating, KeysTypeOK, copies
  <2> QED BY <1>8, <2>8, <2>9, <2>10, <2>11, <2>12 DEF Validating
<1>9. ASSUME NEW c \in Client, Read(c) PROVE KeysTypeOK' /\ KeysFit'
  <2>1. c \in Busy /\ request[c] \in Operation
    BY <1>9, BusyIsOperation DEF Read, Step
  <2>2. request[c].at \in Gateway /\ request[c].op \in {"revoke", "rotate"}
    BY <1>9, <2>1 DEF Read, Operation, Op, KeysFit, Carries, StepsOf
  <2>3. withRedis' = withRedis BY <1>9 DEF Read, redisVars
  <2>4. KeysFit' /\ request' \in [Client -> Operation \cup {NoRequest}]
    <3>1. ASSUME End(c) PROVE KeysFit' /\ request' \in [Client -> Operation \cup {NoRequest}]
      BY <2>3, <3>1, EndFits, EndFacts
    <3>2. ASSUME NEW copy \in Key, NEW step \in {"write", "local"},
                 Carry(c, copy, step), withRedis \/ step = "local"
          PROVE  KeysFit' /\ request' \in [Client -> Operation \cup {NoRequest}]
      <4>1. step \in Step /\ step \in StepsOf(request[c].op) BY <2>2 DEF Step, StepsOf
      <4> QED BY <2>1, <2>3, <3>2, <4>1, CarryFits, CarryFacts
    <3>3. Found(request[c].at) =>
             [hash    |-> byId[request[c].at],
              enabled |-> byHash[request[c].at][byId[request[c].at]].enabled] \in Key
      BY <2>2 DEF Found, KeysTypeOK, Key, Entry
    <3> QED BY <1>9, <3>1, <3>2, <3>3 DEF Read, KeysTypeOK
  <2> QED BY <1>9, <2>4 DEF Read, KeysTypeOK, redisVars, copies
<1>10. ASSUME NEW c \in Client, Write(c) PROVE KeysTypeOK' /\ KeysFit'
  <2>1. c \in Busy /\ request[c] \in Operation
    BY <1>10, BusyIsOperation DEF Write, Step
  <2>2. /\ request[c].op \in {"revoke", "rotate"} /\ request[c].copy \in Key
        /\ request[c].op = "rotate" => request[c].hash \in Hash
    BY <1>10, <2>1 DEF Write, Operation, Op, KeysFit, Carries, StepsOf
  <2>3. Carry(c, request[c].copy, "local") /\ withRedis' = withRedis
    BY <1>10 DEF Write, Proceed
  <2>4. "local" \in Step /\ "local" \in StepsOf(request[c].op) BY <2>2 DEF Step, StepsOf
  <2>5. KeysFit' /\ request' \in [Client -> Operation \cup {NoRequest}]
    BY <2>1, <2>2, <2>3, <2>4, CarryFits, CarryFacts
  <2>6. stored' \in Key BY <1>10, <2>2 DEF Write, Key
  <2> QED BY <1>10, <2>5, <2>6 DEF Write, KeysTypeOK, copies
<1>11. ASSUME NEW c \in Client, Remove(c) PROVE KeysTypeOK' /\ KeysFit'
  <2>1. c \in Busy /\ request[c] \in Operation
    BY <1>11, BusyIsOperation DEF Remove, Step
  <2>2. request[c].copy \in Key \cup {None} /\ request[c].op = "delete" /\ withRedis
    BY <1>11, <2>1 DEF Remove, Operation, Op, KeysFit, Carries, StepsOf
  <2>3. PICK step \in {"srem", "local"} : Carry(c, request[c].copy, step)
    BY <1>11 DEF Remove, Proceed
  <2>4. step \in Step /\ step \in StepsOf(request[c].op) BY <2>2 DEF Step, StepsOf
  <2>5. KeysFit' /\ request' \in [Client -> Operation \cup {NoRequest}]
    BY <1>11, <2>1, <2>2, <2>3, <2>4, CarryFits, CarryFacts DEF Remove
  <2> QED BY <1>11, <2>5 DEF Remove, KeysTypeOK, copies
<1>12. ASSUME NEW c \in Client, RevokeLocal(c) PROVE KeysTypeOK' /\ KeysFit'
  <2>1. request[c].at \in Gateway
    BY <1>12, BusyIsOperation DEF RevokeLocal, Op, Operation
  <2>2. End(c) /\ withRedis' = withRedis BY <1>12 DEF RevokeLocal, Answer, redisVars
  <2>3. KeysFit' /\ request' \in [Client -> Operation \cup {NoRequest}]
    BY <2>2, EndFits, EndFacts
  <2> DEFINE g == request[c].at
             h == byId[g]
  <2>4. byHash' \in [Gateway -> [Hash -> Entry \cup {None}]]
    <3>1. CASE ~Found(g) BY <1>12, <3>1 DEF RevokeLocal, KeysTypeOK
    <3>2. CASE Found(g)
      <4>1. h \in Hash /\ byHash[g][h] \in Entry /\ byHash[g] \in [Hash -> Entry \cup {None}]
        BY <2>1, <3>2 DEF Found, KeysTypeOK
      <4>2. [byHash[g][h] EXCEPT !.enabled = FALSE] \in Entry BY <4>1 DEF Entry
      <4>3. byHash' = [byHash EXCEPT ![g] =
               [byHash[g] EXCEPT ![h] = [byHash[g][h] EXCEPT !.enabled = FALSE]]]
        BY <1>12, <2>1, <3>2 DEF RevokeLocal, KeysTypeOK
      <4> HIDE DEF g, h
      <4> QED BY <4>1, <4>2, <4>3 DEF KeysTypeOK
    <3> QED BY <3>1, <3>2
  <2>5. quiet' \in 0..Ttl \cup {None} BY <1>12 DEF RevokeLocal, Answer, KeysTypeOK
  <2> QED BY <1>12, <2>3, <2>4, <2>5 DEF RevokeLocal, KeysTypeOK, redisVars
<1>13. ASSUME NEW c \in Client, RotateLocal(c) PROVE KeysTypeOK' /\ KeysFit'
  <2>1. c \in Busy /\ request[c].at \in Gateway
    BY <1>13, BusyIsOperation DEF RotateLocal, Op, Operation
  <2>2. request[c].hash \in Hash /\ request[c].copy.hash \in Hash
    BY <1>13, <2>1 DEF RotateLocal, KeysFit, Carries, Key
  <2>3. KeysFit' /\ request' \in [Client -> Operation \cup {NoRequest}]
    BY <1>13, EndFits, EndFacts DEF RotateLocal, redisVars
  <2> DEFINE g == request[c].at
             old == request[c].copy.hash
  <2>4. /\ byHash' \in [Gateway -> [Hash -> Entry \cup {None}]]
        /\ byId' \in [Gateway -> Hash \cup {None}]
    <3>1. CASE byHash[g][old] = None BY <1>13, <3>1 DEF RotateLocal, KeysTypeOK, copies
    <3>2. CASE byHash[g][old] # None
      <4>1. byHash[g] \in [Hash -> Entry \cup {None}] /\ byHash[g][old] \in Entry
        BY <2>1, <2>2, <3>2 DEF KeysTypeOK
      <4>2. [enabled |-> byHash[g][old].enabled, age |-> 0] \in Entry BY <4>1 DEF Entry
      <4>3. byHash' = [byHash EXCEPT ![g] = [[byHash[g] EXCEPT ![old] = None]
               EXCEPT ![request[c].hash] = [enabled |-> byHash[g][old].enabled, age |-> 0]]]
        BY <1>13, <2>1, <3>2 DEF RotateLocal, KeysTypeOK
      <4>4. byId' \in [Gateway -> Hash \cup {None}]
        BY <1>13, <2>1, <2>2, <3>2 DEF RotateLocal, KeysTypeOK
      <4> HIDE DEF g, old
      <4> QED BY <2>2, <4>1, <4>2, <4>3, <4>4 DEF KeysTypeOK
    <3> QED BY <3>1, <3>2
  <2> QED BY <1>13, <2>3, <2>4 DEF RotateLocal, KeysTypeOK, redisVars
<1>14. ASSUME NEW c \in Client, DeleteLocal(c) PROVE KeysTypeOK' /\ KeysFit'
  <2>1. request[c].at \in Gateway
    BY <1>14, BusyIsOperation DEF DeleteLocal, Op, Operation
  <2>2. End(c) /\ withRedis' = withRedis BY <1>14 DEF DeleteLocal, Answer, redisVars
  <2>3. KeysFit' /\ request' \in [Client -> Operation \cup {NoRequest}]
    BY <2>2, EndFits, EndFacts
  <2>4. /\ byHash' \in [Gateway -> [Hash -> Entry \cup {None}]]
        /\ byId' \in [Gateway -> Hash \cup {None}]
    BY <1>14, <2>1 DEF DeleteLocal, KeysTypeOK
  <2>5. quiet' \in 0..Ttl \cup {None} BY <1>14 DEF DeleteLocal, Answer, KeysTypeOK
  <2> QED BY <1>14, <2>3, <2>4, <2>5 DEF DeleteLocal, KeysTypeOK, redisVars
<1>15. ASSUME NEW c \in Client, Abandon(c) PROVE KeysTypeOK' /\ KeysFit'
  <2>1. KeysFit' /\ request' \in [Client -> Operation \cup {NoRequest}]
    BY <1>15, EndFits, EndFacts DEF Abandon, redisVars
  <2> QED BY <1>15, <2>1 DEF Abandon, KeysTypeOK, redisVars, copies
<1>16. CASE Pass
  <2>1. KeysFit' BY <1>16 DEF Pass, KeysFit, Carries, Busy, redisVars
  <2>2. byHash' \in [Gateway -> [Hash -> Entry \cup {None}]]
    <3>1. ASSUME NEW e \in Entry
          PROVE  [e EXCEPT !.age = IF @ < Ttl THEN @ + 1 ELSE @] \in Entry
      BY DEF Entry
    <3>2. ASSUME NEW g \in Gateway, NEW h \in Hash
          PROVE  (IF byHash[g][h] = None THEN None
                  ELSE [byHash[g][h] EXCEPT !.age = IF @ < Ttl THEN @ + 1 ELSE @])
                 \in Entry \cup {None}
      BY <3>1 DEF KeysTypeOK
    <3> QED BY <1>16, <3>2 DEF Pass
  <2>3. quiet' \in 0..Ttl \cup {None} BY <1>16 DEF Pass, KeysTypeOK
  <2> QED BY <1>16, <2>1, <2>2, <2>3 DEF Pass, KeysTypeOK, redisVars
<1> QED BY <1>1, <1>2, <1>3, <1>4, <1>5, <1>6, <1>7, <1>8, <1>9, <1>10, <1>11, <1>12,
           <1>13, <1>14, <1>15, <1>16 DEF KeysNext

-----------------------------------------------------------------------------
(* A request that revokes or deletes alone.                                *)

\* Whoever begins beside others is not alone, nor are these; and an operation that
\* begins alone has removed nothing yet.
LEMMA AloneBegin ==
    ASSUME KeysTypeOK, NEW c \in Client, NEW op \in Op, NEW g \in Gateway, NEW step \in Step,
           NEW h \in Hash \cup {None}, Begin(c, op, g, step, h),
           op \in {"revoke", "delete"} =>
              hashes' > 0 /\ step # "srem" /\ (step = "local" => ~withRedis')
    PROVE  AloneRemoves'
BY BeginFacts DEF AloneRemoves

\* Who was alone has ended, and nobody else was.
LEMMA AloneEnd ==
    ASSUME KeysTypeOK, AloneRemoves, NEW c \in Busy, End(c)
    PROVE  AloneRemoves'
<1>1. c \in Client BY DEF Busy
<1> QED BY <1>1, EndFacts DEF AloneRemoves, Busy

\* Who is alone goes on, if Redis holds what its next step needs.
LEMMA AloneCarry ==
    ASSUME KeysTypeOK, AloneRemoves, NEW c \in Busy, NEW copy \in Key \cup {None},
           NEW step \in Step, Carry(c, copy, step), hashes' = hashes,
           request[c].alone => /\ step = "srem" => stored' = None
                               /\ step = "local" /\ withRedis' => Disabled(stored)'
    PROVE  AloneRemoves'
<1> SUFFICES ASSUME NEW d \in Busy', request'[d].alone
             PROVE  /\ Busy' = {d} /\ request'[d].op \in {"revoke", "delete"} /\ hashes' > 0
                    /\ request'[d].step = "srem" => stored' = None
                    /\ request'[d].step = "local" /\ withRedis' => Disabled(stored)'
  BY DEF AloneRemoves
<1>1. d \in Busy /\ d \in Client BY CarryFacts DEF Busy
<1>2. request[d].alone BY <1>1, CarryFacts
<1>3. d = c BY <1>1, <1>2 DEF AloneRemoves
<1> QED BY <1>1, <1>2, <1>3, CarryFacts DEF AloneRemoves

\* A revocation or deletion that is alone leaves nothing valid in Redis before it
\* comes to the local store.
LEMMA AloneNext ==
    ASSUME KeysTypeOK, KeysFit, AloneRemoves, [KeysNext]_keyVars
    PROVE  AloneRemoves'
<1> USE NoneAssumption
<1>1. CASE UNCHANGED keyVars BY <1>1 DEF keyVars, AloneRemoves, Busy, Disabled
<1>2. ASSUME NEW c \in Client, NEW g \in Gateway, Create(c, g) PROVE AloneRemoves'
  <2>1. PICK step \in {"set", "local"} : Begin(c, "create", g, step, 1)
    BY <1>2 DEF Create
  <2>2. 1 \in Hash BY BoundAssumption DEF Hash
  <2> QED BY <2>1, <2>2, AloneBegin DEF Op, Step
<1>3. ASSUME NEW c \in Client, NEW g \in Gateway, Revoke(c, g) PROVE AloneRemoves'
  <2>1. PICK step \in {"read", "local"} :
           Begin(c, "revoke", g, step, None) /\ (step = "local" => ~withRedis)
    BY <1>3 DEF Revoke
  <2>2. hashes' > 0 /\ withRedis' = withRedis BY <1>3 DEF Revoke, redisVars
  <2> QED BY <2>1, <2>2, AloneBegin DEF Op, Step
<1>4. ASSUME NEW c \in Client, NEW g \in Gateway, Delete(c, g) PROVE AloneRemoves'
  <2>1. PICK step \in {"del", "local"} :
           Begin(c, "delete", g, step, None) /\ (step = "local" => ~withRedis)
    BY <1>4 DEF Delete
  <2>2. hashes' > 0 /\ withRedis' = withRedis BY <1>4 DEF Delete, redisVars
  <2> QED BY <2>1, <2>2, AloneBegin DEF Op, Step
<1>5. ASSUME NEW c \in Client, NEW g \in Gateway, Rotate(c, g) PROVE AloneRemoves'
  <2>1. Begin(c, "rotate", g, "read", hashes + 1) /\ hashes + 1 \in Hash
    BY <1>5, BoundAssumption DEF Rotate, Hash
  <2> QED BY <2>1, AloneBegin DEF Op, Step
<1>6. ASSUME NEW c \in Client, NEW g \in Gateway, NEW h \in Hash, Validate(c, g, h)
      PROVE  AloneRemoves'
  <2>1. PICK step \in {"accepted", "members"} : Begin(c, "validate", g, step, h)
    BY <1>6 DEF Validate
  <2> QED BY <2>1, AloneBegin DEF Op, Step
<1>7. ASSUME NEW c \in Client, Created(c) \/ Validating(c) PROVE AloneRemoves'
  <2>1. c \in Busy /\ request[c] \in Operation /\ ~request[c].alone
    BY <1>7, BusyIsOperation DEF Created, Validating, Op, AloneRemoves
  <2>2. request[c].copy \in Key \cup {None} BY <2>1 DEF Operation
  <2>3. hashes' = hashes BY <1>7 DEF Created, Validating
  <2>4. \/ End(c)
        \/ \E copy \in Key \cup {None}, step \in Step : Carry(c, copy, step)
    BY <1>7, <2>2 DEF Created, Validating, Proceed, Step, KeysTypeOK
  <2> QED BY <2>1, <2>3, <2>4, AloneEnd, AloneCarry
<1>8. ASSUME NEW c \in Client, Read(c) PROVE AloneRemoves'
  <2>1. c \in Busy /\ request[c] \in Operation /\ "write" \in Step /\ "local" \in Step
    BY <1>8, BusyIsOperation DEF Read, Step
  <2>2. CASE End(c) BY <2>1, <2>2, AloneEnd
  <2>3. CASE withRedis /\ Carry(c, stored, "write")
    BY <1>8, <2>1, <2>3, AloneCarry DEF Read, KeysTypeOK
  <2>4. CASE ~withRedis /\ Found(request[c].at)
    <3> DEFINE g == request[c].at
               copy == [hash |-> byId[g], enabled |-> byHash[g][byId[g]].enabled]
    <3>1. Carry(c, copy, "local") /\ withRedis' = withRedis /\ hashes' = hashes
      BY <1>8, <2>4 DEF Read, redisVars
    <3>2. g \in Gateway BY <2>1 DEF Operation
    <3>3. byId[g] \in Hash /\ byHash[g][byId[g]] \in Entry
      BY <2>4, <3>2 DEF Found, KeysTypeOK
    <3>4. copy \in Key BY <3>3 DEF Key, Entry
    <3> HIDE DEF copy
    <3> QED BY <2>1, <2>4, <3>1, <3>4, AloneCarry
  <2> QED BY <1>8, <2>2, <2>3, <2>4 DEF Read
<1>9. ASSUME NEW c \in Client, Write(c) PROVE AloneRemoves'
  <2>1. c \in Busy /\ request[c] \in Operation
    BY <1>9, BusyIsOperation DEF Write, Step
  <2>2. request[c].copy \in Key BY <1>9, <2>1 DEF Write, KeysFit, Carries
  <2>3. request[c].op \in {"revoke", "rotate"}
    BY <1>9, <2>1 DEF Write, KeysFit, Carries, StepsOf, Operation, Op
  <2>4. request[c].alone => request[c].op = "revoke" BY <2>1, <2>3 DEF AloneRemoves
  <2>5. request[c].op = "revoke" => Disabled(stored)'
    <3>1. request[c].op = "revoke" => stored' = [request[c].copy EXCEPT !.enabled = FALSE]
      BY <1>9 DEF Write
    <3> QED BY <2>2, <3>1 DEF Key, Disabled
  <2>6. Carry(c, request[c].copy, "local") /\ hashes' = hashes /\ "local" \in Step
    BY <1>9 DEF Write, Proceed, Step
  <2> QED BY <2>1, <2>2, <2>4, <2>5, <2>6, AloneCarry
<1>10. ASSUME NEW c \in Client, Remove(c) PROVE AloneRemoves'
  <2>1. c \in Busy /\ request[c] \in Operation
    BY <1>10, BusyIsOperation DEF Remove, Step
  <2>2. request[c].copy \in Key \cup {None} BY <2>1 DEF Operation
  <2>3. hashes' = hashes /\ "srem" \in Step /\ "local" \in Step BY <1>10 DEF Remove, Step
  <2>4. CASE request[c].step = "del"
    <3>1. Carry(c, request[c].copy, "srem") /\ stored' = None
      BY <1>10, <2>4 DEF Remove, Proceed
    <3> QED BY <2>1, <2>2, <2>3, <3>1, AloneCarry
  <2>5. CASE request[c].step = "srem"
    <3>1. Carry(c, request[c].copy, "local") /\ stored' = stored
      BY <1>10, <2>5 DEF Remove, Proceed
    <3>2. request[c].alone => Disabled(stored)'
      BY <2>1, <2>5, <3>1 DEF AloneRemoves, Disabled
    <3> QED BY <2>1, <2>2, <2>3, <3>1, <3>2, AloneCarry
  <2> QED BY <1>10, <2>4, <2>5 DEF Remove
<1>11. ASSUME NEW c \in Client,
              RevokeLocal(c) \/ RotateLocal(c) \/ DeleteLocal(c) \/ Abandon(c)
       PROVE  AloneRemoves'
  <2>1. End(c) BY <1>11 DEF RevokeLocal, RotateLocal, DeleteLocal, Abandon, Answer
  <2>2. c \in Busy
    BY <1>11, BusyIsOperation DEF RevokeLocal, RotateLocal, DeleteLocal, Abandon, Op, Step
  <2> QED BY <2>1, <2>2, AloneEnd
<1>12. CASE Pass BY <1>12 DEF Pass, AloneRemoves, Busy, Disabled, redisVars
<1> QED BY <1>1, <1>2, <1>3, <1>4, <1>5, <1>6, <1>7, <1>8, <1>9, <1>10, <1>11, <1>12
        DEF KeysNext

-----------------------------------------------------------------------------
(* What is dead in Redis stays dead.                                       *)

\* A request that begins carries no key.
LEMMA DeadBegin ==
    ASSUME KeysTypeOK, Dead, NEW c \in Client, NEW op \in Op \ {"create"}, NEW g \in Gateway,
           NEW step \in Step \ {"cache", "stamp"}, NEW h \in Hash \cup {None},
           Begin(c, op, g, step, h), withRedis' = withRedis, stored' = stored, hashes' > 0
    PROVE  Dead'
BY BeginFacts DEF Dead, Disabled

\* A request that ends leaves nothing.
LEMMA DeadEnd ==
    ASSUME KeysTypeOK, Dead, NEW c \in Client, End(c),
           withRedis' = withRedis, stored' = stored, hashes' = hashes
    PROVE  Dead'
BY EndFacts DEF Dead, Disabled, Busy

\* A request goes on with a key that is not valid.
LEMMA DeadCarry ==
    ASSUME KeysTypeOK, Dead, NEW c \in Busy, NEW copy \in Key \cup {None},
           NEW step \in Step \ {"cache", "stamp"}, Carry(c, copy, step),
           request[c].op # "revoke" => Disabled(copy),
           withRedis' = withRedis, Disabled(stored)', hashes' = hashes
    PROVE  Dead'
<1> SUFFICES ASSUME NEW d \in Busy'
             PROVE  /\ request'[d].op # "create"
                    /\ request'[d].step \notin {"cache", "stamp"}
                    /\ request'[d].op # "revoke" => Disabled(request'[d].copy)
  BY DEF Dead
<1>1. d \in Busy /\ d \in Client BY CarryFacts DEF Busy
<1>2. CASE d = c BY <1>1, <1>2, CarryFacts DEF Dead
<1>3. CASE d # c BY <1>1, <1>3, CarryFacts DEF Dead
<1> QED BY <1>2, <1>3

\* Once nothing valid is in Redis or under way to it, no step brings it back: only
\* what was read as valid is written as valid.
LEMMA DeadNext ==
    ASSUME KeysTypeOK, KeysFit, Dead, [KeysNext]_keyVars
    PROVE  Dead'
<1> USE NoneAssumption
<1>1. CASE UNCHANGED keyVars BY <1>1 DEF keyVars, Dead, Busy, Disabled
<1>2. ASSUME NEW c \in Client, NEW g \in Gateway, Create(c, g) PROVE FALSE
  BY <1>2 DEF Create, Dead
<1>3. ASSUME NEW c \in Client, NEW g \in Gateway, Revoke(c, g) \/ Delete(c, g) PROVE Dead'
  <2>1. PICK op \in {"revoke", "delete"}, step \in {"read", "del", "local"} :
           Begin(c, op, g, step, None)
    BY <1>3 DEF Revoke, Delete
  <2>2. withRedis' = withRedis /\ stored' = stored /\ hashes' > 0
    BY <1>3 DEF Revoke, Delete, redisVars
  <2> QED BY <2>1, <2>2, DeadBegin DEF Op, Step
<1>4. ASSUME NEW c \in Client, NEW g \in Gateway, Rotate(c, g) PROVE Dead'
  <2>1. Begin(c, "rotate", g, "read", hashes + 1) /\ hashes + 1 \in Hash /\ hashes' > 0
    BY <1>4, BoundAssumption DEF Rotate, Hash
  <2>2. withRedis' = withRedis /\ stored' = stored BY <1>4 DEF Rotate, redisVars
  <2> QED BY <2>1, <2>2, DeadBegin DEF Op, Step
<1>5. ASSUME NEW c \in Client, NEW g \in Gateway, NEW h \in Hash, Validate(c, g, h)
      PROVE  Dead'
  <2>1. PICK step \in {"accepted", "members"} : Begin(c, "validate", g, step, h)
    BY <1>5 DEF Validate
  <2>2. withRedis' = withRedis /\ stored' = stored /\ hashes' > 0
    BY <1>5 DEF Validate, redisVars, Dead
  <2> QED BY <2>1, <2>2, DeadBegin DEF Op, Step
<1>6. ASSUME NEW c \in Client, Created(c) PROVE FALSE
  BY <1>6, BusyIsOperation DEF Created, Op, Dead
<1>7. ASSUME NEW c \in Client, Validating(c) PROVE Dead'
  <2>1. c \in Busy /\ request[c] \in Operation
    BY <1>7, BusyIsOperation DEF Validating, Op
  <2>2. request[c].copy \in Key \cup {None} /\ Disabled(request[c].copy)
    BY <1>7, <2>1 DEF Validating, Operation, Dead
  <2>3. request[c].step \notin {"cache", "stamp"} BY <2>1 DEF Dead
  <2>4. withRedis' = withRedis /\ stored' = stored /\ hashes' = hashes
    BY <1>7, <2>3 DEF Validating
  <2>5. stored # [hash |-> request[c].hash, enabled |-> TRUE]
    <3>1. [hash |-> request[c].hash, enabled |-> TRUE] \in Key
      BY <1>7, <2>1 DEF Validating, KeysFit, Carries, Key
    <3>2. CASE stored = None BY <3>1, <3>2
    <3>3. CASE ~stored.enabled BY <3>3
    <3> QED BY <3>2, <3>3 DEF Dead, Disabled
  <2>6. End(c) \/ Carry(c, request[c].copy, "get")
    BY <1>7, <2>3, <2>5 DEF Validating, Proceed
  <2>7. Disabled(stored)' BY <2>4 DEF Dead, Disabled
  <2> QED BY <2>1, <2>2, <2>4, <2>6, <2>7, DeadEnd, DeadCarry DEF Step
<1>8. ASSUME NEW c \in Client, Read(c) PROVE Dead'
  <2>1. c \in Busy BY <1>8, BusyIsOperation DEF Read, Step
  <2>2. End(c) \/ Carry(c, stored, "write") BY <1>8 DEF Read, Dead
  <2>3. withRedis' = withRedis /\ stored' = stored /\ hashes' = hashes
    BY <1>8 DEF Read, redisVars
  <2>4. Disabled(stored) /\ Disabled(stored)' BY <2>3 DEF Dead, Disabled
  <2>5. stored \in Key \cup {None} BY DEF KeysTypeOK
  <2> QED BY <1>8, <2>1, <2>2, <2>3, <2>4, <2>5, DeadEnd, DeadCarry DEF Step
<1>9. ASSUME NEW c \in Client, Write(c) PROVE Dead'
  <2>1. c \in Busy BY <1>9, BusyIsOperation DEF Write, Step
  <2>2. request[c].copy \in Key BY <1>9, <2>1 DEF Write, KeysFit, Carries
  <2>3. request[c].op # "revoke" => Disabled(request[c].copy) BY <2>1 DEF Dead
  <2>4. Disabled(stored)'
    <3>1. CASE request[c].op = "revoke"
      <4>1. stored' = [request[c].copy EXCEPT !.enabled = FALSE] BY <1>9, <3>1 DEF Write
      <4> QED BY <2>2, <4>1 DEF Key, Disabled
    <3>2. CASE request[c].op # "revoke"
      <4>1. stored' = [request[c].copy EXCEPT !.hash = request[c].hash]
        BY <1>9, <3>2 DEF Write
      <4>2. ~request[c].copy.enabled BY <2>2, <2>3, <3>2 DEF Disabled
      <4> QED BY <2>2, <4>1, <4>2 DEF Key, Disabled
    <3> QED BY <3>1, <3>2
  <2>5. Carry(c, request[c].copy, "local") /\ withRedis' = withRedis /\ hashes' = hashes
    BY <1>9 DEF Write, Proceed
  <2> QED BY <2>1, <2>2, <2>3, <2>4, <2>5, DeadCarry DEF Step
<1>10. ASSUME NEW c \in Client, Remove(c) PROVE Dead'
  <2>1. c \in Busy /\ request[c] \in Operation
    BY <1>10, BusyIsOperation DEF Remove, Step
  <2>2. request[c].copy \in Key \cup {None} BY <2>1 DEF Operation
  <2>3. request[c].op # "revoke" => Disabled(request[c].copy) BY <2>1 DEF Dead
  <2>4. Disabled(stored)' BY <1>10 DEF Remove, Dead, Disabled
  <2>5. PICK step \in {"srem", "local"} : Carry(c, request[c].copy, step)
    BY <1>10 DEF Remove, Proceed
  <2>6. withRedis' = withRedis /\ hashes' = hashes BY <1>10 DEF Remove
  <2> QED BY <2>1, <2>2, <2>3, <2>4, <2>5, <2>6, DeadCarry DEF Step
<1>11. ASSUME NEW c \in Client,
              RevokeLocal(c) \/ RotateLocal(c) \/ DeleteLocal(c) \/ Abandon(c)
       PROVE  Dead'
  <2>1. End(c) BY <1>11 DEF RevokeLocal, RotateLocal, DeleteLocal, Abandon, Answer
  <2>2. withRedis' = withRedis /\ stored' = stored /\ hashes' = hashes
    BY <1>11 DEF RevokeLocal, RotateLocal, DeleteLocal, Abandon, redisVars
  <2> QED BY <2>1, <2>2, DeadEnd
<1>12. CASE Pass BY <1>12 DEF Pass, Dead, Busy, Disabled, redisVars
<1> QED BY <1>1, <1>2, <1>3, <1>4, <1>5, <1>6, <1>7, <1>8, <1>9, <1>10, <1>11, <1>12
        DEF KeysNext

-----------------------------------------------------------------------------
(* After a revocation or deletion, what the gateways keep grows old.       *)

\* No creation or rotation begins.
LEMMA CalmBegin ==
    ASSUME KeysTypeOK, Calm, NEW c \in Client, NEW op \in Op \ {"create", "rotate"},
           NEW g \in Gateway, NEW step \in Step \ {"cache", "stamp"}, NEW h \in Hash \cup {None},
           Begin(c, op, g, step, h), hashes' = hashes
    PROVE  Calm'
BY BeginFacts DEF Calm

\* A request that ends changes nothing of it.
LEMMA CalmEnd ==
    ASSUME KeysTypeOK, Calm, NEW c \in Client, End(c), hashes' = hashes
    PROVE  Calm'
BY EndFacts DEF Calm, Busy

\* A request goes on to a step that caches and writes no valid key.
LEMMA CalmCarry ==
    ASSUME KeysTypeOK, Calm, NEW c \in Busy, NEW copy \in Key \cup {None},
           NEW step \in Step \ {"cache", "stamp"}, Carry(c, copy, step), hashes' = hashes
    PROVE  Calm'
<1> SUFFICES ASSUME NEW d \in Busy'
             PROVE  /\ request'[d].op \notin {"create", "rotate"}
                    /\ request'[d].step \notin {"cache", "stamp"}
  BY DEF Calm
<1>1. d \in Busy /\ d \in Client BY CarryFacts DEF Busy
<1>2. CASE d = c BY <1>1, <1>2, CarryFacts DEF Calm
<1>3. CASE d # c BY <1>1, <1>3, CarryFacts DEF Calm
<1> QED BY <1>2, <1>3

\* While there is nothing but requests that leave the key as it is.
\* With nothing valid in Redis or no Redis, no request comes to give a gateway a
\* fresh copy, until a rotation begins.
LEMMA CalmNext ==
    ASSUME KeysTypeOK, KeysFit, Calm, withRedis => Dead, [KeysNext]_keyVars, quiet' # None
    PROVE  Calm'
<1> USE NoneAssumption
<1>1. CASE UNCHANGED keyVars BY <1>1 DEF keyVars, Calm, Busy
<1>2. ASSUME NEW c \in Client, NEW g \in Gateway, Create(c, g) \/ Rotate(c, g) PROVE FALSE
  BY <1>2 DEF Create, Rotate, Calm
<1>3. ASSUME NEW c \in Client, NEW g \in Gateway, Revoke(c, g) \/ Delete(c, g) PROVE Calm'
  <2>1. PICK op \in {"revoke", "delete"}, step \in {"read", "del", "local"} :
           Begin(c, op, g, step, None)
    BY <1>3 DEF Revoke, Delete
  <2>2. hashes' = hashes BY <1>3 DEF Revoke, Delete
  <2> QED BY <2>1, <2>2, CalmBegin DEF Op, Step
<1>4. ASSUME NEW c \in Client, NEW g \in Gateway, NEW h \in Hash, Validate(c, g, h)
      PROVE  Calm'
  <2>1. PICK step \in {"accepted", "members"} : Begin(c, "validate", g, step, h)
    BY <1>4 DEF Validate
  <2>2. hashes' = hashes BY <1>4 DEF Validate
  <2> QED BY <2>1, <2>2, CalmBegin DEF Op, Step
<1>5. ASSUME NEW c \in Client, Created(c) PROVE FALSE
  BY <1>5, BusyIsOperation DEF Created, Op, Calm
<1>6. ASSUME NEW c \in Client, Validating(c) PROVE Calm'
  <2>1. c \in Busy /\ request[c] \in Operation
    BY <1>6, BusyIsOperation DEF Validating, Op
  <2>2. request[c].copy \in Key \cup {None} BY <2>1 DEF Operation
  <2>3. request[c].step \notin {"cache", "stamp"} BY <2>1 DEF Calm
  <2>4. hashes' = hashes BY <1>6 DEF Validating
  <2>5. request[c].step = "get" => stored # [hash |-> request[c].hash, enabled |-> TRUE]
    <3>1. request[c].step = "get" => Disabled(stored)
      BY <2>1 DEF KeysFit, Carries, Dead
    <3>2. [hash |-> request[c].hash, enabled |-> TRUE] \in Key
      BY <1>6, <2>1 DEF Validating, KeysFit, Carries, Key
    <3>3. CASE stored = None BY <3>2, <3>3
    <3>4. CASE ~stored.enabled BY <3>4
    <3> QED BY <3>1, <3>3, <3>4 DEF Disabled
  <2>6. End(c) \/ Carry(c, request[c].copy, "get")
    BY <1>6, <2>3, <2>5 DEF Validating, Proceed
  <2> QED BY <2>1, <2>2, <2>4, <2>6, CalmEnd, CalmCarry DEF Step
<1>7. ASSUME NEW c \in Client, Read(c) PROVE Calm'
  <2>1. c \in Busy /\ request[c] \in Operation BY <1>7, BusyIsOperation DEF Read, Step
  <2>2. hashes' = hashes BY <1>7 DEF Read
  <2>3. CASE End(c) BY <2>2, <2>3, CalmEnd
  <2>4. CASE withRedis /\ Carry(c, stored, "write")
    BY <1>7, <2>1, <2>2, <2>4, CalmCarry DEF Read, KeysTypeOK, Step
  <2>5. CASE ~withRedis /\ Found(request[c].at)
    <3> DEFINE g == request[c].at
               copy == [hash |-> byId[g], enabled |-> byHash[g][byId[g]].enabled]
    <3>1. Carry(c, copy, "local") BY <1>7, <2>5 DEF Read
    <3>2. g \in Gateway BY <2>1 DEF Operation
    <3>3. byId[g] \in Hash /\ byHash[g][byId[g]] \in Entry
      BY <2>5, <3>2 DEF Found, KeysTypeOK
    <3>4. copy \in Key BY <3>3 DEF Key, Entry
    <3> HIDE DEF copy
    <3> QED BY <2>1, <2>2, <3>1, <3>4, CalmCarry DEF Step
  <2> QED BY <1>7, <2>3, <2>4, <2>5 DEF Read
<1>8. ASSUME NEW c \in Client, Write(c) \/ Remove(c) PROVE Calm'
  <2>1. c \in Busy /\ request[c] \in Operation
    BY <1>8, BusyIsOperation DEF Write, Remove, Step
  <2>2. request[c].copy \in Key \cup {None} BY <2>1 DEF Operation
  <2>3. PICK step \in {"srem", "local"} : Carry(c, request[c].copy, step)
    BY <1>8 DEF Write, Remove, Proceed
  <2>4. hashes' = hashes BY <1>8 DEF Write, Remove
  <2> QED BY <2>1, <2>2, <2>3, <2>4, CalmCarry DEF Step
<1>9. ASSUME NEW c \in Client,
             RevokeLocal(c) \/ RotateLocal(c) \/ DeleteLocal(c) \/ Abandon(c)
      PROVE  Calm'
  BY <1>9, CalmEnd DEF RevokeLocal, RotateLocal, DeleteLocal, Abandon, Answer
<1>10. CASE Pass BY <1>10 DEF Pass, Calm, Busy
<1> QED BY <1>1, <1>2, <1>3, <1>4, <1>5, <1>6, <1>7, <1>8, <1>9, <1>10 DEF KeysNext

\* Revoking and deleting leave the enabled copies as they were.
LEMMA LocalEntries ==
    ASSUME KeysTypeOK, NEW c \in Client, RevokeLocal(c) \/ DeleteLocal(c),
           NEW g \in Gateway, NEW h \in Hash,
           byHash'[g][h] # None, byHash'[g][h].enabled
    PROVE  byHash'[g][h] = byHash[g][h]
<1> DEFINE a == request[c].at
           b == byId[a]
<1>1. a \in Gateway
  BY BusyIsOperation DEF RevokeLocal, DeleteLocal, Op, Operation
<1>2. CASE RevokeLocal(c) /\ Found(a)
  <2>1. b \in Hash /\ byHash[a][b] \in Entry /\ byHash[a] \in [Hash -> Entry \cup {None}]
    BY <1>1, <1>2 DEF Found, KeysTypeOK
  <2>2. byHash' = [byHash EXCEPT ![a] =
           [byHash[a] EXCEPT ![b] = [byHash[a][b] EXCEPT !.enabled = FALSE]]]
    BY <1>1, <1>2 DEF RevokeLocal, KeysTypeOK
  <2>3. ~([byHash[a][b] EXCEPT !.enabled = FALSE]).enabled BY <2>1 DEF Entry
  <2> HIDE DEF a, b
  <2> QED BY <1>1, <2>1, <2>2, <2>3 DEF KeysTypeOK
<1>3. CASE RevokeLocal(c) /\ ~Found(a) BY <1>3 DEF RevokeLocal
<1>4. CASE DeleteLocal(c) /\ b = None BY <1>4 DEF DeleteLocal
<1>5. CASE DeleteLocal(c) /\ b # None
  <2>1. b \in Hash /\ byHash[a] \in [Hash -> Entry \cup {None}]
    BY <1>1, <1>5 DEF KeysTypeOK
  <2>2. byHash' = [byHash EXCEPT ![a] = [byHash[a] EXCEPT ![b] = None]]
    BY <1>1, <1>5 DEF DeleteLocal, KeysTypeOK
  <2> HIDE DEF a, b
  <2> QED BY <1>1, <2>1, <2>2 DEF KeysTypeOK
<1> QED BY <1>2, <1>3, <1>4, <1>5

\* So every enabled copy is at least as old as the revocation.
LEMMA CopiesAgeNext ==
    ASSUME KeysTypeOK, KeysTypeOK', Calm, CopiesAge, [KeysNext]_keyVars,
           quiet # None, quiet' # None
    PROVE  CopiesAge'
<1> USE BoundAssumption, NoneAssumption
<1>1. CASE byHash' = byHash /\ quiet' = quiet BY <1>1 DEF CopiesAge
<1>2. ASSUME NEW c \in Client, NEW g \in Gateway,
             \/ Create(c, g) \/ Revoke(c, g) \/ Delete(c, g) \/ Rotate(c, g)
             \/ \E h \in Hash : Validate(c, g, h)
      PROVE  CopiesAge'
  BY <1>1, <1>2 DEF Create, Revoke, Delete, Rotate, Validate, copies
<1>3. ASSUME NEW c \in Client, Created(c) \/ RotateLocal(c) PROVE FALSE
  BY <1>3, BusyIsOperation DEF Created, RotateLocal, Op, Calm
<1>4. ASSUME NEW c \in Client, Validating(c) PROVE CopiesAge'
  <2>1. request[c].step # "cache" BY <1>4, BusyIsOperation DEF Validating, Op, Calm
  <2> QED BY <1>1, <1>4, <2>1 DEF Validating, copies
<1>5. ASSUME NEW c \in Client, Read(c) \/ Write(c) \/ Remove(c) \/ Abandon(c) PROVE CopiesAge'
  BY <1>1, <1>5 DEF Read, Write, Remove, Abandon, copies
<1>6. ASSUME NEW c \in Client, RevokeLocal(c) \/ DeleteLocal(c) PROVE CopiesAge'
  <2> SUFFICES ASSUME NEW g \in Gateway, NEW h \in Hash,
                      byHash'[g][h] # None, byHash'[g][h].enabled
               PROVE  byHash'[g][h].age >= quiet'
    BY DEF CopiesAge
  <2>1. byHash'[g][h] = byHash[g][h] BY <1>6, LocalEntries
  <2>2. byHash'[g][h].age \in 0..Ttl BY DEF KeysTypeOK, Entry
  <2>3. quiet' = quiet \/ quiet' = 0 BY <1>6 DEF RevokeLocal, DeleteLocal, Answer
  <2>4. byHash[g][h].age >= quiet BY <2>1 DEF CopiesAge
  <2> QED BY <2>1, <2>2, <2>3, <2>4
<1>7. CASE Pass
  <2> SUFFICES ASSUME NEW g \in Gateway, NEW h \in Hash,
                      byHash'[g][h] # None, byHash'[g][h].enabled
               PROVE  byHash'[g][h].age >= quiet'
    BY DEF CopiesAge
  <2> DEFINE e == byHash[g][h]
  <2>1. e \in Entry /\ byHash'[g][h] = [e EXCEPT !.age = IF @ < Ttl THEN @ + 1 ELSE @]
    BY <1>7 DEF Pass, KeysTypeOK
  <2>2. /\ byHash'[g][h].enabled = e.enabled
        /\ byHash'[g][h].age = IF e.age < Ttl THEN e.age + 1 ELSE e.age
    BY <2>1 DEF Entry
  <2>3. e.age \in 0..Ttl /\ quiet \in 0..Ttl BY <2>1 DEF Entry, KeysTypeOK
  <2>4. e # None BY <2>1
  <2>5. e.age >= quiet BY <2>2, <2>4 DEF CopiesAge
  <2>6. quiet' = IF quiet < Ttl THEN quiet + 1 ELSE quiet BY <1>7 DEF Pass
  <2> HIDE DEF e
  <2> QED BY <2>2, <2>3, <2>5, <2>6
<1>8. CASE UNCHANGED keyVars BY <1>1, <1>8 DEF keyVars
<1> QED BY <1>2, <1>3, <1>4, <1>5, <1>6, <1>7, <1>8 DEF KeysNext

\* The time begins to run when a request succeeds that was alone.
\* The history starts at the end of an operation that was alone.
LEMMA QuietBegins ==
    ASSUME KeysTypeOK, KeysFit, AloneRemoves, [KeysNext]_keyVars, quiet = None, quiet' # None
    PROVE  /\ quiet' = 0 /\ Busy' = {} /\ hashes' > 0
           /\ withRedis' => Disabled(stored)'
<1>1. PICK c \in Client : RevokeLocal(c) \/ DeleteLocal(c)
  BY DEF KeysNext, keyVars, Create, Revoke, Delete, Rotate, Validate, Created, Validating,
         Read, Write, Remove, RotateLocal, Abandon, Pass
<1>2. c \in Busy BY <1>1, BusyIsOperation DEF RevokeLocal, DeleteLocal, Op
<1>3. /\ End(c) /\ request[c].step = "local" /\ request[c].alone /\ quiet' = 0
      /\ withRedis' = withRedis /\ stored' = stored /\ hashes' = hashes
  BY <1>1 DEF RevokeLocal, DeleteLocal, Answer, redisVars
<1>4. Busy' = {} BY <1>2, <1>3, EndFacts DEF AloneRemoves
<1> QED BY <1>2, <1>3, <1>4 DEF AloneRemoves, Disabled

\* What a revocation or deletion without company achieves lasts until a rotation.
LEMMA FadesNext ==
    ASSUME KeysTypeOK, KeysFit, AloneRemoves, Fades, [KeysNext]_keyVars
    PROVE  Fades'
<1> SUFFICES ASSUME quiet' # None PROVE (withRedis => Dead)' /\ Calm' /\ CopiesAge'
  BY DEF Fades
<1>1. KeysTypeOK' BY KeyTypeNext
<1>2. CASE quiet = None
  <2>1. (withRedis => Dead)' /\ Calm' BY <1>2, QuietBegins DEF Dead, Calm
  <2>2. CopiesAge'
    <3>1. quiet' = 0 BY <1>2, QuietBegins
    <3> QED BY <1>1, <3>1, BoundAssumption, NoneAssumption DEF CopiesAge, KeysTypeOK, Entry
  <2> QED BY <2>1, <2>2
<1>3. CASE quiet # None
  <2>1. (withRedis => Dead) /\ Calm /\ CopiesAge BY <1>3 DEF Fades
  <2>2. withRedis' = withRedis
    BY DEF KeysNext, keyVars, Create, Revoke, Delete, Rotate, Validate, Created, Validating,
           Read, Write, Remove, RevokeLocal, RotateLocal, DeleteLocal, Abandon, Pass, redisVars
  <2>3. (withRedis => Dead)' BY <2>1, <2>2, DeadNext
  <2> QED BY <1>1, <1>3, <2>1, <2>3, CalmNext, CopiesAgeNext
<1> QED BY <1>2, <1>3

-----------------------------------------------------------------------------
(* Requests that began when the copies had lapsed.                         *)

\* A request that begins when the copies have lapsed finds none of them valid.
LEMMA LapsedBegin ==
    ASSUME KeysTypeOK, KeysFit, LapsedIsDead, [KeysNext]_keyVars,
           NEW c \in Client, NEW op \in Op, NEW g \in Gateway, NEW step \in Step,
           NEW h \in Hash \cup {None}, Begin(c, op, g, step, h),
           quiet = Ttl /\ op = "validate" => Dead /\ step # "accepted"
    PROVE  LapsedIsDead'
<1> SUFFICES ASSUME NEW d \in Busy', request'[d].lapsed
             PROVE  Dead' /\ request'[d].step # "accepted"
  BY DEF LapsedIsDead
<1>1. CASE d = c
  <2>1. Dead /\ request'[d].step # "accepted" BY <1>1, BeginFacts
  <2> QED BY <2>1, DeadNext
<1>2. CASE d # c
  <2>1. d \in Busy /\ request[d].lapsed /\ request'[d].step = request[d].step
    BY <1>2, BeginFacts
  <2> QED BY <2>1, DeadNext DEF LapsedIsDead
<1> QED BY <1>1, <1>2

\* The requests that are left were as they are.
LEMMA LapsedEnd ==
    ASSUME KeysTypeOK, KeysFit, LapsedIsDead, [KeysNext]_keyVars, NEW c \in Client, End(c)
    PROVE  LapsedIsDead'
<1> SUFFICES ASSUME NEW d \in Busy', request'[d].lapsed
             PROVE  Dead' /\ request'[d].step # "accepted"
  BY DEF LapsedIsDead
<1>1. d \in Busy /\ request'[d] = request[d] BY EndFacts DEF Busy
<1> QED BY <1>1, DeadNext DEF LapsedIsDead

\* A request that goes on is not accepted while nothing valid is in Redis.
LEMMA LapsedCarry ==
    ASSUME KeysTypeOK, KeysFit, LapsedIsDead, [KeysNext]_keyVars,
           NEW c \in Busy, NEW copy \in Key \cup {None}, NEW step \in Step,
           Carry(c, copy, step), step = "accepted" => ~Dead
    PROVE  LapsedIsDead'
<1> SUFFICES ASSUME NEW d \in Busy', request'[d].lapsed
             PROVE  Dead' /\ request'[d].step # "accepted"
  BY DEF LapsedIsDead
<1>1. d \in Busy /\ d \in Client BY CarryFacts DEF Busy
<1>2. request[d].lapsed BY <1>1, CarryFacts
<1>3. Dead /\ request[d].step # "accepted" BY <1>1, <1>2 DEF LapsedIsDead
<1>4. request'[d].step # "accepted"
  <2>1. CASE d = c BY <1>3, <2>1, CarryFacts
  <2>2. CASE d # c BY <1>1, <1>3, <2>2, CarryFacts
  <2> QED BY <2>1, <2>2
<1> QED BY <1>3, <1>4, DeadNext

\* Requests that began when the copies had lapsed are not accepted.
LEMMA LapsedNext ==
    ASSUME KeysTypeOK, KeysFit, Fades, LapsedIsDead, [KeysNext]_keyVars
    PROVE  LapsedIsDead'
<1> USE NoneAssumption, BoundAssumption
<1>1. CASE request' = request
  <2>1. Busy' = Busy BY <1>1 DEF Busy
  <2> QED BY <1>1, <2>1, DeadNext DEF LapsedIsDead
<1>2. ASSUME NEW c \in Client, NEW g \in Gateway,
             Create(c, g) \/ Revoke(c, g) \/ Delete(c, g) \/ Rotate(c, g)
      PROVE  LapsedIsDead'
  <2>1. PICK op \in Op \ {"validate"}, step \in Step, h \in Hash \cup {None} :
           Begin(c, op, g, step, h)
    <3>1. 1 \in Hash /\ (hashes \in 1..MaxHash - 1 => hashes + 1 \in Hash) BY DEF Hash
    <3>2. {"set", "local", "read", "del"} \subseteq Step BY DEF Step
    <3>3. {"create", "revoke", "delete", "rotate"} \subseteq Op \ {"validate"} BY DEF Op
    <3>4. CASE Create(c, g) BY <3>1, <3>2, <3>3, <3>4 DEF Create
    <3>5. CASE Revoke(c, g) BY <3>2, <3>3, <3>5 DEF Revoke
    <3>6. CASE Delete(c, g) BY <3>2, <3>3, <3>6 DEF Delete
    <3>7. CASE Rotate(c, g) BY <3>1, <3>2, <3>3, <3>7 DEF Rotate
    <3> QED BY <1>2, <3>4, <3>5, <3>6, <3>7
  <2> QED BY <2>1, LapsedBegin
<1>3. ASSUME NEW c \in Client, NEW g \in Gateway, NEW h \in Hash, Validate(c, g, h)
      PROVE  LapsedIsDead'
  <2>1. "validate" \in Op /\ {"accepted", "members"} \subseteq Step BY DEF Op, Step
  <2>2. CASE Cached(g, h)
    <3>1. quiet # Ttl
      <4>1. byHash[g][h] # None /\ byHash[g][h].enabled /\ byHash[g][h].age < Ttl
        BY <2>2 DEF Cached
      <4>2. byHash[g][h].age \in Nat BY <4>1 DEF KeysTypeOK, Entry
      <4>3. ASSUME quiet = Ttl PROVE FALSE
        <5>1. CopiesAge BY <4>3 DEF Fades
        <5> QED BY <4>1, <4>2, <4>3, <5>1 DEF CopiesAge
      <4> QED BY <4>3
    <3>2. Begin(c, "validate", g, "accepted", h) BY <1>3, <2>2 DEF Validate
    <3> QED BY <2>1, <3>1, <3>2, LapsedBegin
  <2>3. CASE ~Cached(g, h)
    <3>1. withRedis /\ Begin(c, "validate", g, "members", h) BY <1>3, <2>3 DEF Validate
    <3>2. quiet = Ttl => Dead BY <3>1 DEF Fades
    <3> QED BY <2>1, <3>1, <3>2, LapsedBegin
  <2> QED BY <2>2, <2>3
<1>4. ASSUME NEW c \in Client,
             \/ Created(c) \/ Validating(c) \/ Read(c) \/ Write(c) \/ Remove(c)
             \/ RevokeLocal(c) \/ RotateLocal(c) \/ DeleteLocal(c) \/ Abandon(c)
      PROVE  LapsedIsDead'
  <2>1. CASE End(c) BY <2>1, LapsedEnd
  <2>2. CASE ~End(c)
    <3>1. CASE Created(c) \/ Validating(c) \/ Read(c) \/ Write(c) \/ Remove(c)
      <4>1. c \in Busy /\ request[c] \in Operation
        BY <3>1, BusyIsOperation DEF Created, Validating, Read, Write, Remove, Op, Step
      <4>2. request[c].copy \in Key \cup {None} /\ request[c].at \in Gateway
        BY <4>1 DEF Operation
      <4>3. {"sadd", "local", "get", "cache", "stamp", "accepted", "write", "srem"}
               \subseteq Step
        BY DEF Step
      <4>4. stored \in Key \cup {None} BY DEF KeysTypeOK
      <4>5. PICK copy \in Key \cup {None}, step \in Step :
               Carry(c, copy, step) /\ (step = "accepted" => ~Dead)
        <5>1. CASE Created(c) BY <2>2, <4>2, <4>3, <5>1 DEF Created, Proceed
        <5>2. CASE Validating(c)
          <6>1. request[c].step = "stamp" => ~Dead BY <4>1 DEF Dead
          <6> QED BY <2>2, <4>2, <4>3, <4>4, <5>2, <6>1 DEF Validating, Proceed
        <5>3. CASE Read(c)
          <6>1. CASE withRedis BY <2>2, <4>3, <4>4, <5>3, <6>1 DEF Read
          <6>2. CASE ~withRedis
            <7> DEFINE g == request[c].at
                       copy == [hash |-> byId[g], enabled |-> byHash[g][byId[g]].enabled]
            <7>1. Found(g) /\ Carry(c, copy, "local") BY <2>2, <5>3, <6>2 DEF Read
            <7>2. byId[g] \in Hash /\ byHash[g][byId[g]] \in Entry
              BY <4>2, <7>1 DEF Found, KeysTypeOK
            <7>3. copy \in Key BY <7>2 DEF Key, Entry
            <7> HIDE DEF copy
            <7> QED BY <4>3, <7>1, <7>3
          <6> QED BY <6>1, <6>2
        <5>4. CASE Write(c) BY <4>2, <4>3, <5>4 DEF Write, Proceed
        <5>5. CASE Remove(c) BY <4>2, <4>3, <5>5 DEF Remove, Proceed
        <5> QED BY <3>1, <5>1, <5>2, <5>3, <5>4, <5>5
      <4> QED BY <4>1, <4>5, LapsedCarry
    <3>2. CASE RevokeLocal(c) \/ RotateLocal(c) \/ DeleteLocal(c) \/ Abandon(c)
      BY <2>2, <3>2 DEF RevokeLocal, RotateLocal, DeleteLocal, Abandon, Answer
    <3> QED BY <1>4, <3>1, <3>2
  <2> QED BY <2>1, <2>2
<1>5. CASE Pass BY <1>1, <1>5 DEF Pass
<1>6. CASE UNCHANGED keyVars BY <1>1, <1>6 DEF keyVars
<1> QED BY <1>2, <1>3, <1>4, <1>5, <1>6 DEF KeysNext

-----------------------------------------------------------------------------
\* The invariant holds of gateways that have just started.
LEMMA KeysStart == KeysInit => KeyInv
<1> SUFFICES ASSUME KeysInit PROVE KeyInv OBVIOUS
<1> USE BoundAssumption, NoneAssumption DEF KeysInit
<1>1. Busy = {} BY DEF Busy
<1>2. KeysTypeOK
  <2>1. 0 \in 0..MaxHash /\ 0 \in 0..MaxRequests OBVIOUS
  <2> QED BY <2>1 DEF KeysTypeOK
<1>3. KeysFit /\ AloneRemoves /\ LapsedIsDead BY <1>1 DEF KeysFit, AloneRemoves, LapsedIsDead
<1>4. Fades BY DEF Fades
<1> QED BY <1>2, <1>3, <1>4 DEF KeyInv

\* Every step of every request keeps the invariant, and so does time.
LEMMA KeyInvNext == KeyInv /\ [KeysNext]_keyVars => KeyInv'
BY KeyTypeNext, AloneNext, FadesNext, LapsedNext DEF KeyInv

(* Keys, copies and requests stay well formed, for every value of the bounds. *)
THEOREM KeysType == KeysSpec => []KeysTypeOK
<1>1. KeyInv => KeysTypeOK BY DEF KeyInv
<1> QED BY <1>1, KeysStart, KeyInvNext, PTL DEF KeysSpec

(* A key that was revoked or deleted by a request that was alone, and not   *)
(* rotated after, is accepted nowhere once its copies have lapsed: for any  *)
(* number of gateways, requests at a time, rotations and units of time.     *)
THEOREM RevocationIsKept == KeysSpec => []RevocationLasts
<1>1. KeyInv => RevocationLasts
  <2> SUFFICES ASSUME KeyInv, NEW c \in Client, request[c] # NoRequest,
                      request[c].step = "accepted"
               PROVE  ~request[c].lapsed
    BY DEF RevocationLasts
  <2> QED BY DEF KeyInv, LapsedIsDead, Busy
<1> QED BY <1>1, KeysStart, KeyInvNext, PTL DEF KeysSpec

-----------------------------------------------------------------------------
(* The configuration.  A change that is noticed is followed by a reload of  *)
(* the task, which reads the file after it; whoever stores what it read     *)
(* with nobody else between reading and storing stores what the file says,  *)
(* or such a reload is still to come.                                       *)

Says == IF file = NoFile THEN Default ELSE file

Reloads == { Idle, [step |-> "starting"], [step |-> "load"] }
           \cup [step : {"store"}, config : Version \cup {Default, Torn}, alone : BOOLEAN]

\* The task will read the file, and has not yet.
Coming == event \/ signal \/ hup \/ reload["task"].step = "load"

\* Who was alone when it read the file, and still is, stores what the file
\* says; what is stored is that, or the task is about to.
Told ==
    /\ \A r \in Loaded : reload[r].alone => reload[r].config = Says
    /\ \/ crossed \/ current = Says
       \/ "task" \in Loaded /\ reload["task"].config = Says

ConfInv ==
    /\ file \in Version \cup {NoFile, Torn}
    /\ reload \in [Reloader -> Reloads]
    /\ \A r \in Loaded : reload[r].alone => Loaded = {r}
    /\ ~unseen /\ file # Torn => Coming \/ Told

(* What can be loaded of a file that is not being written is what it says.  *)
LEMMA LoadsSays ==
  ASSUME file \in Version \cup {NoFile, Torn}
  PROVE  /\ file # Torn => Loads(file) = {Says} /\ Says # NoFile
         /\ Loads(file) \ {NoFile} \subseteq Version \cup {Default, Torn}
BY ConfigAssumption DEF Loads, Says

LEMMA ConfStarts == ConfInit => ConfInv
<1> SUFFICES ASSUME ConfInit PROVE ConfInv
  OBVIOUS
<1>1. reload \in [Reloader -> Reloads] /\ Loaded = {}
  BY DEF ConfInit, Reloads, Idle, Loaded
<1>2. file # Torn => current = Says
  BY LoadsSays DEF ConfInit
<1> QED  BY <1>1, <1>2 DEF ConfInit, ConfInv, Told

(* Edits: a change that is noticed leaves an event.                         *)
LEMMA EditKeeps ==
  ASSUME ConfInv, Truncate \/ DeleteFile \/ \E v \in Version : Fill(v) \/ Replace(v)
  PROVE  ConfInv'
<1>1. file' \in Version \cup {NoFile, Torn} /\ reload' = reload /\ Loaded' = Loaded
  BY DEF Truncate, DeleteFile, Fill, Replace, Loaded
<1>2. ~unseen' => event'
  BY DEF Truncate, DeleteFile, Fill, Replace, Noticed
<1> QED  BY <1>1, <1>2 DEF ConfInv, Coming

(* Signals: the wake-up of the task is handed on until it reads the file.   *)
LEMMA SignalKeeps ==
  ASSUME ConfInv, Watch \/ Signal \/ HangUp \/ Wake
  PROVE  ConfInv'
<1> USE DEF disk
<1>1. file' = file /\ current' = current /\ crossed' = crossed /\ Says' = Says
  BY DEF Watch, Signal, HangUp, Wake, Says
<1>2. "task" \in Reloader
  BY DEF Reloader
<1>3. reload' \in [Reloader -> Reloads]
  BY <1>2 DEF ConfInv, Watch, Signal, HangUp, Wake, Reloads
<1>4. Loaded' = Loaded /\ \A r \in Loaded : reload'[r] = reload[r]
  BY <1>2, ConfigAssumption DEF ConfInv, Watch, Signal, HangUp, Wake, Reloads, Idle, Loaded
<1>5. Coming => Coming'
  BY <1>2 DEF ConfInv, Watch, Signal, HangUp, Wake, Coming, Idle
<1>6. Told => Told'
  BY <1>1, <1>4 DEF Told
<1>7. unseen' = unseen \/ Coming'
  BY DEF Watch, Signal, HangUp, Wake, Coming
<1> QED  BY <1>1, <1>3, <1>4, <1>5, <1>6, <1>7 DEF ConfInv

(* An administrator's request does not take part in the task's reloads.     *)
LEMMA AdminKeeps ==
  ASSUME ConfInv, NEW a \in Admin, Request(a) \/ Leave(a)
  PROVE  ConfInv'
<1> USE DEF disk
<1>1. UNCHANGED <<file, event, signal, hup, current, crossed, unseen>> /\ Says' = Says
  BY DEF Request, Leave, Says
<1>2. a \in Reloader /\ a # "task" /\ "task" \in Reloader
  BY ConfigAssumption DEF Reloader
<1>3. reload' \in [Reloader -> Reloads] /\ \A r \in Reloader \ {a} : reload'[r] = reload[r]
  BY <1>2 DEF ConfInv, Request, Leave, Reloads
<1>4. a \notin Loaded' /\ Loaded' = Loaded \ {a}
  BY <1>2, <1>3 DEF ConfInv, Request, Leave, Loaded, Idle
<1>5. Coming' <=> Coming
  BY <1>1, <1>2, <1>3 DEF Coming
<1>6. Told => Told'
  BY <1>1, <1>2, <1>3, <1>4 DEF Told, Loaded
<1>7. \A r \in Loaded' : reload'[r].alone => Loaded' = {r}
  BY <1>3, <1>4 DEF ConfInv, Loaded
<1> QED  BY <1>1, <1>3, <1>5, <1>6, <1>7 DEF ConfInv

(* Whoever reads the file disturbs those that have read it.                 *)
LEMMA LoadKeeps ==
  ASSUME ConfInv, NEW r \in Reloader, Load(r)
  PROVE  ConfInv'
<1> USE DEF disk
<1>1. UNCHANGED <<file, event, signal, hup, current, crossed, unseen>> /\ Says' = Says
  BY DEF Load, Says
<1>2. r \notin Loaded /\ "task" \in Reloader
  BY DEF Load, Loaded, Reloader
<1>3. PICK c \in Loads(file) :
        reload' = IF c = NoFile THEN [reload EXCEPT ![r] = Idle]
                  ELSE [s \in Reloader |->
                          IF s = r THEN [step |-> "store", config |-> c, alone |-> Loaded = {}]
                          ELSE IF s \in Loaded THEN [reload[s] EXCEPT !.alone = FALSE]
                          ELSE reload[s]]
  BY DEF Load
<1>4. file # Torn => c = Says /\ c # NoFile
  BY <1>3, LoadsSays DEF ConfInv
<1>5. CASE c = NoFile
  <2>1. reload' \in [Reloader -> Reloads]
    BY <1>3, <1>5 DEF ConfInv, Reloads
  <2>2. Loaded' = Loaded /\ \A s \in Loaded : reload'[s] = reload[s]
    BY <1>2, <1>3, <1>5 DEF ConfInv, Loaded, Idle
  <2>3. file = Torn
    BY <1>4, <1>5
  <2> QED  BY <1>1, <2>1, <2>2, <2>3 DEF ConfInv
<1>6. CASE c # NoFile
  <2>1. c \in Version \cup {Default, Torn}
    BY <1>3, <1>6, LoadsSays DEF ConfInv
  <2>2. ASSUME NEW s \in Loaded
        PROVE  /\ reload'[s] \in Reloads /\ reload'[s].step = "store"
               /\ reload'[s].config = reload[s].config /\ ~reload'[s].alone
    <3>1. reload[s] \in [step : {"store"}, config : Version \cup {Default, Torn},
                           alone : BOOLEAN]
      BY DEF ConfInv, Reloads, Loaded, Idle
    <3>2. reload'[s] = [reload[s] EXCEPT !.alone = FALSE]
      BY <1>2, <1>3, <1>6 DEF Loaded
    <3> QED  BY <3>1, <3>2 DEF Reloads
  <2>3. /\ reload'[r] \in Reloads /\ reload'[r].step = "store"
        /\ reload'[r].config = c /\ (reload'[r].alone => Loaded = {})
    BY <1>3, <1>6, <2>1 DEF Reloads
  <2>4. \A s \in Reloader \ (Loaded \cup {r}) : reload'[s] = reload[s]
    BY <1>3, <1>6
  <2>5. reload' \in [Reloader -> Reloads]
    BY <1>3, <1>6, <2>2, <2>3, <2>4 DEF ConfInv, Loaded
  <2>6. Loaded' = Loaded \cup {r}
    BY <2>2, <2>3, <2>4 DEF Loaded
  <2>7. \A s \in Loaded' : reload'[s].alone => Loaded' = {s} /\ s = r
    BY <2>2, <2>3, <2>6
  <2>8. ASSUME ~unseen, file # Torn  PROVE Coming' \/ Told'
    <3>1. CASE r = "task"
      BY <1>1, <1>4, <2>3, <2>6, <2>7, <2>8, <3>1 DEF Told
    <3>2. CASE r # "task" /\ Coming
      BY <1>1, <1>2, <2>2, <2>4, <3>2 DEF Coming, Loaded
    <3>3. CASE r # "task" /\ Told
      BY <1>1, <1>4, <2>2, <2>3, <2>6, <2>7, <2>8, <3>3 DEF Told
    <3> QED  BY <2>8, <3>1, <3>2, <3>3 DEF ConfInv
  <2> QED  BY <1>1, <2>5, <2>7, <2>8 DEF ConfInv
<1> QED  BY <1>5, <1>6

(* Whoever stores alone stores what the file says.                          *)
LEMMA StoreKeeps ==
  ASSUME ConfInv, NEW r \in Reloader, Store(r)
  PROVE  ConfInv'
<1> USE DEF disk
<1>1. UNCHANGED <<file, event, signal, hup, unseen>> /\ Says' = Says
  BY DEF Store, Says
<1>2. r \in Loaded /\ "task" \in Reloader
  BY DEF Store, Loaded, Reloader
<1>3. reload' \in [Reloader -> Reloads] /\ \A s \in Reloader \ {r} : reload'[s] = reload[s]
  BY DEF ConfInv, Store, Reloads
<1>4. Loaded' = Loaded \ {r}
  BY <1>2, <1>3 DEF ConfInv, Store, Loaded, Idle
<1>5. Coming => Coming'
  BY <1>1, <1>2, <1>3 DEF Coming, Loaded
<1>6. Told => Told'
  <2>1. crossed' \/ (reload[r].alone /\ current' = reload[r].config)
    BY <1>2 DEF Store, ConfInv, Reloads, Loaded
  <2> QED  BY <1>1, <1>2, <1>3, <1>4, <2>1 DEF Told, Loaded
<1>7. \A s \in Loaded' : reload'[s].alone => Loaded' = {s}
  BY <1>2, <1>3, <1>4 DEF ConfInv, Loaded
<1> QED  BY <1>1, <1>3, <1>5, <1>6, <1>7 DEF ConfInv

LEMMA ConfNextKeeps == ConfInv /\ [ConfNext]_confVars => ConfInv'
<1>1. ConfInv /\ UNCHANGED confVars => ConfInv'
  BY DEF confVars, ConfInv, Coming, Told, Says, Loaded
<1> QED  BY <1>1, EditKeeps, SignalKeeps, AdminKeeps, LoadKeeps, StoreKeeps DEF ConfNext

(* Once nothing is under way, a gateway has the configuration that its file *)
(* says, for any number of versions and administrators, and however edits,  *)
(* events, signals and reloads interleave (README.md:399).                  *)
THEOREM ConfigIsFollowed == ConfSpec => []ConfigFollows
<1>1. ConfInv => ConfigFollows
  <2> SUFFICES ASSUME ConfInv, Quiet, ~unseen, ~crossed, file # Torn  PROVE current = Says
    BY DEF ConfigFollows, Says
  <2>1. "task" \in Reloader
    BY DEF Reloader
  <2> QED  BY <2>1 DEF ConfInv, Quiet, Coming, Told, Idle, Loaded
<1> QED  BY <1>1, ConfStarts, ConfNextKeeps, PTL DEF ConfSpec

-----------------------------------------------------------------------------
(* Edge functions.  While deploys load one after the other, what the last   *)
(* one has loaded comes last in the order of eviction, and is less than the *)
(* cache has room for: the next to go is none of its own.                   *)

FunctionsTypeOK ==
    /\ cached \in SUBSET Handler /\ IsFiniteSet(cached)
    /\ loadOrder \in Seq(Handler) /\ IsInjective(loadOrder)
    /\ load \in [Deploy -> [left : Seq(Handler), ordered : BOOLEAN]]
    /\ latest \in Deploy \cup {"none"} /\ overlapped \in BOOLEAN

\* How many routes of a manifest have had their turn.
Turns == [d \in Deploy |-> Len(Routes[d]) - Len(load[d].left)]

\* What a deploy has still to load is the end of its manifest.
ManifestsEnd ==
    \A d \in Deploy :
        /\ load[d].ordered => Loading(d)
        /\ Len(load[d].left) <= Len(Routes[d])
        /\ \A i \in 1..Len(load[d].left) : load[d].left[i] = Routes[d][Turns[d] + i]

\* The handlers that the last deploy has loaded, and the one that is in the
\* order already.
Taken  == { Routes[latest][i] : i \in 1..Turns[latest] }
Newest == IF load[latest].ordered THEN Taken \cup {Head(load[latest].left)} ELSE Taken

Before(s, x, y) == \E i, j \in DOMAIN s : i < j /\ s[i] = x /\ s[j] = y

OneLoads ==
    /\ \A d, e \in Deploy : Loading(d) /\ Loading(e) => d = e
    /\ latest # "none" => \A d \in Deploy : Loading(d) => d = latest

\* There is room for what is in the order already.
RoomLeft ==
    /\ cached \subseteq Range(loadOrder)
    /\ \A k \in Range(loadOrder) :
          \/ k \in cached
          \/ \E d \in Deploy : load[d].ordered /\ Head(load[d].left) = k
    /\ Cardinality(cached) <= MaxCached
    /\ \A d \in Deploy :
          load[d].ordered =>
              /\ Head(load[d].left) \in Range(loadOrder)
              /\ Head(load[d].left) \notin cached => Cardinality(cached) < MaxCached

LatestLast ==
    latest # "none" /\ Len(Routes[latest]) <= MaxCached =>
        /\ Taken \subseteq cached
        /\ \A x, y \in Handler : Before(loadOrder, x, y) /\ x \in Newest => y \in Newest

FunctionsInv ==
    /\ FunctionsTypeOK /\ ManifestsEnd
    /\ ~overlapped => OneLoads /\ RoomLeft /\ LatestLast

(* What taking an element out of the order does.                            *)
LEMMA WithoutFacts ==
  ASSUME NEW H, NEW s \in Seq(H), IsInjective(s), NEW k
  PROVE  /\ Without(s, k) \in Seq(H) /\ IsInjective(Without(s, k))
         /\ Range(Without(s, k)) = Range(s) \ {k}
         /\ \A x, y : Before(Without(s, k), x, y) => Before(s, x, y)
<1>1. CASE k \notin Range(s)
  BY <1>1 DEF Without
<1>2. CASE k \in Range(s)
  <2> DEFINE at == CHOOSE i \in DOMAIN s : s[i] = k
             W  == [i \in 1..(Len(s) - 1) |-> IF i < at THEN s[i] ELSE s[i + 1]]
  <2>1. Without(s, k) = W
    BY <1>2 DEF Without
  <2>2. at \in 1..Len(s) /\ s[at] = k /\ DOMAIN s = 1..Len(s)
    BY <1>2 DEF Range
  <2> HIDE DEF at
  <2>3. W \in Seq(H) /\ DOMAIN W = 1..(Len(s) - 1)
    <3>1. \A i \in 1..(Len(s) - 1) : W[i] \in H
      BY <2>2
    <3> QED  BY <3>1, <2>2
  <2>4. \A i \in 1..(Len(s) - 1) : W[i] = s[IF i < at THEN i ELSE i + 1]
    BY <2>2
  <2>5. \A i \in 1..(Len(s) - 1) : (IF i < at THEN i ELSE i + 1) \in 1..Len(s) \ {at}
    BY <2>2
  <2>6. \A j \in 1..Len(s) : j # at =>
            \E i \in 1..(Len(s) - 1) : j = IF i < at THEN i ELSE i + 1
    <3> SUFFICES ASSUME NEW j \in 1..Len(s), j # at
                 PROVE  \E i \in 1..(Len(s) - 1) : j = IF i < at THEN i ELSE i + 1
      OBVIOUS
    <3>1. CASE j < at
      BY <3>1, <2>2
    <3>2. CASE j > at
      <4>1. j - 1 \in 1..(Len(s) - 1) /\ ~(j - 1 < at) /\ j = (j - 1) + 1
        BY <3>2, <2>2
      <4> QED  BY <4>1
    <3> QED  BY <3>1, <3>2, <2>2
  <2> HIDE DEF W
  <2>7. IsInjective(W)
    <3> SUFFICES ASSUME NEW i \in 1..(Len(s) - 1), NEW j \in 1..(Len(s) - 1), W[i] = W[j]
                 PROVE  i = j
      BY <2>3 DEF IsInjective
    <3> DEFINE a == IF i < at THEN i ELSE i + 1
               b == IF j < at THEN j ELSE j + 1
    <3>1. a \in DOMAIN s /\ b \in DOMAIN s /\ s[a] = s[b]
      BY <2>2, <2>4, <2>5
    <3>2. a = b
      BY <3>1 DEF IsInjective
    <3> QED  BY <3>2, <2>2
  <2>8. Range(W) = Range(s) \ {k}
    <3>1. ASSUME NEW x \in Range(W)  PROVE x \in Range(s) \ {k}
      <4>1. PICK i \in 1..(Len(s) - 1) : x = W[i]
        BY <3>1, <2>3 DEF Range
      <4> QED  BY <4>1, <2>2, <2>4, <2>5 DEF Range, IsInjective
    <3>2. ASSUME NEW x \in Range(s) \ {k}  PROVE x \in Range(W)
      <4>1. PICK j \in 1..Len(s) : x = s[j] /\ j # at
        BY <3>2, <2>2 DEF Range
      <4>2. PICK i \in 1..(Len(s) - 1) : j = IF i < at THEN i ELSE i + 1
        BY <4>1, <2>6
      <4> QED  BY <4>1, <4>2, <2>3, <2>4 DEF Range
    <3> QED  BY <3>1, <3>2
  <2>9. ASSUME NEW x, NEW y, Before(W, x, y)  PROVE Before(s, x, y)
    <3>1. PICK i, j \in 1..(Len(s) - 1) : i < j /\ W[i] = x /\ W[j] = y
      BY <2>3, <2>9 DEF Before
    <3>2. (IF i < at THEN i ELSE i + 1) < (IF j < at THEN j ELSE j + 1)
      BY <3>1, <2>2
    <3> QED  BY <3>1, <3>2, <2>2, <2>4, <2>5 DEF Before
  <2> QED  BY <2>1, <2>3, <2>7, <2>8, <2>9
<1> QED  BY <1>1, <1>2

(* What the eviction of the oldest does to the order.                       *)
LEMMA EvictFacts ==
  ASSUME NEW H, NEW s \in Seq(H), IsInjective(s), s # <<>>
  PROVE  /\ Tail(s) \in Seq(H) /\ IsInjective(Tail(s))
         /\ Head(s) \in Range(s) /\ Range(Tail(s)) = Range(s) \ {Head(s)}
         /\ \A x, y : Before(Tail(s), x, y) => Before(s, x, y)
         /\ \A y \in Range(s) : y = Head(s) \/ Before(s, Head(s), y)
<1>1. /\ Tail(s) \in Seq(H) /\ Len(s) \in Nat \ {0} /\ DOMAIN s = 1..Len(s)
      /\ DOMAIN Tail(s) = 1..(Len(s) - 1) /\ Head(s) = s[1]
      /\ \A i \in 1..(Len(s) - 1) : Tail(s)[i] = s[i + 1]
  BY EmptySeq
<1>2. IsInjective(Tail(s))
  BY <1>1 DEF IsInjective
<1>3. Range(Tail(s)) = Range(s) \ {Head(s)}
  <2>1. ASSUME NEW x \in Range(Tail(s))  PROVE x \in Range(s) \ {Head(s)}
    <3>1. PICK i \in 1..(Len(s) - 1) : x = s[i + 1]
      BY <1>1 DEF Range
    <3>2. i + 1 \in DOMAIN s /\ 1 \in DOMAIN s /\ i + 1 # 1
      BY <1>1
    <3> QED  BY <1>1, <3>1, <3>2 DEF Range, IsInjective
  <2>2. ASSUME NEW x \in Range(s) \ {Head(s)}  PROVE x \in Range(Tail(s))
    <3>1. PICK j \in 1..Len(s) : x = s[j] /\ j # 1
      BY <1>1 DEF Range
    <3>2. j - 1 \in 1..(Len(s) - 1) /\ (j - 1) + 1 = j
      BY <1>1, <3>1
    <3>3. Tail(s)[j - 1] = x
      BY <1>1, <3>1, <3>2
    <3> QED  BY <1>1, <3>2, <3>3 DEF Range
  <2> QED  BY <2>1, <2>2
<1>4. ASSUME NEW x, NEW y, Before(Tail(s), x, y)  PROVE Before(s, x, y)
  <2>1. PICK i, j \in 1..(Len(s) - 1) : i < j /\ s[i + 1] = x /\ s[j + 1] = y
    BY <1>1, <1>4 DEF Before
  <2>2. i + 1 \in DOMAIN s /\ j + 1 \in DOMAIN s /\ i + 1 < j + 1
    BY <1>1, <2>1
  <2> QED  BY <2>1, <2>2 DEF Before
<1>5. ASSUME NEW y \in Range(s)  PROVE y = Head(s) \/ Before(s, Head(s), y)
  <2>1. PICK j \in 1..Len(s) : y = s[j]
    BY <1>1 DEF Range
  <2>2. CASE j = 1
    BY <1>1, <2>1, <2>2
  <2>3. CASE j # 1
    <3>1. 1 \in DOMAIN s /\ j \in DOMAIN s /\ 1 < j
      BY <1>1, <2>1, <2>3
    <3> QED  BY <1>1, <2>1, <3>1 DEF Before
  <2> QED  BY <2>2, <2>3
<1>6. Head(s) \in Range(s)
  BY <1>1 DEF Range
<1> QED  BY <1>1, <1>2, <1>3, <1>4, <1>5, <1>6

(* What becoming the newest does.                                           *)
LEMMA NewestFacts ==
  ASSUME NEW H, NEW s \in Seq(H), IsInjective(s), NEW k \in H, k \notin Range(s)
  PROVE  /\ Append(s, k) \in Seq(H) /\ IsInjective(Append(s, k))
         /\ Range(Append(s, k)) = Range(s) \cup {k}
         /\ \A x, y : Before(Append(s, k), x, y) => x # k /\ (y = k \/ Before(s, x, y))
<1> DEFINE A == Append(s, k)
<1>1. /\ A \in Seq(H) /\ Len(s) \in Nat /\ DOMAIN s = 1..Len(s)
      /\ DOMAIN A = 1..(Len(s) + 1) /\ A[Len(s) + 1] = k
      /\ \A i \in 1..Len(s) : A[i] = s[i]
  OBVIOUS
<1> HIDE DEF A
<1>2. \A i \in 1..Len(s) : s[i] # k
  BY <1>1 DEF Range
<1>3. \A i \in DOMAIN A : i \in 1..Len(s) \/ i = Len(s) + 1
  BY <1>1
<1>4. IsInjective(A)
  BY <1>1, <1>2, <1>3 DEF IsInjective
<1>5. Range(A) = Range(s) \cup {k}
  <2>1. \A x \in Range(A) : x \in Range(s) \cup {k}
    BY <1>1, <1>3 DEF Range
  <2>2. \A i \in 1..Len(s) : i \in DOMAIN A
    BY <1>1
  <2>3. Len(s) + 1 \in DOMAIN A
    BY <1>1
  <2>4. \A x \in Range(s) \cup {k} : x \in Range(A)
    BY <1>1, <2>2, <2>3 DEF Range
  <2> QED  BY <2>1, <2>4
<1>6. ASSUME NEW x, NEW y, Before(A, x, y)  PROVE x # k /\ (y = k \/ Before(s, x, y))
  <2>1. PICK i, j \in DOMAIN A : i < j /\ A[i] = x /\ A[j] = y
    BY <1>6 DEF Before
  <2>2. i \in 1..Len(s)
    BY <1>1, <2>1
  <2> QED  BY <1>1, <1>2, <1>3, <2>1, <2>2 DEF Before
<1> QED  BY <1>1, <1>4, <1>5, <1>6 DEF A

(* A sequence of n turns names at most n handlers.                          *)
LEMMA TurnsBound ==
  ASSUME NEW H, NEW s \in Seq(H), NEW n \in 0..Len(s)
  PROVE  IsFiniteSet({ s[i] : i \in 1..n }) /\ Cardinality({ s[i] : i \in 1..n }) <= n
<1> DEFINE T == { s[i] : i \in 1..n }
           f == [i \in 1..n |-> s[i]]
<1>1. f \in Surjection(1..n, T)
  BY DEF Surjection
<1>2. IsFiniteSet(1..n) /\ Cardinality(1..n) = n
  BY FS_Interval
<1>3. IsFiniteSet(T) /\ Cardinality(T) <= Cardinality(1..n)
  BY <1>1, <1>2, FS_Surjection
<1> QED  BY <1>2, <1>3

-----------------------------------------------------------------------------

LEMMA FunctionsStart == EInit => FunctionsInv
<1> SUFFICES ASSUME EInit PROVE FunctionsInv
  OBVIOUS
<1> USE FunctionsAssumption DEF EInit, NotLoading
<1>1. FunctionsTypeOK
  <2>1. IsFiniteSet({}) /\ <<>> \in Seq(Handler) /\ IsInjective(<<>>)
    BY FS_EmptySet DEF IsInjective
  <2> QED  BY <2>1 DEF FunctionsTypeOK
<1>2. ManifestsEnd
  BY DEF ManifestsEnd
<1>3. OneLoads /\ LatestLast
  BY DEF OneLoads, LatestLast, Loading
<1>4. RoomLeft
  <2>1. Range(<<>>) = {} /\ Cardinality({}) = 0
    BY FS_EmptySet DEF Range
  <2> QED  BY <2>1 DEF RoomLeft
<1> QED  BY <1>1, <1>2, <1>3, <1>4 DEF FunctionsInv

(* Turns are counted from the start of the manifest.                        *)
LEMMA TurnsCount ==
  ASSUME load \in [Deploy -> [left : Seq(Handler), ordered : BOOLEAN]], NEW d \in Deploy
  PROVE  /\ Len(Routes[d]) \in Nat /\ Len(load[d].left) \in Nat
         /\ Turns[d] = Len(Routes[d]) - Len(load[d].left) /\ Turns[d] \in Int
<1>1. Routes[d] \in Seq(Handler) /\ load[d].left \in Seq(Handler)
  BY FunctionsAssumption
<1>2. Len(Routes[d]) \in Nat /\ Len(load[d].left) \in Nat
  BY <1>1
<1>3. Turns[d] = Len(Routes[d]) - Len(load[d].left)
  BY DEF Turns
<1> QED  BY <1>2, <1>3

LEMMA TurnsCountNext ==
  ASSUME load' \in [Deploy -> [left : Seq(Handler), ordered : BOOLEAN]], NEW d \in Deploy
  PROVE  /\ Len(Routes[d]) \in Nat /\ Len(load'[d].left) \in Nat
         /\ Turns'[d] = Len(Routes[d]) - Len(load'[d].left) /\ Turns'[d] \in Int
<1>1. Routes[d] \in Seq(Handler) /\ load'[d].left \in Seq(Handler)
  BY FunctionsAssumption
<1>2. Len(Routes[d]) \in Nat /\ Len(load'[d].left) \in Nat
  BY <1>1
<1>3. Turns'[d] = Len(Routes[d]) - Len(load'[d].left)
  BY DEF Turns
<1> QED  BY <1>2, <1>3

(* A deploy that begins is the last one, and has loaded nothing.            *)
LEMMA StartDeployKeeps ==
  ASSUME FunctionsInv, NEW d \in Deploy, StartDeploy(d)
  PROVE  FunctionsInv'
<1> USE FunctionsAssumption
<1>1. /\ UNCHANGED <<cached, loadOrder, manifests, run>> /\ latest' = d
      /\ overlapped' = (overlapped \/ \E o \in Deploy : Loading(o))
      /\ load' \in [Deploy -> [left : Seq(Handler), ordered : BOOLEAN]]
      /\ load'[d].left = Routes[d] /\ ~load'[d].ordered
      /\ \A o \in Deploy \ {d} : load'[o] = load[o]
  BY DEF StartDeploy, FunctionsInv, FunctionsTypeOK
<1>2. FunctionsTypeOK'
  BY <1>1 DEF FunctionsInv, FunctionsTypeOK
<1>3. ManifestsEnd'
  <2>1. ASSUME NEW o \in Deploy \ {d}
        PROVE  /\ load'[o].ordered => load'[o].left # <<>>
               /\ Len(load'[o].left) <= Len(Routes[o])
               /\ \A i \in 1..Len(load'[o].left) : load'[o].left[i] = Routes[o][Turns'[o] + i]
    <3>1. load'[o] = load[o]
      BY <1>1
    <3>2. Turns'[o] = Turns[o]
      BY <3>1 DEF Turns
    <3> QED  BY <3>1, <3>2 DEF FunctionsInv, ManifestsEnd, Loading
  <2>2. \A i \in 1..Len(load'[d].left) : load'[d].left[i] = Routes[d][Turns'[d] + i]
      BY <1>1, TurnsCountNext
  <2> QED  BY <1>1, <2>1, <2>2 DEF ManifestsEnd, Loading
<1>4. ASSUME ~overlapped'  PROVE OneLoads' /\ RoomLeft' /\ LatestLast'
  <2>1. ~overlapped /\ \A o \in Deploy : ~Loading(o)
    BY <1>1, <1>4 DEF FunctionsInv, FunctionsTypeOK
  <2>2. OneLoads'
    BY <1>1, <2>1 DEF OneLoads, Loading
  <2>3. \A o \in Deploy : ~load[o].ordered /\ ~load'[o].ordered
    BY <1>1, <2>1 DEF FunctionsInv, ManifestsEnd
  <2>4. RoomLeft'
    BY <1>1, <2>1, <2>3 DEF FunctionsInv, RoomLeft
  <2>5. Taken' = {} /\ Newest' = {}
    <3>1. Turns'[d] = 0
      BY <1>1 DEF Turns
    <3> QED  BY <1>1, <3>1 DEF Taken, Newest
  <2> QED  BY <2>2, <2>4, <2>5 DEF LatestLast
<1> QED  BY <1>2, <1>3, <1>4 DEF FunctionsInv

(* The order makes room, and what goes is not of the deploy that comes.     *)
LEMMA OrderKeeps ==
  ASSUME FunctionsInv, NEW d \in Deploy, Order(d)
  PROVE  FunctionsInv'
<1> USE FunctionsAssumption
<1> DEFINE h == Head(load[d].left)
           W == Without(Evicted, h)
           x == Head(loadOrder)
<1>1. /\ UNCHANGED <<manifests, run, overlapped, latest, deploys>>
      /\ Loading(d) /\ ~load[d].ordered
      /\ cached' = IF Full THEN cached \ {x} ELSE cached
      /\ loadOrder' = Append(W, h)
      /\ load' = [load EXCEPT ![d].ordered = TRUE]
  BY DEF Order, Reordered
<1>2. /\ load' \in [Deploy -> [left : Seq(Handler), ordered : BOOLEAN]]
      /\ load'[d].ordered /\ load'[d].left = load[d].left
      /\ \A o \in Deploy \ {d} : load'[o] = load[o]
  BY <1>1 DEF FunctionsInv, FunctionsTypeOK
<1>3. h \in Handler /\ Len(load[d].left) \in Nat \ {0}
  BY <1>1, EmptySeq DEF FunctionsInv, FunctionsTypeOK, Loading
<1>4. /\ Evicted \in Seq(Handler) /\ IsInjective(Evicted)
      /\ Full => x \in Range(loadOrder) /\ Range(Evicted) = Range(loadOrder) \ {x}
      /\ ~Full => Range(Evicted) = Range(loadOrder)
      /\ \A u, v : Before(Evicted, u, v) => Before(loadOrder, u, v)
      /\ Full => \A v \in Range(loadOrder) : v = x \/ Before(loadOrder, x, v)
  BY EvictFacts DEF Evicted, Full, FunctionsInv, FunctionsTypeOK
<1>5. /\ W \in Seq(Handler) /\ IsInjective(W) /\ Range(W) = Range(Evicted) \ {h}
      /\ \A u, v : Before(W, u, v) => Before(Evicted, u, v)
  BY <1>4, WithoutFacts
<1> HIDE DEF W, x, h
<1>6. /\ loadOrder' \in Seq(Handler) /\ IsInjective(loadOrder')
      /\ Range(loadOrder') = Range(Evicted) \cup {h}
      /\ \A u, v : Before(loadOrder', u, v) => u # h /\ (v = h \/ Before(loadOrder, u, v))
  BY <1>1, <1>3, <1>4, <1>5, NewestFacts
<1>7. FunctionsTypeOK'
  <2>1. cached' \in SUBSET Handler /\ IsFiniteSet(cached')
    BY <1>1, FS_RemoveElement DEF FunctionsInv, FunctionsTypeOK
  <2> QED  BY <1>1, <1>2, <1>6, <2>1 DEF FunctionsInv, FunctionsTypeOK
<1>8. ManifestsEnd' /\ Turns' = Turns
  <2>1. \A o \in Deploy : load'[o].left = load[o].left
    BY <1>2
  <2>2. Turns' = Turns
    BY <2>1 DEF Turns
  <2> QED  BY <1>1, <1>2, <2>1, <2>2 DEF FunctionsInv, ManifestsEnd, Loading
<1>9. ASSUME ~overlapped  PROVE OneLoads' /\ RoomLeft' /\ LatestLast'
  <2>1. OneLoads /\ RoomLeft /\ LatestLast
    BY <1>9 DEF FunctionsInv
  <2>2. \A o \in Deploy : (Loading(o))' <=> Loading(o)
    BY <1>2 DEF Loading
  <2>3. OneLoads'
    BY <1>1, <2>1, <2>2 DEF OneLoads
  <2>4. \A o \in Deploy : ~load[o].ordered
    BY <1>1, <2>1 DEF FunctionsInv, ManifestsEnd, OneLoads
  <2>5. cached = Range(loadOrder)
    BY <2>1, <2>4 DEF RoomLeft
  <2>6. \A o \in Deploy : load'[o].ordered <=> o = d
    BY <1>2, <2>4
  <2>7. Cardinality(cached') < MaxCached
    <3>1. Cardinality(cached) \in Nat
      BY FS_CardinalityType DEF FunctionsInv, FunctionsTypeOK
    <3>2. CASE Full
      <4>1. Cardinality(cached') = Cardinality(cached) - 1
        BY <1>1, <1>4, <2>5, <3>2, FS_RemoveElement DEF FunctionsInv, FunctionsTypeOK
      <4> QED  BY <2>1, <3>1, <4>1 DEF RoomLeft
    <3>3. CASE ~Full /\ loadOrder # <<>>
      BY <1>1, <3>1, <3>3 DEF Full
    <3>4. CASE loadOrder = <<>>
      <4>1. cached = {} /\ ~Full
        BY <2>5, <3>4 DEF Range, Full
      <4>2. Cardinality(cached') = 0
        BY <1>1, <4>1, FS_EmptySet
      <4> QED  BY <4>2
    <3> QED  BY <3>2, <3>3, <3>4
  <2>8. RoomLeft'
    <3>1. cached' \subseteq Range(loadOrder')
      BY <1>1, <1>4, <1>6, <2>5
    <3>2. \A k \in Range(loadOrder') : k \in cached' \/ k = h
      BY <1>1, <1>4, <1>6, <2>5
    <3>3. Head(load'[d].left) = h /\ load'[d].ordered
      BY <1>2 DEF h
    <3>4. Cardinality(cached') \in Nat
      BY <1>7, FS_CardinalityType DEF FunctionsTypeOK
    <3>5. h \in Range(loadOrder')
      BY <1>6
    <3> QED  BY <2>6, <2>7, <3>1, <3>2, <3>3, <3>4, <3>5 DEF RoomLeft
  <2>9. ASSUME latest # "none", Len(Routes[latest]) <= MaxCached
        PROVE  /\ Taken' \subseteq cached'
               /\ \A u, v \in Handler : Before(loadOrder, u, v)' /\ u \in Newest' => v \in Newest'
    <3>1. latest = d
      BY <1>1, <2>1, <2>9 DEF OneLoads
    <3>2. Taken' = Taken /\ Newest = Taken /\ Newest' = Taken \cup {h}
      BY <1>1, <1>2, <1>8, <2>4, <3>1 DEF Taken, Newest, h
    <3>3. Taken \subseteq cached /\
          \A u, v \in Handler : Before(loadOrder, u, v) /\ u \in Taken => v \in Taken
      BY <2>1, <2>9, <3>2 DEF LatestLast
    <3>4. ASSUME Full  PROVE x \notin Taken
      <4> SUFFICES ASSUME x \in Taken  PROVE FALSE
        OBVIOUS
      <4>1. cached \subseteq Taken
        BY <1>4, <2>5, <3>3, <3>4 DEF FunctionsInv, FunctionsTypeOK
      <4>2. Turns[d] \in 0..(Len(Routes[d]) - 1)
        BY <1>3, TurnsCount DEF FunctionsInv, FunctionsTypeOK, ManifestsEnd
      <4>3. IsFiniteSet(Taken) /\ Cardinality(Taken) <= Turns[d]
        <5>1. Routes[d] \in Seq(Handler) /\ Turns[d] \in 0..Len(Routes[d])
          BY <4>2, TurnsCount DEF FunctionsInv, FunctionsTypeOK
        <5>2. /\ IsFiniteSet({ Routes[d][i] : i \in 1..Turns[d] })
              /\ Cardinality({ Routes[d][i] : i \in 1..Turns[d] }) <= Turns[d]
          BY <5>1, TurnsBound
        <5> QED  BY <3>1, <5>2 DEF Taken
      <4>4. Cardinality(cached) <= Cardinality(Taken)
        BY <4>1, <4>3, FS_Subset
      <4>5. Cardinality(cached) \in Nat /\ Cardinality(Taken) \in Nat
        BY <4>3, FS_CardinalityType DEF FunctionsInv, FunctionsTypeOK
      <4> QED  BY <2>9, <3>1, <3>4, <4>2, <4>3, <4>4, <4>5 DEF Full
    <3>5. Taken' \subseteq cached'
      BY <1>1, <3>2, <3>3, <3>4
    <3>6. ASSUME NEW u \in Handler, NEW v \in Handler, Before(loadOrder', u, v), u \in Newest'
          PROVE  v \in Newest'
      BY <1>6, <3>2, <3>3, <3>6
    <3> QED  BY <3>5, <3>6
  <2> QED  BY <1>1, <2>3, <2>8, <2>9 DEF LatestLast
<1> QED  BY <1>1, <1>7, <1>8, <1>9 DEF FunctionsInv

(* The module comes to where there is room for it.                          *)
LEMMA InsertKeepsFunctions ==
  ASSUME FunctionsInv, NEW d \in Deploy, Insert(d)
  PROVE  FunctionsInv'
<1> USE FunctionsAssumption
<1> DEFINE h == Head(load[d].left)
<1>1. /\ UNCHANGED <<loadOrder, run, overlapped, latest, deploys>>
      /\ Loading(d) /\ load[d].ordered /\ cached' = cached \cup {h}
      /\ load' = [load EXCEPT ![d] = [left |-> Tail(@.left), ordered |-> FALSE]]
  BY DEF Insert
<1>2. /\ h \in Handler /\ Len(load[d].left) \in Nat \ {0} /\ Tail(load[d].left) \in Seq(Handler)
      /\ Len(Tail(load[d].left)) = Len(load[d].left) - 1 /\ h = load[d].left[1]
      /\ \A i \in 1..(Len(load[d].left) - 1) : Tail(load[d].left)[i] = load[d].left[i + 1]
  BY <1>1, EmptySeq DEF FunctionsInv, FunctionsTypeOK, Loading
<1>3. /\ load' \in [Deploy -> [left : Seq(Handler), ordered : BOOLEAN]]
      /\ ~load'[d].ordered /\ load'[d].left = Tail(load[d].left)
      /\ \A o \in Deploy \ {d} : load'[o] = load[o]
  BY <1>1, <1>2 DEF FunctionsInv, FunctionsTypeOK
<1>4. FunctionsTypeOK'
  <2>1. cached' \in SUBSET Handler /\ IsFiniteSet(cached')
    BY <1>1, <1>2, FS_AddElement DEF FunctionsInv, FunctionsTypeOK
  <2> QED  BY <1>1, <1>3, <2>1 DEF FunctionsInv, FunctionsTypeOK
<1>5. /\ Turns'[d] = Turns[d] + 1 /\ Turns[d] \in Nat
      /\ \A o \in Deploy \ {d} : Turns'[o] = Turns[o]
  <2>1. load \in [Deploy -> [left : Seq(Handler), ordered : BOOLEAN]]
    BY DEF FunctionsInv, FunctionsTypeOK
  <2>2. ASSUME NEW o \in Deploy \ {d}  PROVE Turns'[o] = Turns[o]
    <3>1. load'[o] = load[o]
      BY <1>3
    <3> QED  BY <3>1 DEF Turns
  <2>3. /\ Turns[d] = Len(Routes[d]) - Len(load[d].left) /\ Turns[d] \in Int
        /\ Len(Routes[d]) \in Nat /\ Turns'[d] = Len(Routes[d]) - Len(load'[d].left)
    BY <1>3, <2>1, TurnsCount, TurnsCountNext
  <2>4. Len(load[d].left) <= Len(Routes[d])
    BY DEF FunctionsInv, ManifestsEnd
  <2>5. Len(load'[d].left) = Len(load[d].left) - 1 /\ Len(load[d].left) \in Nat
    BY <1>2, <1>3
  <2>6. Turns'[d] = Turns[d] + 1 /\ Turns[d] \in Nat
    BY <2>3, <2>4, <2>5
  <2> QED  BY <2>2, <2>6
<1>6. ManifestsEnd'
  <2>1. ASSUME NEW o \in Deploy \ {d}
        PROVE  /\ load'[o].ordered => load'[o].left # <<>>
               /\ Len(load'[o].left) <= Len(Routes[o])
               /\ \A i \in 1..Len(load'[o].left) : load'[o].left[i] = Routes[o][Turns'[o] + i]
    <3>1. load'[o] = load[o] /\ Turns'[o] = Turns[o]
      BY <1>3, <1>5
    <3> QED  BY <3>1 DEF FunctionsInv, ManifestsEnd, Loading
  <2>2. Len(load'[d].left) <= Len(Routes[d])
    BY <1>2, <1>3 DEF FunctionsInv, ManifestsEnd
  <2>3. ASSUME NEW i \in 1..Len(load'[d].left)
        PROVE  load'[d].left[i] = Routes[d][Turns'[d] + i]
    <3>1. i \in 1..(Len(load[d].left) - 1) /\ i + 1 \in 1..Len(load[d].left)
      BY <1>2, <1>3
    <3>2. load[d].left[i + 1] = Routes[d][Turns[d] + (i + 1)]
      BY <3>1 DEF FunctionsInv, ManifestsEnd
    <3>3. Turns[d] + (i + 1) = Turns'[d] + i
      <4>1. i \in Int /\ Turns[d] \in Int
        BY <1>5, <3>1
      <4> QED  BY <1>5, <4>1
    <3> QED  BY <1>2, <1>3, <3>1, <3>2, <3>3
  <2> QED  BY <1>3, <2>1, <2>2, <2>3 DEF ManifestsEnd, Loading
<1>7. h = Routes[d][Turns'[d]]
  BY <1>2, <1>5 DEF FunctionsInv, ManifestsEnd
<1>8. ASSUME ~overlapped  PROVE OneLoads' /\ RoomLeft' /\ LatestLast'
  <2>1. OneLoads /\ RoomLeft /\ LatestLast
    BY <1>8 DEF FunctionsInv
  <2>2. \A o \in Deploy : load'[o].left # <<>> => Loading(o)
    BY <1>1, <1>3 DEF Loading
  <2>3. OneLoads'
    BY <1>1, <2>1, <2>2 DEF OneLoads, Loading
  <2>4. \A o \in Deploy : load[o].ordered <=> o = d
    BY <1>1, <2>1 DEF FunctionsInv, ManifestsEnd, OneLoads
  <2>5. \A o \in Deploy : ~load'[o].ordered
    BY <1>3, <2>4
  <2>6. RoomLeft'
    <3>1. h \in Range(loadOrder) /\ cached \subseteq Range(loadOrder) /\ \A k \in Range(loadOrder) : k \in cached \/ k = h
      BY <1>1, <2>1, <2>4 DEF RoomLeft
    <3>2. Cardinality(cached') <= MaxCached
      <4>1. Cardinality(cached) \in Nat
        BY FS_CardinalityType DEF FunctionsInv, FunctionsTypeOK
      <4>2. Cardinality(cached') = IF h \in cached THEN Cardinality(cached)
                                   ELSE Cardinality(cached) + 1
        BY <1>1, FS_AddElement DEF FunctionsInv, FunctionsTypeOK
      <4> QED  BY <1>1, <2>1, <4>1, <4>2 DEF RoomLeft
    <3> QED  BY <1>1, <2>5, <3>1, <3>2 DEF RoomLeft
  <2>7. LatestLast'
    <3> SUFFICES ASSUME latest # "none", Len(Routes[latest]) <= MaxCached
                 PROVE  /\ Taken' \subseteq cached'
                        /\ \A u, v \in Handler :
                              Before(loadOrder, u, v) /\ u \in Newest' => v \in Newest'
      BY <1>1 DEF LatestLast
    <3>1. latest = d
      BY <1>1, <2>1 DEF OneLoads
    <3>2. Taken' = Taken \cup {h}
      <4>1. 1..Turns'[d] = 1..Turns[d] \cup {Turns'[d]}
        BY <1>5
      <4> QED  BY <1>1, <1>7, <3>1, <4>1 DEF Taken
    <3>3. Newest' = Taken' /\ Newest = Taken \cup {h}
      BY <1>1, <1>3, <3>1 DEF Newest
    <3> QED  BY <1>1, <2>1, <3>2, <3>3 DEF LatestLast
  <2> QED  BY <2>3, <2>6, <2>7
<1> QED  BY <1>1, <1>4, <1>6, <1>8 DEF FunctionsInv

(* A handler that is passed over takes the promise to the deploy with it.   *)
LEMMA SkipKeeps ==
  ASSUME FunctionsInv, NEW d \in Deploy, Skip(d)
  PROVE  FunctionsInv'
<1> USE FunctionsAssumption
<1>1. /\ UNCHANGED <<cached, loadOrder, run, overlapped, deploys>> /\ latest' = "none"
      /\ Loading(d) /\ ~load[d].ordered /\ load' = [load EXCEPT ![d].left = Tail(@)]
  BY DEF Skip
<1>2. /\ Len(load[d].left) \in Nat \ {0} /\ Tail(load[d].left) \in Seq(Handler)
      /\ Len(Tail(load[d].left)) = Len(load[d].left) - 1
      /\ \A i \in 1..(Len(load[d].left) - 1) : Tail(load[d].left)[i] = load[d].left[i + 1]
  BY <1>1, EmptySeq DEF FunctionsInv, FunctionsTypeOK, Loading
<1>3. /\ load' \in [Deploy -> [left : Seq(Handler), ordered : BOOLEAN]]
      /\ ~load'[d].ordered /\ load'[d].left = Tail(load[d].left)
      /\ \A o \in Deploy \ {d} : load'[o] = load[o]
  BY <1>1, <1>2 DEF FunctionsInv, FunctionsTypeOK
<1>4. FunctionsTypeOK'
  BY <1>1, <1>3 DEF FunctionsInv, FunctionsTypeOK
<1>5. Turns'[d] = Turns[d] + 1 /\ \A o \in Deploy \ {d} : Turns'[o] = Turns[o]
  <2>1. load \in [Deploy -> [left : Seq(Handler), ordered : BOOLEAN]]
    BY DEF FunctionsInv, FunctionsTypeOK
  <2>2. ASSUME NEW o \in Deploy \ {d}  PROVE Turns'[o] = Turns[o]
    <3>1. load'[o] = load[o]
      BY <1>3
    <3> QED  BY <3>1 DEF Turns
  <2>3. /\ Turns[d] = Len(Routes[d]) - Len(load[d].left) /\ Turns[d] \in Int
        /\ Len(Routes[d]) \in Nat /\ Turns'[d] = Len(Routes[d]) - Len(load'[d].left)
    BY <1>3, <2>1, TurnsCount, TurnsCountNext
  <2>4. Len(load[d].left) <= Len(Routes[d])
    BY DEF FunctionsInv, ManifestsEnd
  <2>5. Len(load'[d].left) = Len(load[d].left) - 1 /\ Len(load[d].left) \in Nat
    BY <1>2, <1>3
  <2>6. Turns'[d] = Turns[d] + 1 /\ Turns[d] \in Nat
    BY <2>3, <2>4, <2>5
  <2> QED  BY <2>2, <2>6
<1>6. ManifestsEnd'
  <2>1. ASSUME NEW o \in Deploy \ {d}
        PROVE  /\ load'[o].ordered => load'[o].left # <<>>
               /\ Len(load'[o].left) <= Len(Routes[o])
               /\ \A i \in 1..Len(load'[o].left) : load'[o].left[i] = Routes[o][Turns'[o] + i]
    BY <1>3, <1>5 DEF FunctionsInv, FunctionsTypeOK, ManifestsEnd, Loading
  <2>2. Len(load'[d].left) <= Len(Routes[d])
    BY <1>2, <1>3 DEF FunctionsInv, ManifestsEnd
  <2>3. ASSUME NEW i \in 1..Len(load'[d].left)
        PROVE  load'[d].left[i] = Routes[d][Turns'[d] + i]
    <3>1. i \in 1..(Len(load[d].left) - 1) /\ i + 1 \in 1..Len(load[d].left)
      BY <1>2, <1>3
    <3>2. load[d].left[i + 1] = Routes[d][Turns[d] + (i + 1)]
      BY <3>1 DEF FunctionsInv, ManifestsEnd
    <3>3. Turns[d] + (i + 1) = Turns'[d] + i
      BY <1>2, <1>5, <3>1, TurnsCount DEF FunctionsInv, FunctionsTypeOK
    <3> QED  BY <1>2, <1>3, <3>1, <3>2, <3>3
  <2> QED  BY <1>3, <2>1, <2>2, <2>3 DEF ManifestsEnd, Loading
<1>7. ASSUME ~overlapped  PROVE OneLoads' /\ RoomLeft' /\ LatestLast'
  <2>1. OneLoads /\ RoomLeft
    BY <1>7 DEF FunctionsInv
  <2>2. \A o \in Deploy : load'[o].left # <<>> => Loading(o)
    BY <1>1, <1>3 DEF Loading
  <2>3. \A o \in Deploy : ~load[o].ordered /\ ~load'[o].ordered
    BY <1>1, <1>3, <2>1 DEF FunctionsInv, ManifestsEnd, OneLoads
  <2> QED  BY <1>1, <2>1, <2>2, <2>3 DEF OneLoads, RoomLeft, LatestLast, Loading
<1> QED  BY <1>1, <1>4, <1>6, <1>7 DEF FunctionsInv

LEMMA FunctionsKeep == FunctionsInv /\ [ENext]_evars => FunctionsInv'
<1> SUFFICES ASSUME FunctionsInv, [ENext]_evars PROVE FunctionsInv'
  OBVIOUS
<1>1. ASSUME UNCHANGED <<cached, loadOrder, load, overlapped, latest>>  PROVE FunctionsInv'
    <2>1. FunctionsTypeOK' /\ ManifestsEnd'
    BY <1>1 DEF FunctionsInv, FunctionsTypeOK, ManifestsEnd, Turns, Loading
  <2>2. OneLoads' = OneLoads /\ RoomLeft' = RoomLeft
    BY <1>1 DEF OneLoads, RoomLeft, Loading
  <2>3. LatestLast' = LatestLast
    BY <1>1 DEF LatestLast, Taken, Newest, Turns
  <2> QED  BY <1>1, <2>1, <2>2, <2>3 DEF FunctionsInv
<1>2. ASSUME NEW r \in Caller, Match(r) \/ Execute(r)  PROVE FunctionsInv'
  BY <1>1, <1>2 DEF Match, Execute
<1>3. CASE UNCHANGED evars
  BY <1>1, <1>3 DEF evars
<1> QED  BY <1>2, <1>3, StartDeployKeeps, OrderKeeps, InsertKeepsFunctions, SkipKeeps DEF ENext

(* The cache of modules keeps to its limit, eviction finds all it has, and  *)
(* what was deployed last has its functions, for any manifests and any size *)
(* of the cache, while deploys load one after the other                     *)
(* (wasm_runtime.rs:91).                                                    *)
THEOREM FunctionsAreKept == ESpec => []FunctionsKept
<1>1. FunctionsInv => FunctionsKept
  <2> SUFFICES ASSUME FunctionsInv  PROVE FunctionsKept
    OBVIOUS
  <2>1. ModulesBounded
    BY DEF FunctionsInv, RoomLeft, ModulesBounded
  <2>2. OrderCovers
    <3> SUFFICES ASSUME ~overlapped
                 PROVE  /\ cached \subseteq Range(loadOrder)
                        /\ \A i \in DOMAIN loadOrder :
                              \/ loadOrder[i] \in cached
                              \/ \E d \in Deploy : Loading(d) /\ load[d].ordered
                                                    /\ Head(load[d].left) = loadOrder[i]
      BY DEF FunctionsInv, FunctionsTypeOK, OrderCovers
    <3>1. RoomLeft /\ \A i \in DOMAIN loadOrder : loadOrder[i] \in Range(loadOrder)
      BY DEF FunctionsInv, Range
    <3> QED  BY <3>1 DEF FunctionsInv, RoomLeft, ManifestsEnd
  <2>3. DeployedIsLoaded
    <3> SUFFICES ASSUME latest # "none", ~overlapped, ~Loading(latest),
                        Len(Routes[latest]) <= MaxCached
                 PROVE  Routed(latest) \subseteq cached
      BY DEF DeployedIsLoaded
    <3>1. latest \in Deploy /\ Routes[latest] \in Seq(Handler)
      BY FunctionsAssumption DEF FunctionsInv, FunctionsTypeOK
    <3>2. Turns[latest] = Len(Routes[latest])
      <4>1. /\ Turns[latest] = Len(Routes[latest]) - Len(load[latest].left)
            /\ Len(Routes[latest]) \in Nat
        BY <3>1, TurnsCount DEF FunctionsInv, FunctionsTypeOK
      <4>2. Len(load[latest].left) = 0
        BY DEF Loading
      <4> QED  BY <4>1, <4>2
    <3>3. Routed(latest) = Taken
      BY <3>1, <3>2 DEF Routed, Range, Taken
    <3> QED  BY <3>3 DEF FunctionsInv, LatestLast
  <2> QED  BY <2>1, <2>2, <2>3 DEF FunctionsKept
<1> QED  BY <1>1, FunctionsStart, FunctionsKeep, PTL DEF ESpec

-----------------------------------------------------------------------------
(* The stores of functions.  A key is removed as expired only while no put   *)
(* can renew it (Expiring); a namespace that is added had been counted when  *)
(* its put was let in (Room); and Redis has, or will have, what was put last *)
(* (Follow).                                                                 *)

PutCall   == { c \in [op : {"put"}, ns : Namespace, key : Keys, id : Nat, ttl : Lifetimes] :
                 <<c.ns, c.key>> \in Item }
EvictCall == [op : {"evict"}, ns : Namespace, keys : SUBSET Keys]
StoreEntry == [id : Nat, expires : Nat \cup {NoValue}]
StoreWrite == [item : Item, id : Nat, what : Nat \cup {NoValue}]

StoreTypeOK ==
    /\ service \in {"kv", "secrets"}
    /\ DOMAIN kv \subseteq Namespace /\ IsFiniteSet(DOMAIN kv)
    /\ \A n \in DOMAIN kv : IsFiniteSet(DOMAIN kv[n])
    /\ \A n, k : Has(n, k) => <<n, k>> \in Item /\ kv[n][k] \in StoreEntry
    /\ call \in [Worker -> {NoCall} \cup PutCall \cup EvictCall]
    /\ redis \in [Item -> Nat \cup {NoValue}]
    /\ late \subseteq StoreWrite /\ mixed \subseteq Item
    /\ clock \in Nat /\ puts \in Nat

Putting == { w \in Worker : call[w].op = "put" }
\* The workers that are about to add a namespace.
Adding  == { w \in Putting : call[w].ns \notin DOMAIN kv }

Room ==
    /\ Cardinality(DOMAIN kv) + Cardinality(Adding)
         <= MaxNamespaces + Cardinality(Worker) - 1
    /\ KeysBounded

\* No put has an identifier that is in use, and what is under way to Redis
\* for the entry that the store has is the entry.
Fresh ==
    /\ \A x \in late : x.id <= puts
    /\ \A n, k : Has(n, k) =>
          /\ kv[n][k].id <= puts
          /\ \A x \in late : x.item = <<n, k>> /\ x.id = kv[n][k].id => x.what = x.id
    /\ \A w \in Putting :
          /\ call[w].id <= puts
          /\ \A x \in late : x.id # call[w].id
          /\ \A n, k : Has(n, k) => kv[n][k].id # call[w].id
          /\ \A v \in Putting \ {w} : call[v].id # call[w].id

Follow(n, k) ==
    <<n, k>> \notin mixed =>
        /\ \A x, y \in late : x.item = <<n, k>> /\ y.item = <<n, k>> => x = y
        /\ Has(n, k) =>
              /\ \A x \in late : x.item = <<n, k>> => x.what = kv[n][k].id
              /\ (\A x \in late : x.item # <<n, k>>) => redis[<<n, k>>] = kv[n][k].id

Expiring ==
    \A w \in Worker : call[w].op = "evict" =>
        \A k \in call[w].keys : Has(call[w].ns, k) => Expired(kv[call[w].ns][k])

StoreInv ==
    /\ StoreTypeOK /\ Room /\ Fresh
    /\ service = "kv" => Expiring /\ \A n, k : Follow(n, k)

(* What a worker is in the middle of tells its call.                         *)
LEMMA CallFacts ==
  ASSUME StoreTypeOK, NEW w \in Worker
  PROVE  /\ call[w].op = "put" => call[w] \in PutCall
         /\ call[w].op = "evict" => call[w] \in EvictCall
         /\ call[w] = NoCall => call[w].op = "idle"
<1>1. call[w] \in {NoCall} \cup PutCall \cup EvictCall
  BY DEF StoreTypeOK
<1>2. NoCall.op = "idle" /\ (\A c \in PutCall : c.op = "put") /\ (\A c \in EvictCall : c.op = "evict")
  BY DEF NoCall, PutCall, EvictCall
<1> QED  BY <1>1, <1>2

(* What a put does to the maps, when there is room and when there is not.    *)
LEMMA InsertionFacts ==
  ASSUME NEW n, NEW k, NEW e, NEW ns, ns = IF n \in DOMAIN kv THEN kv[n] ELSE <<>>,
         kv' = With(kv, n, With(ns, k, e))
  PROVE  /\ DOMAIN kv' = DOMAIN kv \cup {n}
         /\ DOMAIN kv'[n] = DOMAIN ns \cup {k}
         /\ \A m \in DOMAIN kv \ {n} : kv'[m] = kv[m]
         /\ \A m, j : Has(m, j)' <=> (m = n /\ j = k) \/ Has(m, j)
         /\ kv'[n][k] = e
         /\ \A m, j : Has(m, j) /\ ~(m = n /\ j = k) => kv'[m][j] = kv[m][j]
<1>1. \A j : j \in DOMAIN ns <=> Has(n, j)
  BY DEF Has
<1>2. /\ DOMAIN kv' = DOMAIN kv \cup {n}
      /\ DOMAIN kv'[n] = DOMAIN ns \cup {k}
      /\ \A m \in DOMAIN kv \ {n} : kv'[m] = kv[m]
      /\ kv'[n][k] = e /\ \A j \in DOMAIN ns \ {k} : kv'[n][j] = ns[j]
  BY DEF With
<1> QED  BY <1>1, <1>2 DEF Has

LEMMA NamespaceFacts ==
  ASSUME NEW n, kv' = With(kv, n, IF n \in DOMAIN kv THEN kv[n] ELSE <<>>)
  PROVE  /\ DOMAIN kv' = DOMAIN kv \cup {n}
         /\ DOMAIN kv'[n] = IF n \in DOMAIN kv THEN DOMAIN kv[n] ELSE {}
         /\ \A m \in DOMAIN kv \ {n} : kv'[m] = kv[m]
         /\ \A m, j : Has(m, j)' <=> Has(m, j)
         /\ \A m, j : Has(m, j) => kv'[m][j] = kv[m][j]
<1>1. /\ DOMAIN kv' = DOMAIN kv \cup {n} /\ kv'[n] = IF n \in DOMAIN kv THEN kv[n] ELSE <<>>
      /\ \A m \in DOMAIN kv \ {n} : kv'[m] = kv[m]
  BY DEF With
<1>2. DOMAIN <<>> = {}
  OBVIOUS
<1> QED  BY <1>1, <1>2 DEF Has

LEMMA RemovalFacts ==
  ASSUME NEW n, NEW k, kv' = [kv EXCEPT ![n] = Removed(@, k)]
  PROVE  /\ DOMAIN kv' = DOMAIN kv
         /\ \A m \in DOMAIN kv : DOMAIN kv'[m] \subseteq DOMAIN kv[m]
         /\ \A m, j : Has(m, j)' <=> Has(m, j) /\ ~(m = n /\ j = k)
         /\ \A m, j : Has(m, j)' => kv'[m][j] = kv[m][j]
<1>1. DOMAIN kv' = DOMAIN kv /\ \A m \in DOMAIN kv \ {n} : kv'[m] = kv[m]
  OBVIOUS
<1>2. n \in DOMAIN kv => /\ DOMAIN kv'[n] = DOMAIN kv[n] \ {k}
                         /\ \A j \in DOMAIN kv[n] \ {k} : kv'[n][j] = kv[n][j]
  BY DEF Removed, Restrict
<1>3. ASSUME NEW m \in DOMAIN kv
      PROVE  /\ DOMAIN kv'[m] = DOMAIN kv[m] \ (IF m = n THEN {k} ELSE {})
             /\ \A j \in DOMAIN kv'[m] : kv'[m][j] = kv[m][j]
  <2>1. CASE m = n
    BY <1>2, <2>1
  <2>2. CASE m # n
    BY <1>1, <2>2
  <2> QED  BY <2>1, <2>2
<1> QED  BY <1>1, <1>3 DEF Has

-----------------------------------------------------------------------------
LEMMA StoreStarts == KvInit => StoreInv
<1> SUFFICES ASSUME KvInit PROVE StoreInv
  OBVIOUS
<1>1. DOMAIN kv = {} /\ \A n, k : ~Has(n, k)
  BY DEF KvInit, Has
<1>2. \A w \in Worker : call[w] = NoCall /\ NoCall.op = "idle"
  BY DEF KvInit, NoCall
<1>3. Putting = {} /\ Adding = {}
  BY <1>2 DEF Putting, Adding
<1>4. StoreTypeOK
  BY <1>1, FS_EmptySet DEF KvInit, StoreTypeOK
<1>5. Room
  <2>1. Cardinality({}) = 0 /\ Cardinality(Worker) \in Nat /\ Cardinality(Worker) # 0
    BY StoreAssumption, FS_EmptySet, FS_CardinalityType
  <2> QED  BY <1>1, <1>3, <2>1, StoreAssumption DEF Room, KeysBounded
<1>6. Fresh /\ Expiring /\ \A n, k : Follow(n, k)
  BY <1>1, <1>2, <1>3 DEF Fresh, Expiring, Follow, KvInit
<1> QED  BY <1>4, <1>5, <1>6 DEF StoreInv

(* Room is kept where no namespace and no key is added.                      *)
LEMMA RoomStays ==
  ASSUME StoreTypeOK, Room, Adding' \subseteq Adding, DOMAIN kv' = DOMAIN kv,
         UNCHANGED service, \A n \in DOMAIN kv : DOMAIN kv'[n] \subseteq DOMAIN kv[n]
  PROVE  Room' /\ \A n \in DOMAIN kv' : IsFiniteSet(DOMAIN kv'[n])
<1>1. IsFiniteSet(Adding)
  BY StoreAssumption, FS_Subset DEF Adding, Putting
<1>2. Cardinality(Adding') <= Cardinality(Adding) /\ Cardinality(Adding') \in Nat
      /\ Cardinality(Adding) \in Nat
  BY <1>1, FS_Subset, FS_CardinalityType
<1>3. \A n \in DOMAIN kv : /\ IsFiniteSet(DOMAIN kv'[n])
                           /\ Cardinality(DOMAIN kv'[n]) <= Cardinality(DOMAIN kv[n])
                           /\ Cardinality(DOMAIN kv'[n]) \in Nat /\ Cardinality(DOMAIN kv[n]) \in Nat
  BY FS_Subset, FS_CardinalityType DEF StoreTypeOK
<1>4. Cardinality(DOMAIN kv) \in Nat /\ Cardinality(Worker) \in Nat
  BY FS_CardinalityType, StoreAssumption DEF StoreTypeOK
<1>5. KeysBounded'
  BY <1>3, StoreAssumption DEF Room, KeysBounded
<1> QED  BY <1>2, <1>3, <1>4, <1>5, StoreAssumption DEF Room

-----------------------------------------------------------------------------
(* Who finds that keys have expired, and the time.                          *)
LEMMA FindingKeeps ==
  ASSUME StoreInv, NEW w \in Worker, NEW n \in Namespace,
         Collect(w, n) \/ \E k \in Keys : GetExpired(w, n, k)
  PROVE  StoreInv'
<1>1. PICK S \in SUBSET Keys : /\ \A k \in S : Has(n, k) /\ Expired(kv[n][k])
                              /\ call' = [call EXCEPT ![w] = [op |-> "evict", ns |-> n, keys |-> S]]
  <2>1. CASE Collect(w, n)
    BY <2>1 DEF Collect
  <2>2. ASSUME NEW k \in Keys, GetExpired(w, n, k)
        PROVE  /\ \A j \in {k} : Has(n, j) /\ Expired(kv[n][j])
               /\ call' = [call EXCEPT ![w] = [op |-> "evict", ns |-> n, keys |-> {k}]]
    BY <2>2 DEF GetExpired
  <2> QED  BY <2>1, <2>2
<1>2. UNCHANGED <<service, kv, redis, late, mixed, clock, puts>> /\ call[w] = NoCall
  BY DEF Collect, GetExpired
<1>3. [op |-> "evict", ns |-> n, keys |-> S] \in EvictCall
  BY DEF EvictCall
<1>4. /\ call'[w] = [op |-> "evict", ns |-> n, keys |-> S] /\ call' \in [Worker -> {NoCall} \cup PutCall \cup EvictCall]
      /\ \A v \in Worker \ {w} : call'[v] = call[v]
  BY <1>1, <1>3 DEF StoreInv, StoreTypeOK
<1>5. StoreTypeOK'
  BY <1>2, <1>4 DEF StoreInv, StoreTypeOK, Has
<1>6. Putting' = Putting /\ Adding' = Adding /\ w \notin Putting
  BY <1>2, <1>4, CallFacts DEF Putting, Adding, StoreInv
<1>7. Room' /\ Fresh'
  <2>1. Room'
    BY <1>2, <1>6 DEF Room, KeysBounded, StoreInv
  <2>2. \A v \in Putting : call'[v] = call[v]
    BY <1>4, <1>6 DEF Putting
  <2> QED  BY <1>2, <1>6, <2>1, <2>2 DEF Fresh, Has, StoreInv
<1>8. service' = "kv" => Expiring' /\ \A m, j : Follow(m, j)'
  <2>1. \A m, j : Follow(m, j)' = Follow(m, j)
    BY <1>2 DEF Follow, Has
  <2>2. ASSUME Expiring, NEW v \in Worker, call'[v].op = "evict", NEW k \in call'[v].keys,
               Has(call'[v].ns, k)
        PROVE  Expired(kv[call'[v].ns][k])
    BY <1>1, <1>4, <2>2 DEF Expiring
  <2>3. Expiring => Expiring'
    BY <1>2, <2>2 DEF Expiring, Expired, Has
  <2> QED  BY <1>2, <2>1, <2>3 DEF StoreInv
<1> QED  BY <1>5, <1>7, <1>8 DEF StoreInv

LEMMA TimeKeeps == ASSUME StoreInv, Tick PROVE StoreInv'
<1>1. clock \in Nat /\ clock' = clock + 1 /\ UNCHANGED <<service, kv, call, redis, late, mixed, puts>>
  BY DEF Tick, StoreInv, StoreTypeOK
<1>2. StoreTypeOK' /\ Room' /\ Fresh' /\ \A m, j : Follow(m, j)' = Follow(m, j)
  BY <1>1 DEF StoreInv, StoreTypeOK, Room, KeysBounded, Fresh, Follow, Has, Putting, Adding
<1>3. ASSUME Expiring, NEW v \in Worker, call[v].op = "evict", NEW k \in call[v].keys, Has(call[v].ns, k)
      PROVE  Expired(kv[call[v].ns][k])'
  <2>1. kv[call[v].ns][k].expires \in Nat \cup {NoValue}
    BY <1>3 DEF StoreInv, StoreTypeOK, StoreEntry
  <2> QED  BY <1>1, <1>3, <2>1, StoreAssumption DEF Expiring, Expired
<1>4. Expiring => Expiring'
  BY <1>1, <1>3 DEF Expiring, Has
<1> QED  BY <1>1, <1>2, <1>4 DEF StoreInv

(* A put is let in.                                                         *)
LEMMA PutCheckKeeps ==
  ASSUME StoreInv, NEW w \in Worker, NEW n \in Namespace, NEW k \in Keys,
         <<n, k>> \in Item, PutCheck(w, n, k)
  PROVE  StoreInv'
<1>1. PICK ttl \in Lifetimes :
         call' = [call EXCEPT ![w] = [op |-> "put", ns |-> n, key |-> k, id |-> puts + 1, ttl |-> ttl]]
  BY StoreAssumption DEF PutCheck
<1> DEFINE c == [op |-> "put", ns |-> n, key |-> k, id |-> puts + 1, ttl |-> ttl]
<1>2. /\ UNCHANGED <<service, kv, redis, late, mixed, clock>> /\ puts' = puts + 1
      /\ puts \in Nat /\ call[w] = NoCall
      /\ n \in DOMAIN kv \/ Cardinality(DOMAIN kv) < MaxNamespaces
  BY DEF PutCheck, StoreInv, StoreTypeOK
<1>3. c \in PutCall
  BY <1>2 DEF PutCall
<1>4. /\ call'[w] = c /\ call' \in [Worker -> {NoCall} \cup PutCall \cup EvictCall]
      /\ \A v \in Worker \ {w} : call'[v] = call[v]
  BY <1>1, <1>3 DEF StoreInv, StoreTypeOK
<1>5. StoreTypeOK'
  BY <1>2, <1>4 DEF StoreInv, StoreTypeOK, Has
<1>6. Putting' = Putting \cup {w} /\ w \notin Putting
  BY <1>2, <1>4, CallFacts DEF Putting, StoreInv
<1>7. Room'
  <2>1. CASE n \in DOMAIN kv
    <3>1. Adding' = Adding
      BY <1>2, <1>4, <1>6, <2>1 DEF Adding, Putting
    <3> QED  BY <1>2, <3>1 DEF Room, KeysBounded, StoreInv
  <2>2. CASE Cardinality(DOMAIN kv) < MaxNamespaces
    <3>1. Adding' \subseteq Worker
      BY DEF Adding, Putting
    <3>2. /\ Cardinality(Adding') <= Cardinality(Worker) /\ Cardinality(Adding') \in Nat
          /\ Cardinality(Worker) \in Nat /\ Cardinality(DOMAIN kv) \in Nat
      BY <3>1, FS_Subset, FS_CardinalityType, StoreAssumption DEF StoreInv, StoreTypeOK
    <3> QED  BY <1>2, <2>2, <3>2, StoreAssumption DEF Room, KeysBounded, StoreInv
  <2> QED  BY <1>2, <2>1, <2>2
<1>8. Fresh'
  <2>1. \A x \in late : x.id \in Nat
    BY DEF StoreInv, StoreTypeOK, StoreWrite
  <2>2. \A m, j : Has(m, j) => kv[m][j].id \in Nat
    BY DEF StoreInv, StoreTypeOK, StoreEntry
  <2>3. \A v \in Putting : call[v].id \in Nat /\ call'[v] = call[v]
    BY <1>4, <1>6, CallFacts DEF StoreInv, Putting, PutCall
  <2>4. c.id = puts + 1
    OBVIOUS
  <2>5. \A v \in Putting : call[v].id <= puts
    BY DEF StoreInv, Fresh
  <2>6. /\ \A x \in late' : x.id <= puts'
        /\ \A m, j : Has(m, j)' =>
              /\ kv'[m][j].id <= puts'
              /\ \A x \in late' : x.item = <<m, j>> /\ x.id = kv'[m][j].id => x.what = x.id
    BY <1>2, <2>1, <2>2 DEF StoreInv, Fresh, Has
  <2>7. ASSUME NEW v \in Putting'
        PROVE  /\ call'[v].id <= puts'
               /\ \A x \in late' : x.id # call'[v].id
               /\ \A m, j : Has(m, j)' => kv'[m][j].id # call'[v].id
               /\ \A u \in Putting' \ {v} : call'[u].id # call'[v].id
    <3>1. CASE v = w
      BY <1>2, <1>4, <1>6, <2>1, <2>2, <2>3, <2>4, <2>5, <3>1 DEF StoreInv, Fresh, Has
    <3>2. CASE v # w
      <4>1. v \in Putting
        BY <1>6, <3>2
      <4>2. \A u \in Putting' \ {v} : call'[u].id # call'[v].id
        BY <1>2, <1>4, <1>6, <2>3, <2>4, <2>5, <4>1 DEF StoreInv, Fresh
      <4> QED  BY <1>2, <2>3, <2>5, <4>1, <4>2 DEF StoreInv, Fresh, Has
    <3> QED  BY <3>1, <3>2
  <2> QED  BY <2>6, <2>7 DEF Fresh
<1>9. service' = "kv" => Expiring' /\ \A m, j : Follow(m, j)'
  <2>1. \A m, j : Follow(m, j)' = Follow(m, j)
    BY <1>2 DEF Follow, Has
  <2>2. \A v \in Worker : call'[v].op = "evict" => v # w /\ call'[v] = call[v]
    BY <1>4
  <2>3. Expiring => Expiring'
    BY <1>2, <2>2 DEF Expiring, Expired, Has
  <2> QED  BY <1>2, <2>1, <2>3 DEF StoreInv
<1> QED  BY <1>5, <1>7, <1>8, <1>9 DEF StoreInv

(* Redis applies a write, or does not.                                      *)
LEMMA RedisKeeps ==
  ASSUME StoreInv, NEW x \in late, RedisWrites(x)
  PROVE  StoreInv'
<1>1. /\ UNCHANGED <<service, kv, call, clock, puts>> /\ late' = late \ {x}
      /\ x \in StoreWrite
      /\ \/ redis' = [redis EXCEPT ![x.item] = x.what] /\ UNCHANGED mixed
         \/ mixed' = mixed \cup {x.item} /\ UNCHANGED redis
  BY DEF RedisWrites, StoreInv, StoreTypeOK
<1>2. x.item \in Item /\ x.what \in Nat \cup {NoValue}
  BY <1>1 DEF StoreWrite
<1>3. StoreTypeOK'
  BY <1>1, <1>2 DEF StoreInv, StoreTypeOK, Has
<1>4. Room' /\ Fresh'
  BY <1>1 DEF StoreInv, Room, KeysBounded, Fresh, Putting, Adding, Has
<1>5. Expiring => Expiring'
  BY <1>1 DEF Expiring, Expired, Has
<1>6. ASSUME NEW m, NEW j, Follow(m, j) PROVE Follow(m, j)'
  <2> SUFFICES ASSUME <<m, j>> \notin mixed'
               PROVE  Follow(m, j)'
    BY DEF Follow
  <2>1. <<m, j>> \notin mixed /\ (Has(m, j)' <=> Has(m, j))
    BY <1>1 DEF Has
  <2>2. CASE x.item # <<m, j>>
    <3>1. Has(m, j) => redis'[<<m, j>>] = redis[<<m, j>>]
      BY <1>1, <2>2 DEF StoreInv, StoreTypeOK
    <3> QED  BY <1>1, <1>6, <2>1, <2>2, <3>1 DEF Follow
  <2>3. CASE x.item = <<m, j>>
    <3>1. redis' = [redis EXCEPT ![x.item] = x.what]
      BY <1>1, <2>3
    <3>2. redis'[<<m, j>>] = x.what
      BY <1>2, <2>3, <3>1 DEF StoreInv, StoreTypeOK
    <3> QED  BY <1>1, <1>6, <2>1, <2>3, <3>2 DEF Follow
  <2> QED  BY <2>2, <2>3
<1> QED  BY <1>1, <1>3, <1>4, <1>5, <1>6 DEF StoreInv

-----------------------------------------------------------------------------
(* What a worker does that ends its call, or leaves it at another eviction:  *)
(* no other call changes, and no put begins.                                 *)
LEMMA CallEnds ==
  ASSUME StoreInv, NEW w \in Worker, NEW c \in {NoCall} \cup EvictCall,
         call' = [call EXCEPT ![w] = c]
  PROVE  /\ call' \in [Worker -> {NoCall} \cup PutCall \cup EvictCall]
         /\ call'[w] = c /\ \A v \in Worker \ {w} : call'[v] = call[v]
         /\ Putting' = Putting \ {w}
<1>1. /\ call' \in [Worker -> {NoCall} \cup PutCall \cup EvictCall]
      /\ call'[w] = c /\ \A v \in Worker \ {w} : call'[v] = call[v]
  BY DEF StoreInv, StoreTypeOK
<1>2. c.op # "put"
  BY DEF NoCall, EvictCall
<1> QED  BY <1>1, <1>2 DEF Putting

(* The entry that a put brings.                                             *)
LEMMA InsertedKeeps ==
  ASSUME StoreInv, NEW w \in Putting, NEW n, NEW k, NEW ns, NEW e \in StoreEntry,
         n = call[w].ns, k = call[w].key, ns = IF n \in DOMAIN kv THEN kv[n] ELSE <<>>,
         e.id = call[w].id, kv' = With(kv, n, With(ns, k, e)),
         call' = [call EXCEPT ![w] = NoCall],
         UNCHANGED <<service, redis, clock, puts>>,
         service = "kv" =>
            /\ Holding(n) = {}
            /\ k \in DOMAIN ns \/ Cardinality(DOMAIN ns) < MaxKeys
            /\ Persist(n, k, call[w].id, call[w].id),
         service = "secrets" => UNCHANGED <<late, mixed>>
  PROVE  StoreInv'
<1> DEFINE new == [item |-> <<n, k>>, id |-> call[w].id, what |-> call[w].id]
<1>1. /\ w \in Worker /\ n \in Namespace /\ k \in Keys /\ <<n, k>> \in Item /\ call[w].id \in Nat
  BY CallFacts DEF StoreInv, Putting, PutCall
<1>2. /\ DOMAIN kv' = DOMAIN kv \cup {n}
      /\ DOMAIN kv'[n] = DOMAIN ns \cup {k}
      /\ \A m \in DOMAIN kv \ {n} : kv'[m] = kv[m]
      /\ \A m, j : Has(m, j)' <=> (m = n /\ j = k) \/ Has(m, j)
      /\ kv'[n][k] = e
      /\ \A m, j : Has(m, j) /\ ~(m = n /\ j = k) => kv'[m][j] = kv[m][j]
  BY DEF With, Has
<1>3. /\ call' \in [Worker -> {NoCall} \cup PutCall \cup EvictCall]
      /\ call'[w] = NoCall /\ \A v \in Worker \ {w} : call'[v] = call[v]
      /\ Putting' = Putting \ {w}
  BY <1>1, CallEnds
<1>4. /\ service = "kv" => /\ late' = late \cup {new}
                           /\ mixed' = mixed \cup {x.item : x \in {y \in late : y.item = <<n, k>>}}
      /\ service \in {"kv", "secrets"}
  BY DEF Persist, StoreInv, StoreTypeOK
<1>5. IsFiniteSet(DOMAIN ns) /\ Cardinality({}) = 0 /\ DOMAIN <<>> = {}
  BY FS_EmptySet DEF StoreInv, StoreTypeOK
<1>6. StoreTypeOK'
  <2>1. DOMAIN kv' \subseteq Namespace /\ IsFiniteSet(DOMAIN kv')
    BY <1>1, <1>2, FS_AddElement DEF StoreInv, StoreTypeOK
  <2>2. \A m \in DOMAIN kv' : IsFiniteSet(DOMAIN kv'[m])
    <3>1. IsFiniteSet(DOMAIN ns \cup {k})
      BY <1>5, FS_AddElement
    <3>2. \A m \in DOMAIN kv' : m = n \/ m \in DOMAIN kv \ {n}
      BY <1>2
    <3>3. \A m \in DOMAIN kv : IsFiniteSet(DOMAIN kv[m])
      BY DEF StoreInv, StoreTypeOK
    <3> SUFFICES ASSUME NEW m \in DOMAIN kv'  PROVE IsFiniteSet(DOMAIN kv'[m])
      OBVIOUS
    <3>4. CASE m = n
      BY <1>2, <3>1, <3>4
    <3>5. CASE m \in DOMAIN kv \ {n}
      <4>1. kv'[m] = kv[m]
        BY <1>2, <3>5
      <4> QED  BY <3>3, <3>5, <4>1
    <3> QED  BY <3>2, <3>4, <3>5
  <2>3. \A m, j : Has(m, j)' => <<m, j>> \in Item /\ kv'[m][j] \in StoreEntry
    BY <1>1, <1>2 DEF StoreInv, StoreTypeOK
  <2>4. new \in StoreWrite
    BY <1>1 DEF StoreWrite
  <2>5. late' \subseteq StoreWrite /\ mixed' \subseteq Item
    BY <1>1, <1>4, <2>4 DEF StoreInv, StoreTypeOK
  <2> QED  BY <1>3, <2>1, <2>2, <2>3, <2>5 DEF StoreInv, StoreTypeOK
<1>7. Room'
  <2>1. /\ IsFiniteSet(Adding) /\ Cardinality(Adding) \in Nat /\ Cardinality(DOMAIN kv) \in Nat
        /\ Cardinality(Worker) \in Nat
    BY StoreAssumption, FS_Subset, FS_CardinalityType DEF Adding, Putting, StoreInv, StoreTypeOK
  <2>2. Adding' \subseteq Adding \ {w}
    BY <1>2, <1>3 DEF Adding, Putting
  <2>3. /\ IsFiniteSet(Adding \ {w})
        /\ Cardinality(Adding \ {w}) = IF w \in Adding THEN Cardinality(Adding) - 1
                                                       ELSE Cardinality(Adding)
    BY <2>1, FS_RemoveElement
  <2>4. Cardinality(Adding') <= Cardinality(Adding \ {w}) /\ Cardinality(Adding') \in Nat
    BY <2>2, <2>3, FS_Subset, FS_CardinalityType
  <2>5. Cardinality(DOMAIN kv') = IF n \in DOMAIN kv THEN Cardinality(DOMAIN kv)
                                                     ELSE Cardinality(DOMAIN kv) + 1
    <3>1. IsFiniteSet(DOMAIN kv)
      BY DEF StoreInv, StoreTypeOK
    <3> QED  BY <1>2, <3>1, FS_AddElement
  <2>6. n \notin DOMAIN kv => w \in Adding
    BY DEF Adding
  <2>7. Cardinality(DOMAIN kv') + Cardinality(Adding') <= MaxNamespaces + Cardinality(Worker) - 1
    BY <2>1, <2>3, <2>4, <2>5, <2>6, StoreAssumption DEF StoreInv, Room
  <2>8. KeysBounded'
    <3>1. service = "kv" => Cardinality(DOMAIN ns \cup {k}) <= MaxKeys
      <4>1. Cardinality(DOMAIN ns \cup {k}) = IF k \in DOMAIN ns THEN Cardinality(DOMAIN ns)
                                                                ELSE Cardinality(DOMAIN ns) + 1
        BY <1>5, FS_AddElement
      <4>2. Cardinality(DOMAIN ns) \in Nat
        BY <1>5, FS_CardinalityType
      <4>3. service = "kv" => Cardinality(DOMAIN ns) <= MaxKeys
        BY <1>5, StoreAssumption DEF StoreInv, Room, KeysBounded
      <4> QED  BY <4>1, <4>2, <4>3, StoreAssumption
    <3>2. \A m \in DOMAIN kv' : m = n \/ m \in DOMAIN kv \ {n}
      BY <1>2
    <3>3. service = "kv" => \A m \in DOMAIN kv : Cardinality(DOMAIN kv[m]) <= MaxKeys
      BY DEF StoreInv, Room, KeysBounded
    <3> SUFFICES ASSUME service = "kv", NEW m \in DOMAIN kv'
                 PROVE  Cardinality(DOMAIN kv'[m]) <= MaxKeys
      BY DEF KeysBounded
    <3>4. CASE m = n
      BY <1>2, <3>1, <3>4
    <3>5. CASE m \in DOMAIN kv \ {n}
      <4>1. kv'[m] = kv[m]
        BY <1>2, <3>5
      <4> QED  BY <3>3, <3>5, <4>1
    <3> QED  BY <3>2, <3>4, <3>5
  <2> QED  BY <2>7, <2>8 DEF Room
<1>8. Fresh'
  <2>1. \A v \in Putting' : v \in Putting /\ v # w /\ call'[v] = call[v]
    BY <1>3 DEF Putting
  <2>2. call[w].id <= puts /\ (\A x \in late : x.id # call[w].id)
        /\ \A v \in Putting \ {w} : call[v].id # call[w].id
    BY DEF StoreInv, Fresh
  <2>3. \A x \in late' : x \in late \/ x = new
    BY <1>4
  <2>4. new.id = call[w].id /\ new.what = call[w].id /\ new.item = <<n, k>>
    OBVIOUS
  <2>5. \A x \in late' : x.id <= puts
    BY <2>2, <2>3, <2>4 DEF StoreInv, Fresh
  <2>6. ASSUME NEW m, NEW j, Has(m, j)'
        PROVE  /\ kv'[m][j].id <= puts
               /\ \A x \in late' : x.item = <<m, j>> /\ x.id = kv'[m][j].id => x.what = x.id
               /\ \A v \in Putting' : kv'[m][j].id # call[v].id
    <3>1. CASE m = n /\ j = k
      BY <1>2, <2>1, <2>2, <2>3, <2>4, <3>1
    <3>2. CASE ~(m = n /\ j = k)
      BY <1>2, <2>1, <2>3, <2>4, <2>6, <3>2 DEF StoreInv, Fresh
    <3> QED  BY <3>1, <3>2
  <2>7. \A v \in Putting' : /\ call[v].id <= puts /\ \A x \in late' : x.id # call[v].id
                            /\ \A u \in Putting' \ {v} : call[u].id # call[v].id
    BY <2>1, <2>2, <2>3, <2>4 DEF StoreInv, Fresh
  <2> QED  BY <2>1, <2>5, <2>6, <2>7 DEF Fresh
<1>9. service = "kv" => Expiring'
  <2> SUFFICES ASSUME service = "kv", NEW v \in Worker, call'[v].op = "evict",
                      NEW j \in call'[v].keys, Has(call[v].ns, j)'
               PROVE  Expired(kv[call[v].ns][j])'
    BY DEF Expiring
  <2>1. v # w /\ call'[v] = call[v]
    BY <1>3 DEF NoCall
  <2>2. call[v].ns # n
    BY <2>1 DEF Holding
  <2>3. Has(call[v].ns, j) /\ kv'[call[v].ns][j] = kv[call[v].ns][j]
    BY <1>2, <2>1, <2>2
  <2>4. Expired(kv[call[v].ns][j])
    BY <2>1, <2>3 DEF StoreInv, Expiring
  <2> QED  BY <2>1, <2>3, <2>4 DEF Expired
<1>10. service = "kv" => \A m, j : Follow(m, j)'
  <2> SUFFICES ASSUME service = "kv", NEW m, NEW j, <<m, j>> \notin mixed'
               PROVE  Follow(m, j)'
    BY DEF Follow
  <2>1. <<m, j>> \notin mixed /\ Follow(m, j)
    BY <1>4 DEF StoreInv
  <2>2. CASE m = n /\ j = k
    <3>1. \A y \in late : y.item # <<n, k>>
      BY <1>4, <2>2
    <3>2. new.item = <<n, k>> /\ new.what = call[w].id
      OBVIOUS
    <3>3. /\ \A x \in late' : x.item = <<m, j>> => x = new
          /\ new \in late' /\ kv'[m][j].id = call[w].id
      BY <1>2, <1>4, <2>2, <3>1
    <3> QED  BY <2>2, <3>2, <3>3 DEF Follow
  <2>3. CASE ~(m = n /\ j = k)
    <3>1. new.item # <<m, j>> /\ \A x \in late' : x \in late \/ x = new
      BY <1>4, <2>3
    <3>2. \A x \in late' : x.item = <<m, j>> => x \in late
      BY <3>1
    <3>3. Has(m, j)' <=> Has(m, j)
      BY <1>2, <2>3
    <3>4. Has(m, j) => kv'[m][j] = kv[m][j]
      BY <1>2, <2>3
    <3>5. late \subseteq late' /\ redis' = redis
      BY <1>4
    <3> QED  BY <2>1, <3>2, <3>3, <3>4, <3>5 DEF Follow
  <2> QED  BY <2>2, <2>3
<1> QED  BY <1>6, <1>7, <1>8, <1>9, <1>10 DEF StoreInv

(* A put finds no room for its key: the namespace may be new.                *)
LEMMA RefusedKeeps ==
  ASSUME StoreInv, NEW w \in Putting, NEW n, n = call[w].ns,
         kv' = With(kv, n, IF n \in DOMAIN kv THEN kv[n] ELSE <<>>),
         call' = [call EXCEPT ![w] = NoCall],
         UNCHANGED <<service, redis, late, mixed, clock, puts>>
  PROVE  StoreInv'
<1>1. w \in Worker /\ n \in Namespace
  BY CallFacts DEF StoreInv, Putting, PutCall
<1>2. /\ DOMAIN kv' = DOMAIN kv \cup {n}
      /\ DOMAIN kv'[n] = IF n \in DOMAIN kv THEN DOMAIN kv[n] ELSE {}
      /\ \A m \in DOMAIN kv \ {n} : kv'[m] = kv[m]
      /\ \A m, j : Has(m, j)' <=> Has(m, j)
      /\ \A m, j : Has(m, j) => kv'[m][j] = kv[m][j]
  BY NamespaceFacts
<1>3. /\ call' \in [Worker -> {NoCall} \cup PutCall \cup EvictCall]
      /\ call'[w] = NoCall /\ \A v \in Worker \ {w} : call'[v] = call[v]
      /\ Putting' = Putting \ {w}
  BY <1>1, CallEnds
<1>4. \A m \in DOMAIN kv' : DOMAIN kv'[m] = IF m \in DOMAIN kv THEN DOMAIN kv[m] ELSE {}
  <2> SUFFICES ASSUME NEW m \in DOMAIN kv'
               PROVE  DOMAIN kv'[m] = IF m \in DOMAIN kv THEN DOMAIN kv[m] ELSE {}
    OBVIOUS
  <2>1. CASE m = n
    BY <1>2, <2>1
  <2>2. CASE m # n
    <3>1. m \in DOMAIN kv \ {n}
      BY <1>2, <2>2
    <3> QED  BY <1>2, <3>1
  <2> QED  BY <2>1, <2>2
<1>5. IsFiniteSet({}) /\ Cardinality({}) = 0 /\ IsFiniteSet(DOMAIN kv)
  BY FS_EmptySet DEF StoreInv, StoreTypeOK
<1>6. StoreTypeOK'
  <2>1. DOMAIN kv' \subseteq Namespace /\ IsFiniteSet(DOMAIN kv')
    BY <1>1, <1>2, <1>5, FS_AddElement DEF StoreInv, StoreTypeOK
  <2>2. \A m \in DOMAIN kv' : IsFiniteSet(DOMAIN kv'[m])
    BY <1>4, <1>5 DEF StoreInv, StoreTypeOK
  <2>3. \A m, j : Has(m, j)' => <<m, j>> \in Item /\ kv'[m][j] \in StoreEntry
    BY <1>2 DEF StoreInv, StoreTypeOK
  <2> QED  BY <1>3, <2>1, <2>2, <2>3 DEF StoreInv, StoreTypeOK
<1>7. Room'
  <2>1. /\ IsFiniteSet(Adding) /\ Cardinality(Adding) \in Nat /\ Cardinality(DOMAIN kv) \in Nat
        /\ Cardinality(Worker) \in Nat
    BY <1>5, StoreAssumption, FS_Subset, FS_CardinalityType DEF Adding, Putting
  <2>2. Adding' \subseteq Adding \ {w}
    BY <1>2, <1>3 DEF Adding, Putting
  <2>3. /\ IsFiniteSet(Adding \ {w})
        /\ Cardinality(Adding \ {w}) = IF w \in Adding THEN Cardinality(Adding) - 1
                                                       ELSE Cardinality(Adding)
    BY <2>1, FS_RemoveElement
  <2>4. Cardinality(Adding') <= Cardinality(Adding \ {w}) /\ Cardinality(Adding') \in Nat
    BY <2>2, <2>3, FS_Subset, FS_CardinalityType
  <2>5. Cardinality(DOMAIN kv') = IF n \in DOMAIN kv THEN Cardinality(DOMAIN kv)
                                                     ELSE Cardinality(DOMAIN kv) + 1
    BY <1>2, <1>5, FS_AddElement
  <2>6. n \notin DOMAIN kv => w \in Adding
    BY DEF Adding
  <2>7. Cardinality(DOMAIN kv') + Cardinality(Adding') <= MaxNamespaces + Cardinality(Worker) - 1
    BY <2>1, <2>3, <2>4, <2>5, <2>6, StoreAssumption DEF StoreInv, Room
  <2>8. KeysBounded'
    BY <1>4, <1>5, StoreAssumption DEF StoreInv, Room, KeysBounded
  <2> QED  BY <2>7, <2>8 DEF Room
<1>8. \A v \in Putting' : v \in Putting /\ call'[v] = call[v]
  BY <1>3 DEF Putting
<1>9. Fresh'
  BY <1>2, <1>8 DEF StoreInv, Fresh
<1>10. Expiring => Expiring'
  <2> SUFFICES ASSUME Expiring, NEW v \in Worker, call'[v].op = "evict",
                      NEW j \in call'[v].keys, NEW m, m = call'[v].ns, Has(m, j)'
               PROVE  Expired(kv[m][j])'
    BY DEF Expiring
  <2>1. call'[v] = call[v]
    BY <1>3 DEF NoCall
  <2>2. Has(m, j) /\ kv'[m][j] = kv[m][j]
    BY <1>2
  <2> QED  BY <2>1, <2>2 DEF Expiring, Expired
<1>11. \A m, j : Follow(m, j) => Follow(m, j)'
  BY <1>2 DEF Follow
<1> QED  BY <1>6, <1>7, <1>9, <1>10, <1>11 DEF StoreInv

LEMMA PutInsertKeeps ==
  ASSUME StoreInv, NEW w \in Worker, PutInsert(w) \/ SetSecret(w)
  PROVE  StoreInv'
<1>1. w \in Putting /\ call[w] \in PutCall
  BY CallFacts DEF PutInsert, SetSecret, Putting, StoreInv
<1>2. PICK n, k, ns : n = call[w].ns /\ k = call[w].key /\ ns = IF n \in DOMAIN kv THEN kv[n] ELSE <<>>
  OBVIOUS
<1>3. call[w].id \in Nat /\ call[w].ttl \in Nat \cup {NoValue} /\ clock \in Nat
  BY <1>1, StoreAssumption DEF PutCall, StoreInv, StoreTypeOK
<1>4. CASE PutInsert(w)
  <2>1. PICK e : e = [id |-> call[w].id,
                      expires |-> IF call[w].ttl = NoValue THEN NoValue ELSE clock + call[w].ttl]
    OBVIOUS
  <2>2. e \in StoreEntry /\ e.id = call[w].id
    BY <1>3, <2>1 DEF StoreEntry
  <2>3. /\ service = "kv" /\ call' = [call EXCEPT ![w] = NoCall] /\ Holding(n) = {}
        /\ IF k \in DOMAIN ns \/ Cardinality(DOMAIN ns) < MaxKeys
           THEN kv' = With(kv, n, With(ns, k, e)) /\ Persist(n, k, call[w].id, call[w].id)
           ELSE kv' = With(kv, n, ns) /\ UNCHANGED <<late, mixed>>
        /\ UNCHANGED <<service, redis, clock, puts>>
    BY <1>2, <1>4, <2>1 DEF PutInsert, Insertion
  <2>4. CASE k \in DOMAIN ns \/ Cardinality(DOMAIN ns) < MaxKeys
    BY <1>1, <1>2, <2>2, <2>3, <2>4, InsertedKeeps
  <2>5. CASE ~(k \in DOMAIN ns \/ Cardinality(DOMAIN ns) < MaxKeys)
    BY <1>1, <1>2, <2>3, <2>5, RefusedKeeps
  <2> QED  BY <2>4, <2>5
<1>5. CASE SetSecret(w)
  <2>1. PICK e : e = [id |-> call[w].id, expires |-> NoValue]
    OBVIOUS
  <2>2. e \in StoreEntry /\ e.id = call[w].id
    BY <1>3, <2>1 DEF StoreEntry
  <2>3. /\ service = "secrets" /\ call' = [call EXCEPT ![w] = NoCall]
        /\ kv' = With(kv, n, With(ns, k, e))
        /\ UNCHANGED <<service, redis, late, mixed, clock, puts>>
    BY <1>2, <1>5, <2>1 DEF SetSecret
  <2> QED  BY <1>1, <1>2, <2>2, <2>3, InsertedKeeps
<1> QED  BY <1>4, <1>5

-----------------------------------------------------------------------------
(* Entries that are removed, as expired or by a deletion.                   *)
LEMMA RemovalKeeps ==
  ASSUME StoreInv, NEW w \in Worker, NEW n, NEW k,
         kv' = [kv EXCEPT ![n] = Removed(@, k)],
         NEW c \in {NoCall} \cup EvictCall, call' = [call EXCEPT ![w] = c],
         call[w].op # "put",
         c.op = "evict" => call[w].op = "evict" /\ c.ns = call[w].ns /\ c.keys \subseteq call[w].keys,
         UNCHANGED <<service, redis, clock, puts>>,
         \/ UNCHANGED <<late, mixed>>
         \/ Has(n, k) /\ Persist(n, k, kv[n][k].id, NoValue)
  PROVE  StoreInv'
<1>1. /\ DOMAIN kv' = DOMAIN kv
      /\ \A m \in DOMAIN kv : DOMAIN kv'[m] \subseteq DOMAIN kv[m]
      /\ \A m, j : Has(m, j)' <=> Has(m, j) /\ ~(m = n /\ j = k)
      /\ \A m, j : Has(m, j)' => kv'[m][j] = kv[m][j]
  BY RemovalFacts
<1>2. /\ call' \in [Worker -> {NoCall} \cup PutCall \cup EvictCall]
      /\ call'[w] = c /\ (\A v \in Worker \ {w} : call'[v] = call[v])
      /\ Putting' = Putting
  BY CallEnds DEF Putting
<1>3. PICK new : new = [item |-> <<n, k>>, id |-> kv[n][k].id, what |-> NoValue]
  OBVIOUS
<1>4. \/ UNCHANGED <<late, mixed>>
      \/ /\ Has(n, k) /\ new \in StoreWrite
         /\ late' = late \cup {new}
         /\ mixed' = mixed \cup {x.item : x \in {y \in late : y.item = <<n, k>>}}
  <2>1. Has(n, k) => <<n, k>> \in Item /\ kv[n][k].id \in Nat
    BY DEF StoreInv, StoreTypeOK, StoreEntry
  <2>2. Has(n, k) => new \in StoreWrite
    BY <1>3, <2>1 DEF StoreWrite
  <2> QED  BY <1>3, <2>2 DEF Persist
<1>6. Adding' = Adding
  <2>1. \A v \in Putting : v # w /\ call'[v] = call[v]
    BY <1>2 DEF Putting
  <2> QED  BY <1>1, <1>2, <2>1 DEF Adding
<1>7. Room' /\ \A m \in DOMAIN kv' : IsFiniteSet(DOMAIN kv'[m])
  BY <1>1, <1>6, RoomStays DEF StoreInv
<1>8. StoreTypeOK'
  <2>1. late' \subseteq StoreWrite /\ mixed' \subseteq Item
    <3>1. late \subseteq StoreWrite /\ mixed \subseteq Item /\ \A y \in late : y.item \in Item
      BY DEF StoreInv, StoreTypeOK, StoreWrite
    <3> QED  BY <1>4, <3>1
  <2> QED  BY <1>1, <1>2, <1>7, <2>1 DEF StoreInv, StoreTypeOK
<1>9. Fresh'
  <2>1. \A v \in Putting : v # w /\ call'[v] = call[v]
    BY <1>2 DEF Putting
  <2>2. \A x \in late' : x \in late \/ (x = new /\ Has(n, k))
    BY <1>4
  <2>3. new.id = kv[n][k].id /\ new.item = <<n, k>>
    BY <1>3
  <2>4. \A x \in late' : x.id <= puts /\ \A v \in Putting : x.id # call[v].id
    BY <2>2, <2>3 DEF StoreInv, Fresh
  <2>5. ASSUME NEW m, NEW j, Has(m, j)'
        PROVE  /\ kv'[m][j].id <= puts /\ \A v \in Putting : kv'[m][j].id # call[v].id
               /\ \A x \in late' : x.item = <<m, j>> /\ x.id = kv'[m][j].id => x.what = x.id
    <3>1. Has(m, j) /\ ~(m = n /\ j = k) /\ kv'[m][j] = kv[m][j]
      BY <1>1, <2>5
    <3>2. \A x \in late' : x.item = <<m, j>> => x \in late
      BY <2>2, <2>3, <3>1
    <3> QED  BY <3>1, <3>2 DEF StoreInv, Fresh
  <2> QED  BY <1>2, <2>1, <2>4, <2>5 DEF StoreInv, Fresh
<1>10. Expiring => Expiring'
  <2> SUFFICES ASSUME Expiring, NEW v \in Worker, call'[v].op = "evict",
                      NEW j \in call'[v].keys, NEW m, m = call'[v].ns, Has(m, j)'
               PROVE  Expired(kv[m][j])'
    BY DEF Expiring
  <2>1. call[v].op = "evict" /\ m = call[v].ns /\ j \in call[v].keys
    BY <1>2
  <2>2. Has(m, j) /\ kv'[m][j] = kv[m][j]
    BY <1>1
  <2> QED  BY <2>1, <2>2 DEF Expiring, Expired
<1>11. ASSUME NEW m, NEW j, Follow(m, j) PROVE Follow(m, j)'
  <2> SUFFICES ASSUME <<m, j>> \notin mixed' PROVE Follow(m, j)'
    BY DEF Follow
  <2>1. <<m, j>> \notin mixed
    BY <1>4
  <2>2. \A x, y \in late' : x.item = <<m, j>> /\ y.item = <<m, j>> => x = y
    <3>1. CASE late' = late
      BY <1>11, <2>1, <3>1 DEF Follow
    <3>2. CASE late' # late
      <4>1. /\ late' = late \cup {new} /\ new.item = <<n, k>>
            /\ mixed' = mixed \cup {x.item : x \in {y \in late : y.item = <<n, k>>}}
        BY <1>3, <1>4, <3>2
      <4>2. CASE m = n /\ j = k
        <5>1. \A y \in late : y.item # <<m, j>>
          BY <4>1, <4>2
        <5> QED  BY <4>1, <5>1
      <4>3. CASE ~(m = n /\ j = k)
        <5>1. new.item # <<m, j>>
          BY <4>1, <4>3
        <5> QED  BY <1>11, <2>1, <4>1, <5>1 DEF Follow
      <4> QED  BY <4>2, <4>3
    <3> QED  BY <3>1, <3>2
  <2>3. ASSUME Has(m, j)'
        PROVE  /\ \A x \in late' : x.item = <<m, j>> => x.what = kv'[m][j].id
               /\ (\A x \in late' : x.item # <<m, j>>) => redis[<<m, j>>] = kv'[m][j].id
    <3>1. Has(m, j) /\ ~(m = n /\ j = k) /\ kv'[m][j] = kv[m][j]
      BY <1>1, <2>3
    <3>2. new.item # <<m, j>>
      BY <1>3, <3>1
    <3>3. (\A x \in late' : x.item = <<m, j>> => x \in late) /\ late \subseteq late'
      BY <1>4, <3>2
    <3> QED  BY <1>11, <2>1, <3>1, <3>3 DEF Follow
  <2> QED  BY <2>2, <2>3 DEF Follow
<1> QED  BY <1>7, <1>8, <1>9, <1>10, <1>11 DEF StoreInv

LEMMA EvictKeeps == ASSUME StoreInv, NEW w \in Worker, Evict(w) PROVE StoreInv'
<1>1. PICK k \in call[w].keys :
        /\ kv' = [kv EXCEPT ![call[w].ns] = Removed(@, k)]
        /\ call' = [call EXCEPT ![w] = IF call[w].keys = {k} THEN NoCall
                                       ELSE [call[w] EXCEPT !.keys = @ \ {k}]]
  BY DEF Evict
<1>2. /\ call[w].op = "evict" /\ call[w] \in EvictCall
      /\ UNCHANGED <<service, redis, late, mixed, clock, puts>>
  BY CallFacts DEF Evict, StoreInv
<1>3. PICK n, c : n = call[w].ns /\ c = IF call[w].keys = {k} THEN NoCall
                                       ELSE [call[w] EXCEPT !.keys = @ \ {k}]
  OBVIOUS
<1>4. /\ c \in {NoCall} \cup EvictCall
      /\ c.op = "evict" => call[w].op = "evict" /\ c.ns = call[w].ns /\ c.keys \subseteq call[w].keys
  BY <1>2, <1>3 DEF EvictCall, NoCall
<1>5. call' = [call EXCEPT ![w] = c] /\ kv' = [kv EXCEPT ![n] = Removed(@, k)]
  <2>1. kv' = [kv EXCEPT ![n] = Removed(@, k)]
    BY <1>1, <1>3
  <2>2. DOMAIN call = Worker
    BY DEF StoreInv, StoreTypeOK
  <2>3. call' = [call EXCEPT ![w] = c]
    BY <1>1, <1>3, <2>2
  <2> QED  BY <2>1, <2>3
<1> QED  BY <1>2, <1>4, <1>5, RemovalKeeps

LEMMA DeleteKeyKeeps ==
  ASSUME StoreInv, NEW w \in Worker, NEW n \in Namespace, NEW k \in Keys, DeleteKey(w, n, k)
  PROVE  StoreInv'
<1>1. /\ call[w] = NoCall /\ Has(n, k) /\ kv' = [kv EXCEPT ![n] = Removed(@, k)]
      /\ \/ UNCHANGED <<late, mixed>>
         \/ Has(n, k) /\ Persist(n, k, kv[n][k].id, NoValue)
      /\ UNCHANGED <<service, call, redis, clock, puts>>
  BY DEF DeleteKey
<1>2. PICK c : c = NoCall
  OBVIOUS
<1>3. NoCall.op = "idle" /\ call' = [call EXCEPT ![w] = c]
  BY <1>1, <1>2 DEF NoCall, StoreInv, StoreTypeOK
<1> QED  BY <1>1, <1>2, <1>3, RemovalKeeps

LEMMA StoresKeep == StoreInv /\ [KvNext]_kvars => StoreInv'
<1> SUFFICES ASSUME StoreInv, [KvNext]_kvars PROVE StoreInv'
  OBVIOUS
<1>1. ASSUME NEW w \in Worker, PutInsert(w) \/ Evict(w) \/ SetSecret(w) PROVE StoreInv'
  BY <1>1, PutInsertKeeps, EvictKeeps
<1>2. ASSUME NEW w \in Worker, NEW n \in Namespace, Collect(w, n) PROVE StoreInv'
  BY <1>2, FindingKeeps
<1>3. ASSUME NEW w \in Worker, NEW n \in Namespace, NEW k \in Keys, <<n, k>> \in Item,
             PutCheck(w, n, k) \/ GetExpired(w, n, k) \/ DeleteKey(w, n, k)
      PROVE  StoreInv'
  BY <1>3, PutCheckKeeps, FindingKeeps, DeleteKeyKeeps
<1>4. ASSUME NEW x \in late, RedisWrites(x) PROVE StoreInv'
  BY <1>4, RedisKeeps
<1>5. CASE Tick
  BY <1>5, TimeKeeps
<1>6. CASE UNCHANGED kvars
  <2>1. UNCHANGED <<service, kv, call, redis, late, mixed, clock, puts>>
    BY <1>6 DEF kvars
  <2>2. StoreTypeOK' /\ Room' /\ Fresh'
    BY <2>1 DEF StoreInv, StoreTypeOK, Room, KeysBounded, Fresh, Has, Putting, Adding
  <2>3. Expiring' = Expiring /\ \A m, j : Follow(m, j)' = Follow(m, j)
    BY <2>1 DEF Follow, Expiring, Has, Expired
  <2> QED  BY <2>1, <2>2, <2>3 DEF StoreInv
<1> QED  BY <1>1, <1>2, <1>3, <1>4, <1>5, <1>6 DEF KvNext

(* What takes a live value from the store.                                  *)
LEMMA LiveStays ==
  ASSUME StoreInv, [KvNext]_kvars, service = "kv",
         NEW n \in Namespace, NEW k \in Keys, Live(n, k), ~Has(n, k)'
  PROVE  \E x \in late' \ late : x.item = <<n, k>> /\ x.what = NoValue
<1>1. Has(n, k) /\ ~Expired(kv[n][k])
  BY DEF Live
<1>2. kv' # kv
  BY <1>1 DEF Has
<1>3. ASSUME NEW w \in Worker, PutInsert(w) \/ SetSecret(w)  PROVE FALSE
  <2>1. PICK m, j, ns, e :
            /\ m = call[w].ns /\ j = call[w].key /\ ns = IF m \in DOMAIN kv THEN kv[m] ELSE <<>>
            /\ e = [id |-> call[w].id, expires |-> IF call[w].ttl = NoValue THEN NoValue
                                                   ELSE clock + call[w].ttl]
    OBVIOUS
  <2>2. kv' = With(kv, m, With(ns, j, e)) \/ kv' = With(kv, m, ns)
    BY <1>3, <2>1 DEF PutInsert, Insertion, SetSecret
  <2>3. Has(n, k)'
    <3>1. CASE kv' = With(kv, m, With(ns, j, e))
      BY <1>1, <2>1, <3>1, InsertionFacts
    <3>2. CASE kv' = With(kv, m, ns)
      BY <1>1, <2>1, <3>2, NamespaceFacts
    <3> QED  BY <2>2, <3>1, <3>2
  <2> QED  BY <2>3
<1>4. ASSUME NEW w \in Worker, Evict(w)  PROVE FALSE
  <2>1. PICK j, m : /\ m = call[w].ns /\ j \in call[w].keys /\ call[w].op = "evict"
                    /\ kv' = [kv EXCEPT ![m] = Removed(@, j)]
    BY <1>4 DEF Evict
  <2>2. m = n /\ j = k
    BY <1>1, <2>1, RemovalFacts
  <2>3. Expired(kv[n][k])
    BY <1>1, <2>1, <2>2 DEF StoreInv, Expiring
  <2> QED  BY <1>1, <2>3
<1>5. ASSUME NEW w \in Worker, NEW m \in Namespace, NEW j \in Keys, DeleteKey(w, m, j)
      PROVE  \E x \in late' \ late : x.item = <<n, k>> /\ x.what = NoValue
  <2>1. /\ Has(m, j) /\ kv' = [kv EXCEPT ![m] = Removed(@, j)] /\ Persist(m, j, kv[m][j].id, NoValue)
    BY <1>5 DEF DeleteKey
  <2>2. m = n /\ j = k
    BY <1>1, <2>1, RemovalFacts
  <2>3. [item |-> <<n, k>>, id |-> kv[n][k].id, what |-> NoValue] \in late'
    BY <2>1, <2>2 DEF Persist
  <2>4. [item |-> <<n, k>>, id |-> kv[n][k].id, what |-> NoValue] \notin late
    <3>1. kv[n][k].id \in Nat
      BY <1>1 DEF StoreInv, StoreTypeOK, StoreEntry
    <3> QED  BY <1>1, <3>1, StoreAssumption DEF StoreInv, Fresh
  <2> QED  BY <2>3, <2>4
<1>6. ASSUME NEW w \in Worker, NEW m \in Namespace,
             Collect(w, m) \/ \E j \in Keys : PutCheck(w, m, j) \/ GetExpired(w, m, j)
      PROVE  FALSE
  BY <1>2, <1>6 DEF Collect, PutCheck, GetExpired
<1>7. ~Tick /\ (\A x \in late : ~RedisWrites(x)) /\ ~UNCHANGED kvars
  BY <1>2 DEF Tick, RedisWrites, kvars
<1> QED  BY <1>3, <1>4, <1>5, <1>6, <1>7 DEF KvNext

(* The stores keep to their limits, Redis follows where writes do not meet, *)
(* and only a deletion takes a value that has not expired, for any number   *)
(* of requests, namespaces and keys (kv_store.rs:57, 83).                   *)
THEOREM StoresHold == KvSpec => StoreHolds
<1>1. StoreInv => Bounded
  <2> SUFFICES ASSUME StoreInv PROVE Bounded
    OBVIOUS
  <2>1. KeysBounded
    BY DEF StoreInv, Room
  <2>2. NamespacesBounded
    <3>1. IsFiniteSet(Adding) /\ IsFiniteSet(DOMAIN kv)
      BY StoreAssumption, FS_Subset DEF Adding, Putting, StoreInv, StoreTypeOK
    <3>2. Cardinality(Adding) \in Nat /\ Cardinality(DOMAIN kv) \in Nat /\ Cardinality(Worker) \in Nat
      BY <3>1, StoreAssumption, FS_CardinalityType
    <3> QED  BY <3>2, StoreAssumption DEF StoreInv, Room, NamespacesBounded
  <2>3. RedisFollows
    BY DEF StoreInv, Follow, RedisFollows
  <2> QED  BY <2>1, <2>2, <2>3 DEF Bounded
<1>2. StoreInv /\ [KvNext]_kvars =>
        [service = "kv" => \A n \in Namespace, k \in Keys :
            Live(n, k) /\ ~Has(n, k)' =>
              \E x \in late' \ late : x.item = <<n, k>> /\ x.what = NoValue]_kvars
  BY LiveStays
<1> QED  BY <1>1, <1>2, StoreStarts, StoresKeep, PTL DEF KvSpec, StoreHolds, LiveSurvives
-----------------------------------------------------------------------------
(* Logging in.  A callback that passed the check of the state token has     *)
(* used it up, so that no other one of its login passes; what it leaves is  *)
(* a code that has not been exchanged, or one that has and is gone.         *)

Phases == {"new", "refused", "token", "user", "redirected"}
LoginTypeOK == /\ stateAge \in [Attempt -> Nat \cup {Unset}]
               /\ codeAge \in [Callback -> Nat \cup {Unset}]
               /\ phase \in [Callback -> Phases]
               /\ given \in [Callback -> Nat]
               /\ drawn \subseteq Attempt

Passed(b) == phase[b] \in {"token", "user", "redirected"}

\* The token of a callback that passed is gone, and no second one has it.
TokenSpent ==
    /\ \A b \in Callback : Passed(b) => LoginOf[b] \in drawn /\ stateAge[LoginOf[b]] = Unset
    /\ \A b, c \in Callback : Passed(b) /\ Passed(c) /\ LoginOf[b] = LoginOf[c] => b = c

\* A code that is there was never exchanged; one that was is gone for good.
CodeSpent ==
    \A b \in Callback :
        /\ codeAge[b] # Unset => phase[b] = "redirected" /\ given[b] = 0
        /\ given[b] # 0 => phase[b] = "redirected" /\ given[b] = 1 /\ codeAge[b] = Unset

LoginInv == LoginTypeOK /\ TokenSpent /\ CodeSpent

LEMMA KeptFacts ==
    ASSUME NEW D, NEW ages \in [D -> Nat \cup {Unset}], NEW life
    PROVE  /\ Kept(ages, life) \in [D -> Nat \cup {Unset}]
           /\ \A x \in D : ages[x] = Unset => Kept(ages, life)[x] = Unset
BY DEF Kept

LEMMA LoginStarts == LoginInit => LoginInv
BY DEF LoginInit, LoginInv, LoginTypeOK, TokenSpent, CodeSpent, Passed, Phases

\* Nothing that only ages or forgets undoes what is spent.
LEMMA AgesKeep ==
    ASSUME LoginInv, UNCHANGED <<phase, drawn, given>>,
           stateAge' \in [Attempt -> Nat \cup {Unset}],
           codeAge' \in [Callback -> Nat \cup {Unset}],
           \A a \in Attempt : stateAge[a] = Unset => stateAge'[a] = Unset,
           \A b \in Callback : codeAge[b] = Unset => codeAge'[b] = Unset
    PROVE  LoginInv'
<1>1. LoginTypeOK'
  BY DEF LoginInv, LoginTypeOK
<1>2. TokenSpent'
  BY DEF LoginInv, LoginTypeOK, TokenSpent, Passed
<1>3. CodeSpent'
  BY DEF LoginInv, LoginTypeOK, CodeSpent
<1> QED  BY <1>1, <1>2, <1>3 DEF LoginInv

LEMMA BeginKeeps == ASSUME LoginInv, NEW a \in Attempt, GithubLogin(a) PROVE LoginInv'
<1>1. Kept(stateAge, StateLife) \in [Attempt -> Nat \cup {Unset}]
      /\ \A x \in Attempt : stateAge[x] = Unset => Kept(stateAge, StateLife)[x] = Unset
  BY KeptFacts DEF LoginInv, LoginTypeOK
<1>2. LoginTypeOK'
  BY <1>1 DEF GithubLogin, LoginInv, LoginTypeOK
<1>3. TokenSpent'
  BY <1>1 DEF GithubLogin, LoginInv, LoginTypeOK, TokenSpent, Passed
<1>4. CodeSpent'
  BY DEF GithubLogin, LoginInv, CodeSpent
<1> QED  BY <1>2, <1>3, <1>4 DEF LoginInv

LEMMA CallbackKeeps == ASSUME LoginInv, NEW b \in Callback, GithubCallback(b) PROVE LoginInv'
<1> USE DEF GithubCallback, Consume
<1> DEFINE a == LoginOf[b]
<1>0. a \in Attempt /\ phase[b] = "new"
  BY DEF LoginInv, LoginTypeOK
<1>1. LoginTypeOK'
  BY <1>0 DEF LoginInv, LoginTypeOK, Phases
<1>2. \A c \in Callback \ {b} : phase'[c] = phase[c]
  BY DEF LoginInv, LoginTypeOK
<1>3. /\ \A x \in Attempt : stateAge[x] = Unset => stateAge'[x] = Unset
      /\ Passed(b)' => stateAge[a] # Unset /\ stateAge'[a] = Unset /\ a \in drawn
  BY <1>0 DEF LoginInv, LoginTypeOK, Passed
<1>4. TokenSpent'
  <2>1. ASSUME NEW c \in Callback, Passed(c)'
        PROVE  LoginOf[c] \in drawn' /\ stateAge'[LoginOf[c]] = Unset
    BY <1>2, <1>3, <2>1 DEF LoginInv, LoginTypeOK, TokenSpent, Passed
  <2>2. ASSUME NEW c \in Callback, NEW d \in Callback,
               Passed(c)', Passed(d)', LoginOf[c] = LoginOf[d]
        PROVE  c = d
    BY <1>2, <1>3, <2>2 DEF LoginInv, TokenSpent, Passed
  <2> QED  BY <2>1, <2>2 DEF TokenSpent
<1>5. CodeSpent'
  BY <1>0, <1>2 DEF LoginInv, CodeSpent
<1> QED  BY <1>1, <1>4, <1>5 DEF LoginInv

\* The calls to GitHub.
LEMMA CallsKeep ==
    ASSUME LoginInv, NEW b \in Callback, AccessToken(b) \/ Fails(b)
    PROVE  LoginInv'
<1> USE DEF AccessToken, Fails
<1>1. LoginTypeOK'
  BY DEF LoginInv, LoginTypeOK, Phases
<1>2. \A c \in Callback : /\ Passed(c)' => Passed(c)
                          /\ phase[c] = "redirected" => phase'[c] = "redirected"
  BY DEF LoginInv, LoginTypeOK, Passed
<1>3. TokenSpent'
  BY <1>2 DEF LoginInv, TokenSpent
<1>4. CodeSpent'
  BY <1>2 DEF LoginInv, CodeSpent
<1> QED  BY <1>1, <1>3, <1>4 DEF LoginInv

LEMMA UserKeeps ==
    ASSUME LoginInv, NEW b \in Callback, NEW u \in User, FetchUser(b, u)
    PROVE  LoginInv'
<1> USE DEF FetchUser
<1>1. Kept(codeAge, CodeLife) \in [Callback -> Nat \cup {Unset}]
      /\ \A x \in Callback : codeAge[x] = Unset => Kept(codeAge, CodeLife)[x] = Unset
  BY KeptFacts DEF LoginInv, LoginTypeOK
<1>2. LoginTypeOK'
  <2>1. codeAge' \in [Callback -> Nat \cup {Unset}]
    <3>1. PICK old \in {codeAge, Kept(codeAge, CodeLife)} :
            codeAge' \in {codeAge, [old EXCEPT ![b] = 0]}
      OBVIOUS
    <3> QED  BY <1>1, <3>1 DEF LoginInv, LoginTypeOK
  <2>2. phase' \in [Callback -> Phases]
    BY DEF LoginInv, LoginTypeOK, Phases
  <2> QED  BY <2>1, <2>2 DEF LoginInv, LoginTypeOK
<1>3. \A c \in Callback : /\ Passed(c)' => Passed(c)
                          /\ phase[c] = "redirected" => phase'[c] = "redirected"
                          /\ c # b /\ codeAge[c] = Unset => codeAge'[c] = Unset
  BY <1>1 DEF LoginInv, LoginTypeOK, Passed
<1>4. TokenSpent'
  BY <1>3 DEF LoginInv, TokenSpent
<1>5. phase[b] = "user" /\ phase'[b] = "redirected" /\ given[b] = 0 /\ given' = given
  BY DEF LoginInv, LoginTypeOK, CodeSpent
<1>6. CodeSpent'
  BY <1>3, <1>5 DEF LoginInv, CodeSpent
<1> QED  BY <1>2, <1>4, <1>6 DEF LoginInv

LEMMA ExchangeKeeps ==
    ASSUME LoginInv, NEW b \in Callback, ExchangeAuthCode(b)
    PROVE  LoginInv'
<1> USE DEF ExchangeAuthCode
<1>1. Kept(codeAge, CodeLife) \in [Callback -> Nat \cup {Unset}]
      /\ \A x \in Callback : codeAge[x] = Unset => Kept(codeAge, CodeLife)[x] = Unset
  BY KeptFacts DEF LoginInv, LoginTypeOK
<1>2. LoginTypeOK'
  BY <1>1 DEF LoginInv, LoginTypeOK
<1>3. TokenSpent'
  BY DEF LoginInv, TokenSpent, Passed
<1>4. /\ phase' = phase /\ phase[b] = "redirected" /\ codeAge'[b] = Unset
      /\ \A c \in Callback : codeAge[c] = Unset => codeAge'[c] = Unset
      /\ \A c \in Callback \ {b} : given'[c] = given[c]
      /\ codeAge[b] # Unset \/ given'[b] = given[b]
      /\ given'[b] \in {given[b], given[b] + 1}
  BY <1>1 DEF LoginInv, LoginTypeOK
<1>5. CodeSpent'
  <2>1. ASSUME NEW c \in Callback
        PROVE  /\ codeAge'[c] # Unset => phase'[c] = "redirected" /\ given'[c] = 0
               /\ given'[c] # 0 => /\ phase'[c] = "redirected" /\ given'[c] = 1
                                   /\ codeAge'[c] = Unset
    BY <1>4, <2>1 DEF LoginInv, LoginTypeOK, CodeSpent
  <2> QED  BY <2>1 DEF CodeSpent
<1> QED  BY <1>2, <1>3, <1>5 DEF LoginInv

LEMMA LoginKeeps == LoginInv /\ [LoginNext]_loginVars => LoginInv'
<1> SUFFICES ASSUME LoginInv, [LoginNext]_loginVars PROVE LoginInv'
  OBVIOUS
<1>1. CASE UNCHANGED loginVars
  BY <1>1 DEF loginVars, LoginInv, LoginTypeOK, TokenSpent, CodeSpent, Passed
<1>2. CASE Sweep
  BY <1>2, KeptFacts, AgesKeep DEF Sweep, LoginInv, LoginTypeOK
<1>3. CASE Grow
  BY <1>3, AgesKeep DEF Grow, LoginInv, LoginTypeOK
<1> QED  BY <1>1, <1>2, <1>3, BeginKeeps, CallbackKeeps, CallsKeep, UserKeeps, ExchangeKeeps
         DEF LoginNext

(* One login gives one JWT at most, for any number of logins and callbacks  *)
(* ("The code is single-use", dashboard.rs:1640).                           *)
THEOREM CodesAreSingleUse == LoginSpec => []GivenOnce
<1>1. LoginInv => GivenOnce
  BY DEF LoginInv, LoginTypeOK, TokenSpent, CodeSpent, Passed, GivenOnce
<1> QED  BY <1>1, LoginStarts, LoginKeeps, PTL DEF LoginSpec
-----------------------------------------------------------------------------
(* The rate limits.                                                         *)

\* The tokens that d units of time renew, and what was admitted from t on.
Refill(d) == (d * Burst) \div Second
Since(t) == Sum(t, now)

RateTypeOK ==
    /\ backend \in {"local", "redis"} /\ now \in 0..LastTime
    /\ admitted \in [0..LastTime -> Nat]
    /\ hits \in [count : Nat, expires : Nat]
    /\ \/ entry = NoEntry
       \/ entry \in [exists : {TRUE}, count : Nat, start : Nat, tokens : 0..Burst, last : Nat]
    /\ refused \in BOOLEAN

\* So many were admitted, and nothing that is still to come.
AdmissionsCounted == IsFiniteSet(Admissions(0, LastTime))
NotYet == \A t \in 0..LastTime : t > now => admitted[t] = 0

\* Without an entry the tokens are all there, and one window's limit was used.
EntryGone ==
    /\ Since(now) = 0
    /\ \A t \in 0..now : t >= now - Window => Since(t) <= Limit + Refill(now - t)

\* What was admitted from t on came out of the window, or the one before if it
\* reaches into that, and the tokens that there were or were renewed.
EntryCounts ==
    LET used(t) == Least(entry.count, Limit) + (Burst - entry.tokens) + Refill(entry.last - t)
    IN  /\ entry.start <= entry.last /\ entry.last <= now
        /\ entry.last <= entry.start + Window
        /\ \A t \in 0..now : t > entry.last => Since(t) = 0
        /\ \A t \in 0..entry.last :
             /\ t >= entry.start => Since(t) <= used(t)
             /\ t >= entry.start - Window => Since(t) <= Limit + used(t)
        /\ entry.count <= Since(entry.start)

\* The same of the counter in Redis, which began when its first hit came.
Began == hits.expires - Window
CounterCounts ==
    /\ now < hits.expires => Began \in 0..now /\ Since(Began) >= Least(hits.count, Limit)
    /\ ~faulty =>
         \A t \in 0..now :
           /\ t >= hits.expires => Since(t) = 0
           /\ t >= Began => Since(t) <= Least(hits.count, Limit)
           /\ t >= Began - Window => Since(t) <= Limit + Least(hits.count, Limit)

RateInv ==
    /\ RateTypeOK /\ AdmissionsCounted /\ NotYet
    /\ backend = "local" => IF entry.exists THEN EntryCounts ELSE EntryGone
    /\ backend = "redis" => CounterCounts
    /\ RefusedOnlyOverLimit

LEMMA DivFacts ==
    ASSUME NEW a \in Nat
    PROVE  /\ a \div Second \in Nat
           /\ Second * (a \div Second) <= a
           /\ a < Second * (a \div Second) + Second
BY RateAssumption

LEMMA Quotient ==
    ASSUME NEW a \in Nat, NEW q \in Nat, Second * q <= a
    PROVE  q <= a \div Second
<1> DEFINE p == a \div Second
<1>1. p \in Nat /\ a < Second * p + Second
  BY DivFacts
<1>2. Second * q < Second * (p + 1)
  BY <1>1, RateAssumption
<1>3. q < p + 1
  BY <1>1, <1>2, RateAssumption
<1> QED  BY <1>1, <1>3

LEMMA RefillFacts ==
    /\ \A a \in Nat : Refill(a) \in Nat
    /\ \A a, b \in Nat : Refill(a) + Refill(b) <= Refill(a + b)
    /\ \A a \in Nat : a >= Second => Burst <= Refill(a)
<1>1. \A a \in Nat : a * Burst \in Nat
  BY RateAssumption
<1>2. ASSUME NEW a \in Nat, NEW b \in Nat PROVE Refill(a) + Refill(b) <= Refill(a + b)
  <2> DEFINE p == Refill(a)
             q == Refill(b)
  <2>1. p \in Nat /\ q \in Nat /\ Second * p <= a * Burst /\ Second * q <= b * Burst
    BY <1>1, DivFacts DEF Refill
  <2>2. (a + b) * Burst = a * Burst + b * Burst
    BY RateAssumption
  <2>3. Second * (p + q) = Second * p + Second * q
    BY <2>1, RateAssumption
  <2>4. Second * (p + q) <= (a + b) * Burst
    <3> HIDE DEF p, q
    <3>1. Second * p \in Nat /\ Second * q \in Nat
      BY <2>1, RateAssumption
    <3> QED  BY <1>1, <2>1, <2>2, <2>3, <3>1
  <2>5. (a + b) * Burst \in Nat /\ p + q \in Nat
    BY <1>1, <2>1
  <2> HIDE DEF p, q
  <2>6. p + q <= ((a + b) * Burst) \div Second
    BY <2>4, <2>5, Quotient
  <2> QED  BY <2>6 DEF Refill, p, q
<1>3. ASSUME NEW a \in Nat, a >= Second PROVE Burst <= Refill(a)
  <2>1. Second * Burst <= a * Burst
    BY <1>3, RateAssumption
  <2> QED  BY <1>1, <2>1, Quotient, RateAssumption DEF Refill
<1>4. \A a \in Nat : Refill(a) \in Nat
  BY <1>1, DivFacts DEF Refill
<1> QED  BY <1>2, <1>3, <1>4
LEMMA RateFields ==
    ASSUME RateTypeOK
    PROVE  /\ now \in Nat /\ now \in 0..LastTime
           /\ hits.count \in Nat /\ hits.expires \in Nat
           /\ entry.exists =>
                /\ entry.count \in Nat /\ entry.start \in Nat /\ entry.last \in Nat
                /\ entry.tokens \in 0..Burst
<1>1. now \in 0..LastTime /\ hits \in [count : Nat, expires : Nat]
  BY DEF RateTypeOK
<1>2. ASSUME entry.exists
      PROVE  entry \in [exists : {TRUE}, count : Nat, start : Nat, tokens : 0..Burst, last : Nat]
  <2>1. entry # NoEntry
    BY <1>2 DEF NoEntry
  <2> QED  BY <2>1, Zenon DEF RateTypeOK
<1>3. now \in Nat
  BY <1>1, RateAssumption
<1>4. hits.count \in Nat /\ hits.expires \in Nat
  BY <1>1
<1>5. ASSUME entry.exists
      PROVE  /\ entry.count \in Nat /\ entry.start \in Nat /\ entry.last \in Nat
             /\ entry.tokens \in 0..Burst
  <2>1. PICK e \in [exists : {TRUE}, count : Nat, start : Nat, tokens : 0..Burst, last : Nat] : e = entry
    BY <1>2, <1>5
  <2> QED  BY <2>1
<1> QED  BY <1>1, <1>3, <1>4, <1>5

LEMMA SinceFacts ==
    ASSUME RateTypeOK, AdmissionsCounted
    PROVE  /\ \A t \in 0..now : IsFiniteSet(Admissions(t, now)) /\ Since(t) \in Nat
           /\ \A t, u \in 0..now : t <= u => Since(u) <= Since(t)
<1>1. ASSUME NEW t \in 0..now PROVE IsFiniteSet(Admissions(t, now)) /\ Since(t) \in Nat
  <2>1. Admissions(t, now) \subseteq Admissions(0, LastTime)
    <3>1. \A u \in t..now : u \in 0..LastTime
      BY RateAssumption DEF RateTypeOK
    <3> QED  BY <3>1 DEF Admissions
  <2> QED  BY <2>1, FS_Subset, FS_CardinalityType DEF AdmissionsCounted, Since, Sum
<1>2. ASSUME NEW t \in 0..now, NEW u \in 0..now, t <= u PROVE Since(u) <= Since(t)
  <2>1. Admissions(u, now) \subseteq Admissions(t, now)
    BY <1>2 DEF Admissions, RateTypeOK
  <2> QED  BY <1>1, <2>1, FS_Subset DEF Since, Sum
<1> QED  BY <1>1, <1>2

\* A request that is admitted counts once in every stretch up to now.
LEMMA OneMore ==
    ASSUME RateTypeOK, AdmissionsCounted, UNCHANGED now,
           admitted' = [admitted EXCEPT ![now] = @ + 1]
    PROVE  /\ AdmissionsCounted'
           /\ \A t \in 0..now : Since(t)' = Since(t) + 1
<1> DEFINE x == <<now, admitted[now] + 1>>
<1>0. now \in 0..LastTime /\ admitted[now] \in Nat /\ LastTime \in Nat
  BY RateAssumption DEF RateTypeOK
<1>1. /\ admitted'[now] = admitted[now] + 1
      /\ \A u \in 0..LastTime : u # now => admitted'[u] = admitted[u]
  BY DEF RateTypeOK
<1>2. 1..admitted'[now] = (1..admitted[now]) \cup {admitted[now] + 1}
  BY <1>0, <1>1
<1>3. ASSUME NEW a \in 0..LastTime, NEW b \in 0..LastTime, a <= now, now <= b
      PROVE  Admissions(a, b)' = Admissions(a, b) \cup {x} /\ x \notin Admissions(a, b)
  <2>1. \A u \in a..b : u \in 0..LastTime
    BY <1>0
  <2>2. now \in a..b
    BY <1>0, <1>3
  <2>3. x \notin Admissions(a, b)
    BY <1>0 DEF Admissions
  <2>4. ASSUME NEW p \in Admissions(a, b)' PROVE p \in Admissions(a, b) \cup {x}
    <3>1. PICK u \in a..b : p \in {u} \X (1..admitted'[u])
      BY DEF Admissions
    <3>2. CASE u = now
      BY <1>2, <3>1, <3>2 DEF Admissions
    <3>3. CASE u # now
      BY <1>1, <2>1, <3>1, <3>3 DEF Admissions
    <3> QED  BY <3>2, <3>3
  <2>5. ASSUME NEW p \in Admissions(a, b) \cup {x} PROVE p \in Admissions(a, b)'
    <3>1. PICK u \in a..b : p \in {u} \X (1..admitted'[u])
      <4>1. CASE p = x
        BY <1>0, <1>1, <2>2, <4>1
      <4>2. CASE p \in Admissions(a, b)
        <5>1. PICK u \in a..b : p \in {u} \X (1..admitted[u])
          BY <4>2 DEF Admissions
        <5>2. 1..admitted[u] \subseteq 1..admitted'[u]
          BY <1>1, <1>2, <2>1
        <5> QED  BY <5>1, <5>2
      <4> QED  BY <4>1, <4>2
    <3> QED  BY <3>1 DEF Admissions
  <2> QED  BY <2>3, <2>4, <2>5
<1>4. AdmissionsCounted'
  <2>1. Admissions(0, LastTime)' = Admissions(0, LastTime) \cup {x}
    BY <1>0, <1>3
  <2> QED  BY <2>1, FS_AddElement DEF AdmissionsCounted
<1>5. ASSUME NEW t \in 0..now PROVE Since(t)' = Since(t) + 1
  <2>1. Admissions(t, now)' = Admissions(t, now) \cup {x} /\ x \notin Admissions(t, now)
    BY <1>0, <1>3
  <2>2. IsFiniteSet(Admissions(t, now))
    BY SinceFacts
  <2> QED  BY <2>1, <2>2, FS_AddElement DEF Since, Sum
<1> QED  BY <1>4, <1>5

LEMMA NoMore ==
    ASSUME AdmissionsCounted, UNCHANGED <<now, admitted>>
    PROVE  AdmissionsCounted' /\ \A t : Since(t)' = Since(t)
BY DEF AdmissionsCounted, Since, Sum, Admissions

\* In the next moment nothing was admitted yet.
LEMMA NextMoment ==
    ASSUME RateTypeOK, AdmissionsCounted, NotYet, UNCHANGED admitted,
           now < LastTime, now' = now + 1
    PROVE  /\ AdmissionsCounted'
           /\ Since(now)' = 0
           /\ \A t \in 0..now : Since(t)' = Since(t)
<1>0. now \in Nat /\ now + 1 \in 0..LastTime /\ admitted[now + 1] = 0
  BY RateAssumption DEF RateTypeOK, NotYet
<1>1. {now + 1} \X (1..admitted[now + 1]) = {}
  BY <1>0
<1>2. Admissions(now, now)' = {}
  <2>1. now'..now' = {now + 1}
    BY <1>0
  <2>2. Admissions(now, now)' = UNION { {u} \X (1..admitted[u]) : u \in {now + 1} }
    BY <2>1 DEF Admissions
  <2> QED  BY <1>1, <2>2
<1>3. ASSUME NEW t \in 0..now PROVE Admissions(t, now)' = Admissions(t, now)
  <2>1. t..now' = (t..now) \cup {now + 1}
    BY <1>0
  <2> QED  BY <1>1, <2>1 DEF Admissions
<1>4. AdmissionsCounted'
  BY DEF AdmissionsCounted, Admissions
<1>5. Since(now)' = 0
  BY <1>2, FS_EmptySet DEF Since, Sum
<1>6. \A t \in 0..now : Since(t)' = Since(t)
  BY <1>3 DEF Since, Sum
<1> QED  BY <1>4, <1>5, <1>6
-----------------------------------------------------------------------------

LEMMA RatesStart == RInit => RateInv
<1> SUFFICES ASSUME RInit PROVE RateInv
  OBVIOUS
<1> USE RateAssumption DEF RInit
<1>1. RateTypeOK
  <2>1. now \in 0..LastTime /\ admitted \in [0..LastTime -> Nat]
    OBVIOUS
  <2>2. hits \in [count : Nat, expires : Nat]
    OBVIOUS
  <2>3. backend \in {"local", "redis"} /\ refused \in BOOLEAN /\ entry = NoEntry
    OBVIOUS
  <2> QED  BY <2>1, <2>2, <2>3 DEF RateTypeOK
<1>2. \A t \in 0..LastTime : {t} \X (1..admitted[t]) = {}
  OBVIOUS
<1>3. \A b \in 0..LastTime : Admissions(0, b) = {}
  BY <1>2 DEF Admissions
<1>4. AdmissionsCounted /\ Since(0) = 0
  <2>1. Admissions(0, LastTime) = {} /\ Admissions(0, now) = {}
    BY <1>3
  <2> QED  BY <2>1, FS_EmptySet DEF AdmissionsCounted, Since, Sum
<1>5. NotYet /\ RefusedOnlyOverLimit
  BY DEF NotYet, RefusedOnlyOverLimit
<1>6. EntryGone
  <2>1. 0..now = {0} /\ now - 0 = 0 /\ Refill(0) \in Nat
    BY RefillFacts
  <2> QED  BY <1>4, <2>1 DEF EntryGone
<1>7. CounterCounts
  BY <1>4 DEF CounterCounts, Began, Least
<1> QED  BY <1>1, <1>4, <1>5, <1>6, <1>7 DEF RateInv, NoEntry

\* A request, admitted or not, changes what was admitted from t on by itself.
LEMMA CountFacts ==
    ASSUME RateTypeOK, AdmissionsCounted, NotYet, UNCHANGED now,
           Count(TRUE) \/ Count(FALSE)
    PROVE  /\ admitted' \in [0..LastTime -> Nat] /\ refused' \in BOOLEAN
           /\ AdmissionsCounted' /\ NotYet'
           /\ refused' => \A t \in 0..now : Since(t)' = Since(t)
           /\ ~refused' => \A t \in 0..now : Since(t)' = Since(t) + 1
<1>2. CASE Count(TRUE)
  <2>1. admitted' = [admitted EXCEPT ![now] = @ + 1] /\ refused' = FALSE
    BY <1>2 DEF Count
  <2>2. admitted' \in [0..LastTime -> Nat] /\ NotYet'
    BY <2>1 DEF RateTypeOK, NotYet
  <2> QED  BY <2>1, <2>2, OneMore
<1>3. CASE Count(FALSE)
  <2>1. admitted' = admitted /\ refused'
    BY <1>3 DEF Count, RateTypeOK
  <2> QED  BY <2>1, NoMore DEF RateTypeOK, NotYet
<1> QED  BY <1>2, <1>3

LEMMA CleanUpKeeps == ASSUME RateInv, CleanUp PROVE RateInv'
<1> USE RateAssumption DEF CleanUp
<1>0. /\ RateTypeOK /\ AdmissionsCounted /\ NotYet /\ RefusedOnlyOverLimit
      /\ now \in Nat /\ entry.start \in Nat /\ entry.last \in Nat
      /\ entry.count \in Nat /\ entry.tokens \in 0..Burst
  BY RateFields DEF RateInv
<1>1. AdmissionsCounted' /\ \A t : Since(t)' = Since(t)
  BY <1>0, NoMore
<1>2. RateTypeOK' /\ NotYet' /\ RefusedOnlyOverLimit'
  BY <1>0 DEF RateTypeOK, NotYet, RefusedOnlyOverLimit, AdmittedSince, Sum, Admissions
<1>3. CASE backend = "redis"
  <2>1. CounterCounts'
    BY <1>1, <1>3 DEF RateInv, CounterCounts, Began
  <2> QED  BY <1>1, <1>2, <1>3, <2>1 DEF RateInv
<1>4. CASE backend = "local"
  <2>1. EntryCounts
    BY <1>4 DEF RateInv
  <2>2. entry.last <= now - Second /\ entry.start < now - Window
    BY <1>0, <2>1 DEF EntryCounts
  <2>3. Since(now) = 0
    BY <1>0, <2>1, <2>2 DEF EntryCounts
  <2>4. ASSUME NEW t \in 0..now, t >= now - Window PROVE Since(t) <= Limit + Refill(now - t)
    <3>1. Since(t) \in Nat /\ now - t \in Nat /\ Refill(now - t) \in Nat
      <4>1. now - t \in Nat
        BY <1>0
      <4> QED  BY <1>0, <4>1, SinceFacts, RefillFacts
    <3>2. CASE t > entry.last
      BY <2>1, <3>1, <3>2 DEF EntryCounts
    <3>3. CASE t <= entry.last
      <4>1. Since(t) <= Least(entry.count, Limit) + (Burst - entry.tokens) + Refill(entry.last - t)
        BY <1>0, <2>1, <2>2, <2>4, <3>3 DEF EntryCounts
      <4>2. Refill(entry.last - t) \in Nat /\ Burst <= Refill(now - entry.last)
            /\ Refill(entry.last - t) + Refill(now - entry.last) <= Refill(now - t)
        <5>1. entry.last - t \in Nat /\ now - entry.last \in Nat /\ now - entry.last >= Second
          BY <1>0, <2>2, <3>3
        <5>2. (entry.last - t) + (now - entry.last) = now - t
          BY <1>0
        <5>3. PICK a, b \in Nat : a = entry.last - t /\ b = now - entry.last
          BY <5>1
        <5> QED  BY <5>1, <5>2, <5>3, RefillFacts
      <4>3. Refill(now - entry.last) \in Nat
        <5>1. now - entry.last \in Nat
          BY <1>0, <2>2
        <5> QED  BY <5>1, RefillFacts
      <4>4. Least(entry.count, Limit) <= Limit /\ Least(entry.count, Limit) \in Nat
        BY <1>0 DEF Least
      <4>5. entry.tokens \in 0..Burst
        BY <1>0
      <4> QED  BY <3>1, <4>1, <4>2, <4>3, <4>4, <4>5
    <3> QED  BY <1>0, <3>2, <3>3
  <2>5. EntryGone'
    BY <1>1, <2>3, <2>4 DEF EntryGone
  <2> QED  BY <1>1, <1>2, <1>4, <2>5 DEF RateInv, NoEntry
<1> QED  BY <1>0, <1>3, <1>4 DEF RateTypeOK

LEMMA RTickKeeps == ASSUME RateInv, RTick PROVE RateInv'
<1> USE RateAssumption DEF RTick
<1>0. RateTypeOK /\ AdmissionsCounted /\ NotYet /\ now \in Nat /\ now' = now + 1
  BY RateFields DEF RateInv
<1>1. AdmissionsCounted' /\ Since(now)' = 0 /\ \A t \in 0..now : Since(t)' = Since(t)
  BY <1>0, NextMoment
<1>2. ASSUME NEW t \in 0..now' PROVE Since(t)' = IF t \in 0..now THEN Since(t) ELSE 0
  <2>1. CASE t \in 0..now
    BY <1>1, <2>1
  <2>2. CASE t \notin 0..now
    <3>1. t = now'
      BY <1>0, <2>2
    <3> QED  BY <1>1, <2>2, <3>1 DEF Since, Sum, Admissions
  <2> QED  BY <2>1, <2>2
<1>3. RateTypeOK' /\ NotYet' /\ RefusedOnlyOverLimit'
  <2>1. now' \in 0..LastTime
    BY <1>0
  <2>2. RateTypeOK'
    BY <1>0, <2>1, Zenon DEF RateTypeOK, NoEntry
  <2>3. NotYet' /\ RefusedOnlyOverLimit'
    BY <1>0 DEF NotYet, RefusedOnlyOverLimit
  <2> QED  BY <2>2, <2>3
<1>4. CASE backend = "redis"
  <2>1. CounterCounts /\ hits.expires \in Nat
    BY <1>0, <1>4, RateFields DEF RateInv
  <2>2. Least(hits.count, Limit) \in Nat
    BY <1>0, RateFields DEF Least
  <2>3. CounterCounts'
    BY <1>0, <1>2, <2>1, <2>2 DEF CounterCounts, Began
  <2> QED  BY <1>0, <1>1, <1>3, <1>4, <2>3 DEF RateInv
<1>5. CASE backend = "local"
  <2>1. CASE entry.exists
    <3>1. EntryCounts
      BY <1>5, <2>1 DEF RateInv
    <3>2. entry.start \in Nat /\ entry.last \in Nat
      BY <1>0, <2>1, RateFields
    <3>3. EntryCounts'
      BY <1>0, <1>2, <3>1, <3>2 DEF EntryCounts
    <3> QED  BY <1>0, <1>1, <1>3, <1>5, <2>1, <3>3 DEF RateInv
  <2>2. CASE ~entry.exists
    <3>1. EntryGone
      BY <1>5, <2>2 DEF RateInv
    <3>2. ASSUME NEW t \in 0..now', t >= now' - Window PROVE Since(t)' <= Limit + Refill(now' - t)
      <4>1. now' - t \in Nat /\ Refill(now' - t) \in Nat
        <5>1. now' - t \in Nat
          BY <1>0
        <5> QED  BY <5>1, RefillFacts
      <4>2. CASE t \in 0..now
        <5>1. Since(t)' <= Limit + Refill(now - t)
          BY <1>0, <1>2, <3>1, <3>2, <4>2 DEF EntryGone
        <5>2. Since(t)' \in Nat
          BY <1>0, <1>2, <4>2, SinceFacts
        <5>3. Refill(now - t) \in Nat /\ Refill(now - t) <= Refill(now' - t)
          <6>1. PICK a \in Nat : a = now - t
            BY <1>0, <4>2
          <6>2. Refill(a) + Refill(1) <= Refill(a + 1) /\ Refill(1) \in Nat /\ Refill(a) \in Nat
                /\ Refill(a + 1) \in Nat
            <7>1. 1 \in Nat /\ a + 1 \in Nat
              OBVIOUS
            <7> QED  BY <7>1, RefillFacts
          <6>3. a + 1 = now' - t
            BY <1>0, <6>1
          <6> QED  BY <6>1, <6>2, <6>3
        <5> QED  BY <4>1, <5>1, <5>2, <5>3
      <4>3. CASE t \notin 0..now
        BY <1>2, <4>1, <4>3
      <4> QED  BY <4>2, <4>3
    <3>3. EntryGone'
      BY <1>1, <3>2 DEF EntryGone
    <3> QED  BY <1>0, <1>1, <1>3, <1>5, <2>2, <3>3 DEF RateInv
  <2> QED  BY <2>1, <2>2
<1> QED  BY <1>0, <1>4, <1>5 DEF RateTypeOK

\* One more hit of the counter, or the first of a new one.
Hit == hits' = [count   |-> Incremented,
                expires |-> IF Incremented = 1 THEN now + Window ELSE hits.expires]

\* What a hit leaves to be shown for the next request: the bounds before it is
\* admitted, with one hit less.
LEMMA HitFacts ==
    ASSUME RateTypeOK, AdmissionsCounted, NotYet, CounterCounts, Hit, UNCHANGED now
    PROVE  /\ hits' \in [count : Nat, expires : Nat] /\ hits'.count = Incremented
           /\ Incremented \in 1..(Limit + 1)
           /\ Began' \in 0..now /\ now < hits'.expires
           /\ Since(Began') >= Incremented - 1
           /\ ~faulty =>
                \A t \in 0..now :
                  /\ t >= Began' => Since(t) <= Incremented - 1
                  /\ t >= Began' - Window => Since(t) <= Limit + (Incremented - 1)
<1> USE RateAssumption
<1>0. /\ now \in Nat /\ hits.count \in Nat /\ hits.expires \in Nat
      /\ \A t \in 0..now : Since(t) \in Nat
  BY RateFields, SinceFacts
<1>1. Incremented \in 1..(Limit + 1)
  BY <1>0 DEF Incremented, Least
<1>2. hits'.count = Incremented
      /\ hits'.expires = IF Incremented = 1 THEN now + Window ELSE hits.expires
  BY DEF Hit
<1>3. CASE Incremented = 1
  <2>1. Began' = now /\ now \in 0..now /\ now < hits'.expires
    BY <1>0, <1>2, <1>3 DEF Began
  <2>2. ASSUME ~faulty, NEW t \in 0..now, t >= now - Window PROVE Since(t) <= Limit
    <3>1. CASE now >= hits.expires
      BY <1>0, <2>2, <3>1 DEF CounterCounts, Began, Least
    <3>2. CASE now < hits.expires
      <4>1. Least(hits.count, Limit) = 0
        BY <1>0, <1>3, <3>2 DEF Incremented, Least
      <4> QED  BY <1>0, <2>2, <3>2, <4>1 DEF CounterCounts, Began
    <3> QED  BY <1>0, <3>1, <3>2
  <2>3. ASSUME ~faulty PROVE Since(now) <= 0
    <3>1. CASE now >= hits.expires
      BY <1>0, <2>3, <3>1 DEF CounterCounts
    <3>2. CASE now < hits.expires
      <4>1. Least(hits.count, Limit) = 0
        BY <1>0, <1>3, <3>2 DEF Incremented, Least
      <4> QED  BY <1>0, <2>3, <3>2, <4>1 DEF CounterCounts, Began
    <3> QED  BY <1>0, <3>1, <3>2
  <2>4. hits' \in [count : Nat, expires : Nat]
    BY <1>0, <1>1, <1>3 DEF Hit
  <2>5. Since(Began') >= Incremented - 1
    BY <1>0, <1>3, <2>1
  <2>6. ASSUME ~faulty, NEW t \in 0..now
        PROVE  /\ t >= Began' => Since(t) <= Incremented - 1
               /\ t >= Began' - Window => Since(t) <= Limit + (Incremented - 1)
    <3>1. t >= now => t = now
      BY <1>0
    <3> QED  BY <1>0, <1>3, <2>1, <2>2, <2>3, <2>6, <3>1
  <2> QED  BY <1>1, <1>2, <2>1, <2>4, <2>5, <2>6
<1>4. CASE Incremented # 1
  <2>1. now < hits.expires /\ Incremented - 1 = Least(hits.count, Limit)
    BY <1>0, <1>4 DEF Incremented, Least
  <2>2. hits' \in [count : Nat, expires : Nat]
    BY <1>0, <1>1, <1>4 DEF Hit
  <2>3. Began' = Began /\ now < hits'.expires
    BY <1>2, <1>4, <2>1 DEF Began
  <2>4. Began' \in 0..now /\ Since(Began') >= Incremented - 1
    BY <2>1, <2>3 DEF CounterCounts
  <2>5. ASSUME ~faulty, NEW t \in 0..now
        PROVE  /\ t >= Began' => Since(t) <= Incremented - 1
               /\ t >= Began' - Window => Since(t) <= Limit + (Incremented - 1)
    BY <2>1, <2>3, <2>5 DEF CounterCounts
  <2> QED  BY <1>1, <1>2, <2>2, <2>3, <2>4, <2>5
<1> QED  BY <1>3, <1>4

LEMMA RedisKeepsLimit == ASSUME RateInv, RedisLimit \/ RedisFails PROVE RateInv'
<1> USE RateAssumption
<1>0. /\ RateTypeOK /\ AdmissionsCounted /\ NotYet /\ CounterCounts
      /\ UNCHANGED <<backend, entry, now>> /\ backend = "redis"
      /\ now \in Nat /\ hits.count \in Nat /\ hits.expires \in Nat
      /\ \A t \in 0..now : Since(t) \in Nat
  <2>1. /\ RateTypeOK /\ AdmissionsCounted /\ NotYet /\ CounterCounts
        /\ UNCHANGED <<backend, entry, now>> /\ backend = "redis"
    BY DEF RateInv, RedisLimit, RedisFails
  <2> QED  BY <2>1, RateFields, SinceFacts
<1>1. Count(TRUE) \/ Count(FALSE)
  <2>1. CASE RedisFails
    BY <2>1 DEF RedisFails
  <2>2. CASE RedisLimit /\ Incremented <= Limit
    BY <2>2 DEF RedisLimit, Count
  <2>3. CASE RedisLimit /\ ~(Incremented <= Limit)
    BY <2>3 DEF RedisLimit, Count
  <2> QED  BY <2>1, <2>2, <2>3
<1>2. /\ admitted' \in [0..LastTime -> Nat] /\ refused' \in BOOLEAN
      /\ AdmissionsCounted' /\ NotYet'
      /\ refused' => \A t \in 0..now : Since(t)' = Since(t)
      /\ ~refused' => \A t \in 0..now : Since(t)' = Since(t) + 1
  BY <1>0, <1>1, CountFacts
<1>3. CASE Hit /\ (refused' => Incremented = Limit + 1)
           /\ (~faulty' => ~faulty /\ (~refused' => Incremented <= Limit))
  <2>1. PICK b \in 0..now, n \in 1..(Limit + 1) : b = Began' /\ n = Incremented
    BY <1>0, <1>3, HitFacts
  <2>2. /\ hits' \in [count : Nat, expires : Nat] /\ hits'.count = n
        /\ now < hits'.expires /\ Since(b) >= n - 1
        /\ ~faulty =>
             \A t \in 0..now : /\ t >= b => Since(t) <= n - 1
                               /\ t >= b - Window => Since(t) <= Limit + (n - 1)
    BY <1>0, <1>3, <2>1, HitFacts
  <2>3. Least(n, Limit) = IF n <= Limit THEN n ELSE Limit
    BY <2>1 DEF Least
  <2>4. CounterCounts'
    <3>1. Since(b)' >= Least(n, Limit)
      BY <1>0, <1>2, <1>3, <2>1, <2>2, <2>3
    <3>2. ASSUME ~faulty', NEW t \in 0..now
          PROVE  /\ t >= b => Since(t)' <= Least(n, Limit)
                 /\ t >= b - Window => Since(t)' <= Limit + Least(n, Limit)
      <4> DEFINE c == Since(t)
                 d == Since(t)'
      <4>1. /\ c \in Nat /\ n \in Nat /\ Least(n, Limit) \in Nat
            /\ t >= b => c <= n - 1
            /\ t >= b - Window => c <= Limit + (n - 1)
        <5>1. ~faulty
          BY <1>3, <3>2
        <5>2. c \in Nat /\ n \in Nat /\ Least(n, Limit) \in Nat
          BY <1>0, <2>1, <2>3
        <5> QED  BY <2>2, <3>2, <5>1, <5>2
      <4>2. (d = c /\ Least(n, Limit) = n - 1) \/ (d = c + 1 /\ Least(n, Limit) = n)
        <5>1. CASE refused'
          BY <1>0, <1>2, <1>3, <2>1, <2>3, <5>1
        <5>2. CASE ~refused'
          BY <1>0, <1>2, <1>3, <2>1, <2>3, <3>2, <5>2
        <5> QED  BY <5>1, <5>2
      <4> HIDE DEF c, d
      <4>3. (t >= b => d <= Least(n, Limit)) /\ (t >= b - Window => d <= Limit + Least(n, Limit))
        <5>1. CASE d = c /\ Least(n, Limit) = n - 1
          BY <4>1, <5>1
        <5>2. CASE d = c + 1 /\ Least(n, Limit) = n
          BY <4>1, <5>2, RateAssumption
        <5> QED  BY <4>2, <5>1, <5>2
      <4> QED  BY <4>3 DEF c, d
    <3>3. \A t \in 0..now : ~(t >= hits'.expires)
      BY <1>0, <2>2
    <3>4. Since(Began)' = Since(b)'
      BY <2>1 DEF Since, Sum, Admissions
    <3> QED  BY <1>0, <2>1, <2>2, <3>1, <3>2, <3>3, <3>4 DEF CounterCounts
  <2>5. RefusedOnlyOverLimit'
    <3>1. ASSUME refused' PROVE AdmittedSince(now - Window)' >= Limit
      <4>0. PICK from \in 0..now : from = IF now - Window < 0 THEN 0 ELSE now - Window
        BY <1>0
      <4>1. Since(b) >= Limit
        BY <1>3, <2>1, <2>2, <3>1
      <4>2. b = hits'.expires - Window /\ from <= b
        BY <1>0, <4>0, <2>1, <2>2 DEF Began
      <4>3. Since(from) >= Limit
        BY <1>0, <2>1, <4>1, <4>2, SinceFacts
      <4>4. AdmittedSince(now - Window)' = Since(from)'
        BY <1>0, <4>0 DEF AdmittedSince, Since, Sum, Admissions
      <4>5. Since(from)' = Since(from)
        BY <1>2, <3>1, <4>2
      <4> QED  BY <4>3, <4>4, <4>5
    <3> QED  BY <3>1 DEF RefusedOnlyOverLimit
  <2>6. RateTypeOK'
    BY <1>0, <1>2, <2>2, Zenon DEF RateTypeOK, NoEntry
  <2> QED  BY <1>0, <1>2, <2>4, <2>5, <2>6 DEF RateInv
<1>4. CASE UNCHANGED hits /\ faulty' /\ ~refused'
  <2>1. CounterCounts'
    <3>1. ASSUME now < hits.expires PROVE Since(Began)' >= Least(hits.count, Limit)
      <4>1. PICK b \in 0..now : b = Began /\ Since(b) >= Least(hits.count, Limit)
        BY <3>1, <1>0 DEF CounterCounts
      <4>2. Since(Began)' = Since(b)'
        BY <1>4, <4>1 DEF Since, Sum, Admissions, Began
      <4> QED  BY <1>0, <1>2, <1>4, <4>1, <4>2 DEF Least
    <3> QED  BY <1>0, <1>4, <3>1 DEF CounterCounts, Began
  <2>2. RateTypeOK'
    BY <1>0, <1>2, <1>4, Zenon DEF RateTypeOK, NoEntry
  <2> QED  BY <1>0, <1>2, <1>4, <2>1, <2>2 DEF RateInv, RefusedOnlyOverLimit
<1>5. CASE RedisLimit
  <2>1. Incremented \in 1..(Limit + 1)
    BY <1>0 DEF Incremented, Least
  <2>2. Hit /\ UNCHANGED faulty
    BY <1>5 DEF RedisLimit, Hit
  <2>3. CASE Incremented <= Limit
    <3>1. refused' = FALSE
      BY <1>5, <2>3 DEF RedisLimit, Count
    <3> QED  BY <1>3, <2>2, <2>3, <3>1
  <2>4. CASE ~(Incremented <= Limit)
    <3>1. Incremented = Limit + 1
      BY <2>1, <2>4
    <3>2. refused' = TRUE
      BY <1>5, <2>4 DEF RedisLimit, Count
    <3> QED  BY <1>3, <2>2, <3>1, <3>2
  <2> QED  BY <2>3, <2>4
<1>6. CASE RedisFails
  BY <1>3, <1>4, <1>6 DEF RedisFails, Hit, Count
<1> QED  BY <1>5, <1>6

\* The window and the tokens a request finds, and what it does with them.
LEMMA CheckFacts ==
    ASSUME RateInv, CheckLimit
    PROVE  \E c \in Nat, s \in 0..now, k \in 0..Burst :
             /\ now <= s + Window /\ c <= Since(s)
             /\ \A t \in 0..now :
                  LET used == Least(c, Limit) + (Burst - k) + Refill(now - t)
                  IN  /\ t >= s => Since(t) <= used
                      /\ t >= s - Window => Since(t) <= Limit + used
             /\ \/ /\ c < Limit /\ Count(TRUE)
                   /\ entry' = [exists |-> TRUE, count |-> c + 1, start |-> s,
                                tokens |-> k, last |-> now]
                \/ /\ c >= Limit /\ k > 0 /\ Count(TRUE)
                   /\ entry' = [exists |-> TRUE, count |-> c + 1, start |-> s,
                                tokens |-> k - 1, last |-> now]
                \/ /\ c >= Limit /\ k = 0 /\ Count(FALSE)
                   /\ entry' = [exists |-> TRUE, count |-> c, start |-> s,
                                tokens |-> k, last |-> now]
<1> USE RateAssumption
<1>0. /\ RateTypeOK /\ AdmissionsCounted /\ NotYet /\ backend = "local"
      /\ now \in Nat /\ \A t \in 0..now : Since(t) \in Nat
      /\ IF entry.exists THEN EntryCounts ELSE EntryGone
  BY RateFields, SinceFacts DEF RateInv, CheckLimit
<1>1. PICK e : e = IF entry.exists THEN entry
                   ELSE [exists |-> TRUE, count |-> 0, start |-> now,
                         tokens |-> Burst, last |-> now]
  OBVIOUS
<1>2. /\ e.count \in Nat /\ e.start \in 0..now /\ e.tokens \in 0..Burst /\ e.last \in 0..now
      /\ e.start <= e.last
  <2>1. CASE entry.exists
    BY <1>0, <1>1, <2>1, RateFields DEF EntryCounts
  <2>2. CASE ~entry.exists
    BY <1>0, <1>1, <2>2
  <2> QED  BY <2>1, <2>2
<1>3. PICK r \in Nat : r = Refill(now - e.last)
  <2>1. now - e.last \in Nat
    BY <1>0, <1>2
  <2> QED  BY <2>1, RefillFacts
<1>4. PICK k \in 0..Burst : k = Least(e.tokens + r, Burst)
  BY <1>2, <1>3 DEF Least
<1>5. PICK s \in 0..now, c \in Nat :
        /\ s = IF now - e.start > Window THEN now ELSE e.start
        /\ c = IF now - e.start > Window THEN 0 ELSE e.count
  BY <1>0, <1>2
<1>6. \/ /\ c < Limit /\ Count(TRUE)
         /\ entry' = [exists |-> TRUE, count |-> c + 1, start |-> s,
                      tokens |-> k, last |-> now]
      \/ /\ c >= Limit /\ k > 0 /\ Count(TRUE)
         /\ entry' = [exists |-> TRUE, count |-> c + 1, start |-> s,
                      tokens |-> k - 1, last |-> now]
      \/ /\ c >= Limit /\ k = 0 /\ Count(FALSE)
         /\ entry' = [exists |-> TRUE, count |-> c, start |-> s,
                      tokens |-> k, last |-> now]
  <2>1. k = Least(e.tokens + ((now - e.last) * Burst) \div Second, Burst)
    BY <1>3, <1>4 DEF Refill
  <2>2. /\ Count(c < Limit \/ k > 0)
        /\ entry' = [exists |-> TRUE,
                     count  |-> IF c < Limit \/ k > 0 THEN c + 1 ELSE c,
                     start  |-> s,
                     tokens |-> IF (c < Limit \/ k > 0) /\ ~(c < Limit) THEN k - 1 ELSE k,
                     last   |-> now]
    BY <1>1, <1>5, <2>1 DEF CheckLimit
  <2>3. CASE c < Limit
    BY <2>2, <2>3 DEF Count
  <2>4. CASE c >= Limit /\ k > 0
    BY <2>2, <2>4 DEF Count
  <2>5. CASE c >= Limit /\ k = 0
    BY <2>2, <2>5 DEF Count
  <2>6. c < Limit \/ (c >= Limit /\ k > 0) \/ (c >= Limit /\ k = 0)
    BY <1>4, <1>5
  <2> QED  BY <2>3, <2>4, <2>5, <2>6
<1>7. now <= s + Window /\ c <= Since(s)
  <2>1. CASE now - e.start > Window
    BY <1>0, <1>5, <2>1
  <2>2. CASE ~(now - e.start > Window) /\ entry.exists
    BY <1>0, <1>1, <1>2, <1>5, <2>2 DEF EntryCounts
  <2>3. CASE ~(now - e.start > Window) /\ ~entry.exists
    BY <1>0, <1>1, <1>2, <1>5, <2>3
  <2> QED  BY <2>1, <2>2, <2>3
<1>8. ASSUME NEW t \in 0..now
      PROVE  /\ t >= s => Since(t) <= Least(c, Limit) + (Burst - k) + Refill(now - t)
             /\ t >= s - Window =>
                  Since(t) <= Limit + (Least(c, Limit) + (Burst - k) + Refill(now - t))
  <2>1. PICK n \in Nat, l \in 0..Limit, m \in Nat :
          n = Since(t) /\ l = Least(c, Limit) /\ m = Refill(now - t)
    <3>1. now - t \in Nat /\ Least(c, Limit) \in 0..Limit
      BY <1>0 DEF Least
    <3> QED  BY <1>0, <1>8, <3>1, RefillFacts
  <2> SUFFICES /\ t >= s => n <= l + (Burst - k) + m
               /\ t >= s - Window => n <= Limit + (l + (Burst - k) + m)
    BY <2>1
  <2>2. CASE ~entry.exists
    <3>1. k = Burst /\ s = now
      BY <1>0, <1>1, <1>3, <1>4, <1>5, <2>2 DEF Least
    <3>2. t >= now => n = 0
      BY <1>0, <1>8, <2>1, <2>2 DEF EntryGone
    <3>3. t >= now - Window => n <= Limit + m
      BY <1>0, <1>8, <2>1, <2>2 DEF EntryGone
    <3> QED  BY <1>0, <1>8, <3>1, <3>2, <3>3
  <2>3. CASE entry.exists /\ t > entry.last
    <3>1. n = 0
      BY <1>0, <1>8, <2>1, <2>3 DEF EntryCounts
    <3> QED  BY <3>1
  <2>4. CASE entry.exists /\ t <= entry.last
    <3>1. PICK p \in Nat, q \in 0..Limit : p = Refill(e.last - t) /\ q = Least(e.count, Limit)
      <4>1. e.last - t \in Nat /\ Least(e.count, Limit) \in 0..Limit
        BY <1>1, <1>2, <1>8, <2>4 DEF Least
      <4> QED  BY <4>1, RefillFacts
    <3>2. p + r <= m
      <4>1. PICK a \in Nat, b \in Nat : a = e.last - t /\ b = now - e.last
        BY <1>0, <1>1, <1>2, <1>8, <2>4
      <4>2. a + b = now - t
        BY <1>0, <1>2, <1>8, <4>1
      <4> QED  BY <1>3, <2>1, <3>1, <4>1, <4>2, RefillFacts
    <3>3. /\ t >= e.start => n <= q + (Burst - e.tokens) + p
          /\ t >= e.start - Window => n <= Limit + (q + (Burst - e.tokens) + p)
      <4>1. e = entry /\ EntryCounts /\ t \in 0..entry.last
        BY <1>0, <1>1, <1>2, <1>8, <2>4
      <4> QED  BY <2>1, <3>1, <4>1 DEF EntryCounts
    <3>4. (Burst - e.tokens) + p <= (Burst - k) + m
      BY <1>2, <1>3, <1>4, <3>1, <3>2, <2>1 DEF Least
    <3>5. CASE now - e.start > Window
      <4>1. s = now /\ e.last < now /\ l = 0
        BY <1>0, <1>1, <1>2, <1>5, <2>1, <2>4, <3>5 DEF EntryCounts, Least
      <4>2. t < s
        BY <1>1, <1>2, <1>8, <2>4, <4>1
      <4>3. t >= s - Window => t >= e.start
        BY <1>0, <1>2, <1>8, <3>5, <4>1
      <4> QED  BY <1>0, <1>2, <1>8, <2>1, <3>1, <3>3, <3>4, <4>1, <4>2, <4>3
    <3>6. CASE ~(now - e.start > Window)
      <4>1. s = e.start /\ l = q
        BY <1>5, <2>1, <3>1, <3>6
      <4> QED  BY <1>2, <2>1, <3>1, <3>3, <3>4, <4>1
    <3> QED  BY <3>5, <3>6
  <2> QED  BY <1>0, <1>1, <1>2, <1>8, <2>2, <2>3, <2>4
<1> QED  BY <1>6, <1>7, <1>8

LEMMA CheckKeeps == ASSUME RateInv, CheckLimit PROVE RateInv'
<1> USE RateAssumption
<1>0. /\ RateTypeOK /\ AdmissionsCounted /\ NotYet
      /\ UNCHANGED <<backend, hits, now>> /\ backend = "local"
      /\ now \in Nat /\ \A t \in 0..now : Since(t) \in Nat
  <2>1. /\ RateTypeOK /\ AdmissionsCounted /\ NotYet
        /\ UNCHANGED <<backend, hits, now>> /\ backend = "local"
    BY DEF RateInv, CheckLimit
  <2> QED  BY <2>1, RateFields, SinceFacts
<1>1. PICK c \in Nat, s \in 0..now, k \in 0..Burst :
             /\ now <= s + Window /\ c <= Since(s)
             /\ \A t \in 0..now :
                  LET used == Least(c, Limit) + (Burst - k) + Refill(now - t)
                  IN  /\ t >= s => Since(t) <= used
                      /\ t >= s - Window => Since(t) <= Limit + used
             /\ \/ /\ c < Limit /\ Count(TRUE)
                   /\ entry' = [exists |-> TRUE, count |-> c + 1, start |-> s,
                                tokens |-> k, last |-> now]
                \/ /\ c >= Limit /\ k > 0 /\ Count(TRUE)
                   /\ entry' = [exists |-> TRUE, count |-> c + 1, start |-> s,
                                tokens |-> k - 1, last |-> now]
                \/ /\ c >= Limit /\ k = 0 /\ Count(FALSE)
                   /\ entry' = [exists |-> TRUE, count |-> c, start |-> s,
                                tokens |-> k, last |-> now]
  BY CheckFacts
<1>2. /\ admitted' \in [0..LastTime -> Nat] /\ refused' \in BOOLEAN
      /\ AdmissionsCounted' /\ NotYet'
      /\ refused' => \A t \in 0..now : Since(t)' = Since(t)
      /\ ~refused' => \A t \in 0..now : Since(t)' = Since(t) + 1
  BY <1>0, <1>1, CountFacts
<1>3. PICK d \in {0, 1}, u \in {0, 1} :
        /\ u <= k /\ Least(c + d, Limit) = Least(c, Limit) + (d - u) /\ u <= d
        /\ entry' = [exists |-> TRUE, count |-> c + d, start |-> s,
                     tokens |-> k - u, last |-> now]
        /\ \A t \in 0..now : Since(t)' = Since(t) + d
        /\ refused' => d = 0 /\ c >= Limit
  <2>0. c \in Nat /\ k \in 0..Burst
    BY <1>1
  <2>1. CASE /\ c < Limit /\ Count(TRUE)
             /\ entry' = [exists |-> TRUE, count |-> c + 1, start |-> s,
                          tokens |-> k, last |-> now]
    <3>1. refused' = FALSE
      BY <2>1 DEF Count
    <3>2. Least(c + 1, Limit) = Least(c, Limit) + (1 - 0)
      BY <2>0, <2>1 DEF Least
    <3>3. k - 0 = k /\ 0 <= k
      BY <2>0
    <3> QED  BY <1>2, <2>1, <3>1, <3>2, <3>3
  <2>2. CASE /\ c >= Limit /\ k > 0 /\ Count(TRUE)
             /\ entry' = [exists |-> TRUE, count |-> c + 1, start |-> s,
                          tokens |-> k - 1, last |-> now]
    <3>1. refused' = FALSE
      BY <2>2 DEF Count
    <3>2. Least(c + 1, Limit) = Least(c, Limit) + (1 - 1)
      BY <2>0, <2>2 DEF Least
    <3>3. 1 <= k
      BY <2>0, <2>2
    <3> QED  BY <1>2, <2>2, <3>1, <3>2, <3>3
  <2>3. CASE /\ c >= Limit /\ k = 0 /\ Count(FALSE)
             /\ entry' = [exists |-> TRUE, count |-> c, start |-> s,
                          tokens |-> k, last |-> now]
    <3>1. refused' = TRUE
      BY <2>3 DEF Count
    <3>2. /\ Least(c + 0, Limit) = Least(c, Limit) + (0 - 0)
          /\ c + 0 = c /\ k - 0 = k /\ 0 <= k
      BY <2>0, <2>3 DEF Least
    <3>3. \A t \in 0..now : Since(t)' = Since(t) + 0
      BY <1>0, <1>2, <3>1
    <3> QED  BY <2>3, <3>1, <3>2, <3>3
  <2> QED  BY <1>1, <2>1, <2>2, <2>3
<1>4. entry' \in [exists : {TRUE}, count : Nat, start : Nat, tokens : 0..Burst, last : Nat]
  <2>1. c + d \in Nat /\ s \in Nat /\ k - u \in 0..Burst
    BY <1>0, <1>3
  <2> QED  BY <1>0, <1>3, <2>1
<1>5. RateTypeOK'
  BY <1>0, <1>2, <1>4, Zenon DEF RateTypeOK
<1>6. EntryCounts'
  <2>1. /\ entry'.count = c + d /\ entry'.start = s /\ entry'.tokens = k - u /\ entry'.last = now
    BY <1>3
  <2>2. ASSUME NEW t \in 0..now
        PROVE  LET used == Least(c + d, Limit) + (Burst - (k - u)) + Refill(now - t)
               IN  /\ t >= s => Since(t)' <= used
                   /\ t >= s - Window => Since(t)' <= Limit + used
    <3>1. PICK n \in Nat, l \in Nat, m \in Nat :
            n = Since(t) /\ l = Least(c, Limit) /\ m = Refill(now - t)
      <4>1. now - t \in Nat /\ Least(c, Limit) \in Nat
        BY <1>0 DEF Least
      <4> QED  BY <1>0, <2>2, <4>1, RefillFacts
    <3>2. /\ t >= s => n <= l + (Burst - k) + m
          /\ t >= s - Window => n <= Limit + (l + (Burst - k) + m)
      BY <1>1, <2>2, <3>1
    <3>3. Since(t)' = n + d /\ Least(c + d, Limit) = l + (d - u)
      BY <1>3, <2>2, <3>1
    <3>4. (l + (d - u)) + (Burst - (k - u)) + m = (l + (Burst - k) + m) + d
      OBVIOUS
    <3>5. /\ t >= s => n + d <= (l + (d - u)) + (Burst - (k - u)) + m
          /\ t >= s - Window => n + d <= Limit + ((l + (d - u)) + (Burst - (k - u)) + m)
      BY <3>2, <3>4
    <3> QED  BY <3>1, <3>3, <3>5
  <2>3. Since(s)' >= c + d
    BY <1>0, <1>1, <1>3
  <2>4. \A t \in 0..now : ~(t > now)
    BY <1>0
  <2>5. Since(entry.start)' = Since(s)'
    BY <2>1 DEF Since, Sum, Admissions
  <2> QED  BY <1>0, <1>1, <2>1, <2>2, <2>3, <2>4, <2>5 DEF EntryCounts
<1>7. RefusedOnlyOverLimit'
  <2>1. ASSUME refused' PROVE AdmittedSince(now - Window)' >= Limit
    <3>1. PICK from \in 0..now : from = IF now - Window < 0 THEN 0 ELSE now - Window
      BY <1>0
    <3>2. Since(from) >= Limit
      BY <1>0, <1>1, <1>3, <2>1, <3>1, SinceFacts
    <3>3. AdmittedSince(now - Window)' = Since(from)'
      BY <1>0, <3>1 DEF AdmittedSince, Since, Sum, Admissions
    <3>4. Since(from)' = Since(from)
      BY <1>2, <2>1, <3>1
    <3> QED  BY <3>2, <3>3, <3>4
  <2> QED  BY <2>1 DEF RefusedOnlyOverLimit
<1> QED  BY <1>0, <1>2, <1>3, <1>5, <1>6, <1>7 DEF RateInv

LEMMA RatesKeep == RateInv /\ [RNext]_rvars => RateInv'
<1>1. ASSUME RateInv, UNCHANGED rvars PROVE RateInv'
  <2> USE <1>1 DEF rvars
  <2>0. RateTypeOK'
    BY Zenon DEF RateInv, RateTypeOK, NoEntry
  <2>1. AdmissionsCounted' /\ NotYet' /\ RefusedOnlyOverLimit'
    BY DEF RateInv, AdmissionsCounted, Admissions, NotYet,
           RefusedOnlyOverLimit, AdmittedSince, Sum
  <2>2. backend = "local" => IF entry.exists THEN EntryCounts' ELSE EntryGone'
    BY DEF RateInv, EntryCounts, EntryGone, Since, Sum, Admissions
  <2>3. backend = "redis" => CounterCounts'
    BY DEF RateInv, CounterCounts, Began, Since, Sum, Admissions
  <2> QED  BY <2>0, <2>1, <2>2, <2>3 DEF RateInv
<1> QED  BY <1>1, CheckKeeps, CleanUpKeeps, RedisKeepsLimit, RTickKeeps DEF RNext

(* Whatever the order of requests, clean-ups and the passing of time: no     *)
(* stretch of one window's length admits more than two windows' limits and   *)
(* the tokens there can be in it, and nobody is refused who has not used up  *)
(* the limit; for any limit, burst and window.                               *)
THEOREM LimitIsKept == RSpec => []LimitHolds
<1>1. ASSUME RateInv PROVE LimitHolds
  <2> USE RateAssumption
  <2>0. /\ RateTypeOK /\ AdmissionsCounted
        /\ now \in Nat /\ \A t \in 0..now : Since(t) \in Nat
    BY <1>1, RateFields, SinceFacts DEF RateInv
  <2>1. PICK from \in 0..now : from = IF now - Window < 0 THEN 0 ELSE now - Window
    BY <2>0
  <2>2. AdmittedSince(now - Window) = Since(from)
    BY <2>1 DEF AdmittedSince, Since
  <2>3. from >= now - Window /\ now - from \in Nat
    BY <2>0, <2>1
  <2>4. PICK r \in Nat : r = (Window * Burst) \div Second /\ r = Refill(Window)
    BY RefillFacts DEF Refill
  <2>5. ASSUME NEW a \in Nat, a <= Window PROVE Refill(a) \in Nat /\ Refill(a) <= r
    <3>1. PICK b \in Nat : a + b = Window
      <4>1. Window - a \in Nat /\ a + (Window - a) = Window
        BY <2>5
      <4> QED  BY <4>1
    <3>2. Refill(a) \in Nat /\ Refill(b) \in Nat /\ Refill(a) + Refill(b) <= Refill(a + b)
      BY <2>5, RefillFacts
    <3> QED  BY <2>4, <3>1, <3>2
  <2>6. ASSUME backend = "redis", ~faulty PROVE Since(from) <= 2 * Limit
    <3>1. CounterCounts
      BY <1>1, <2>6 DEF RateInv
    <3>2. Least(hits.count, Limit) \in 0..Limit /\ hits.expires \in Nat
      BY <2>0, RateFields DEF Least
    <3>3. from >= Began - Window
      BY <2>0, <2>3, <3>1, <3>2 DEF CounterCounts, Began
    <3>4. Since(from) <= Limit + Least(hits.count, Limit)
      BY <2>6, <3>1, <3>3 DEF CounterCounts
    <3> QED  BY <2>0, <3>2, <3>4
  <2>7. ASSUME backend = "local" PROVE Since(from) <= 2 * Limit + (Burst + r)
    <3>1. CASE ~entry.exists
      <4>1. Since(from) <= Limit + Refill(now - from)
        BY <1>1, <2>3, <2>7, <3>1 DEF RateInv, EntryGone
      <4>2. now - from <= Window
        BY <2>0, <2>1
      <4> QED  BY <2>0, <2>3, <2>5, <4>1, <4>2
    <3>2. CASE entry.exists
      <4>1. EntryCounts
        BY <1>1, <2>7, <3>2 DEF RateInv
      <4>2. /\ entry.start \in Nat /\ entry.last \in Nat /\ entry.tokens \in 0..Burst
            /\ Least(entry.count, Limit) \in 0..Limit
        BY <2>0, <3>2, RateFields DEF Least
      <4>3. CASE from > entry.last
        BY <2>0, <4>1, <4>3 DEF EntryCounts
      <4>4. CASE from <= entry.last
        <5>1. from \in 0..entry.last /\ from >= entry.start - Window
              /\ entry.last - from \in Nat /\ entry.last - from <= Window
          BY <2>0, <2>3, <4>1, <4>2, <4>4 DEF EntryCounts
        <5>2. Since(from) <= Limit + (Least(entry.count, Limit) + (Burst - entry.tokens)
                                        + Refill(entry.last - from))
          BY <4>1, <5>1 DEF EntryCounts
        <5>3. Refill(entry.last - from) \in Nat /\ Refill(entry.last - from) <= r
          BY <2>5, <5>1
        <5> QED  BY <2>0, <4>2, <5>2, <5>3
      <4> QED  BY <2>0, <4>2, <4>3, <4>4
    <3> QED  BY <3>1, <3>2
  <2>8. AdmittedBounded
    <3>1. backend \in {"local", "redis"}
      BY <2>0 DEF RateTypeOK
    <3>2. CASE backend = "local"
      BY <2>2, <2>4, <2>7, <3>2 DEF AdmittedBounded
    <3>3. CASE backend = "redis"
      BY <2>2, <2>6, <3>3 DEF AdmittedBounded
    <3> QED  BY <3>1, <3>2, <3>3
  <2> QED  BY <1>1, <2>8 DEF RateInv, LimitHolds
<1> QED  BY <1>1, RatesStart, RatesKeep, PTL DEF RSpec
=============================================================================
