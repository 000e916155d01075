--------------------------- MODULE CircuitBreaker ---------------------------
(***************************************************************************)
(* The circuit breaker of the gateway (gateway/src/circuit_breaker.rs),    *)
(* used in two ways.  The fetches from IPFS share one that no lock guards  *)
(* (gateway/src/lib.rs): every load, store and addition is a step of its   *)
(* own.  The tracker of the nodes (gateway/src/node_health.rs) has one for *)
(* each node; it selects nodes under a read lock, records results under a  *)
(* write lock, and probes every node, whatever the state of its breaker.   *)
(*                                                                         *)
(* The failure count is compared with the threshold only, so it stops      *)
(* there; of the time since the last failure, it matters only whether it   *)
(* has reached the reset time-out.                                         *)
(***************************************************************************)
EXTENDS Naturals, FiniteSets

CONSTANTS
    Task,           \* requests and probes that can be in progress at once
    Threshold,      \* failure_threshold
    Tracked         \* whether the breaker is one of the tracker's

ASSUME ThresholdAssumption == Threshold \in Nat \ {0}
ASSUME TrackedAssumption == Tracked \in BOOLEAN

VARIABLES
    state,          \* CircuitState
    failures,       \* failure_count, up to Threshold
    cooled,         \* whether reset_timeout has passed since the last failure
    pc,             \* the next step of each task
    seen,           \* the state a task has loaded
    count,          \* the failure count a task has reached
    up,             \* whether the service answers
    streak,         \* history: failures added since the last Recovery
    nth             \* history: the streak a task's failure has completed

shared == <<state, failures, cooled>>
locals == <<seen, count>>
past   == <<streak, nth>>
vars   == <<shared, pc, locals, up, past>>

States == {"closed", "open", "halfOpen"}

\* The steps of allow_request, record_success and record_failure.
AllowSteps  == {"elapsed"}
RecordSteps == {"ignore", "close", "reset", "add", "stamp", "trip"}

TypeOK ==
    /\ state \in States
    /\ failures \in 0..Threshold /\ streak \in 0..Threshold
    /\ cooled \in BOOLEAN /\ up \in BOOLEAN
    /\ pc \in [Task -> {"idle", "call"} \cup AllowSteps \cup RecordSteps]
    /\ seen \in [Task -> States]
    /\ count \in [Task -> 0..Threshold] /\ nth \in [Task -> 0..Threshold]

Init ==
    /\ state = "closed" /\ failures = 0 /\ cooled = FALSE
    /\ pc = [t \in Task |-> "idle"]
    /\ seen = [t \in Task |-> "closed"]
    /\ count = [t \in Task |-> 0]
    /\ up = TRUE /\ streak = 0 /\ nth = [t \in Task |-> 0]

Goto(t, step) == pc' = [pc EXCEPT ![t] = step]

\* Mutant: the count is not limited.
BumpPast(n) == n + 1

Bump(n) == IF n < Threshold THEN n + 1 ELSE n

In(steps) == { t \in Task : pc[t] \in steps }

\* The read and the write lock of the tracker.
MayRead  == Tracked => In(RecordSteps) = {}
MayWrite == Tracked => In(AllowSteps \cup RecordSteps) = {}

-----------------------------------------------------------------------------
(* allow_request.                                                          *)

Admit(t) ==
    /\ pc[t] = "idle" /\ MayRead
    /\ state # "open"
    /\ Goto(t, "call")
    /\ UNCHANGED <<shared, locals, up, past>>

SeeOpen(t) ==
    /\ pc[t] = "idle" /\ MayRead
    /\ state = "open"
    /\ Goto(t, "elapsed")
    /\ UNCHANGED <<shared, locals, up, past>>

Refuse(t) ==
    /\ pc[t] = "elapsed" /\ ~cooled
    /\ Goto(t, "idle")
    /\ UNCHANGED <<shared, locals, up, past>>

\* The state is stored whatever it has become since it was loaded.
TryAgain(t) ==
    /\ pc[t] = "elapsed" /\ cooled
    /\ state' = "halfOpen"
    /\ Goto(t, "call")
    /\ UNCHANGED <<failures, cooled, locals, up, past>>

\* A probe does not ask.
Probe(t) ==
    /\ Tracked
    /\ pc[t] = "idle"
    /\ Goto(t, "call")
    /\ UNCHANGED <<shared, locals, up, past>>

\* An admitted request that records nothing: its client goes away, another
\* node answers first, or IPFS is not configured.
GiveUp(t) ==
    /\ pc[t] = "call"
    /\ Goto(t, "idle")
    /\ UNCHANGED <<shared, locals, up, past>>

-----------------------------------------------------------------------------
(* record_success.                                                         *)

\* Mutant: the time of a success counts like that of a failure.
SucceedStamped(t) ==
    /\ pc[t] = "call" /\ up /\ MayWrite
    /\ Goto(t, CASE state = "halfOpen" -> "close"
                 [] state = "closed"   -> "reset"
                 [] state = "open"     -> "ignore")
    /\ cooled' = FALSE
    /\ UNCHANGED <<state, failures, locals, up, past>>

Succeed(t) ==
    /\ pc[t] = "call" /\ up /\ MayWrite
    /\ Goto(t, CASE state = "halfOpen" -> "close"
                 [] state = "closed"   -> "reset"
                 [] state = "open"     -> "ignore")
    /\ UNCHANGED <<shared, locals, up, past>>

\* A success while the circuit is open changes nothing.
Ignore(t) ==
    /\ pc[t] = "ignore"
    /\ Goto(t, "idle")
    /\ UNCHANGED <<shared, locals, up, past>>

Close(t) ==
    /\ pc[t] = "close"
    /\ state' = "closed"
    /\ Goto(t, "reset")
    /\ UNCHANGED <<failures, cooled, locals, up, past>>

\* A success leaves the circuit closed, and nothing else is being recorded.
Recovery(t) == state = "closed" /\ In(RecordSteps) = {t}

\* Mutant: the count survives a success.
ResetNot(t) ==
    /\ pc[t] = "reset"
    /\ streak' = IF Recovery(t) THEN 0 ELSE streak
    /\ UNCHANGED nth
    /\ Goto(t, "idle")
    /\ UNCHANGED <<shared, locals, up>>

Reset(t) ==
    /\ pc[t] = "reset"
    /\ failures' = 0
    /\ streak' = IF Recovery(t) THEN 0 ELSE streak
    /\ UNCHANGED nth
    /\ Goto(t, "idle")
    /\ UNCHANGED <<state, cooled, locals, up>>

-----------------------------------------------------------------------------
(* record_failure.                                                         *)

Fail(t) ==
    /\ pc[t] = "call" /\ ~up /\ MayWrite
    /\ seen' = [seen EXCEPT ![t] = state]
    /\ Goto(t, "add")
    /\ UNCHANGED <<shared, count, up, past>>

AddFailure(t) ==
    /\ pc[t] = "add"
    /\ failures' = Bump(failures) /\ streak' = Bump(streak)
    /\ count' = [count EXCEPT ![t] = failures'] /\ nth' = [nth EXCEPT ![t] = streak']
    /\ Goto(t, "stamp")
    /\ UNCHANGED <<state, cooled, seen, up>>

\* Mutant: failures open a half-open circuit only.
StampLate(t) ==
    /\ pc[t] = "stamp"
    /\ cooled' = FALSE
    /\ Goto(t, IF seen[t] = "halfOpen" THEN "trip" ELSE "idle")
    /\ UNCHANGED <<state, failures, locals, up, past>>

Stamp(t) ==
    /\ pc[t] = "stamp"
    /\ cooled' = FALSE
    /\ Goto(t, IF \/ seen[t] = "halfOpen"
                  \/ seen[t] = "closed" /\ count[t] >= Threshold
               THEN "trip" ELSE "idle")
    /\ UNCHANGED <<state, failures, locals, up, past>>

\* open_circuit.
Trip(t) ==
    /\ pc[t] = "trip"
    /\ state' = "open"
    /\ Goto(t, "idle")
    /\ UNCHANGED <<failures, cooled, locals, up, past>>

-----------------------------------------------------------------------------

\* Before the first failure there is no time to compare with, but the circuit
\* is not open either.
CoolDown ==
    /\ ~cooled
    /\ cooled' = TRUE
    /\ UNCHANGED <<state, failures, pc, locals, up, past>>

Service ==
    /\ up' = ~up
    /\ UNCHANGED <<shared, pc, locals, past>>

Allow(t)  == Admit(t) \/ SeeOpen(t) \/ Refuse(t) \/ TryAgain(t)
Record(t) ==
    \/ Succeed(t) \/ Ignore(t) \/ Close(t) \/ Reset(t)
    \/ Fail(t) \/ AddFailure(t) \/ Stamp(t) \/ Trip(t)

Next ==
    \/ \E t \in Task : Allow(t) \/ Probe(t) \/ GiveUp(t) \/ Record(t)
    \/ CoolDown \/ Service

\* A step that has begun goes on, every call ends (it has a time-out), and
\* time passes.
Fairness ==
    /\ \A t \in Task : WF_vars(pc[t] # "idle" /\ (Allow(t) \/ GiveUp(t) \/ Record(t)))
    /\ WF_vars(CoolDown)

Spec == Init /\ [][Next]_vars /\ Fairness

-----------------------------------------------------------------------------
(* Properties.                                                             *)

AtRest == In(AllowSteps \cup RecordSteps) = {}

(* Behind the tracker's lock the two atomics agree whenever no task is      *)
(* inside the breaker: it is closed while fewer failures than the threshold *)
(* have followed the last success, and not closed from then on.             *)
Consistent == AtRest => (state = "closed" <=> failures < Threshold)

(* failure_threshold is the "Number of consecutive failures before          *)
(* opening": once a success has left the circuit closed with nothing else   *)
(* being recorded, only the Threshold-th failure from then on opens it.     *)
OpensAtThreshold ==
    [][\A t \in In({"stamp"}) : pc'[t] = "trip" => nth[t] = Threshold]_vars

(* And the breaker never refuses a service that stays up: from some moment  *)
(* on, it is not open or the next request turns it half-open.  Successes    *)
(* that the open breaker ignores do not put that off.                       *)
OpensAndRecovers ==
    OpensAtThreshold /\ (<>[]up => <>[](state # "open" \/ cooled))

(* HalfOpen: "limited requests allowed": while one tests the service, no    *)
(* other is admitted.                                                       *)
TrialIsLimited ==
    [][state = "halfOpen" /\ In({"call"}) # {} =>
           In({"call"})' \subseteq In({"call"})]_vars

(* A success on an open circuit "Shouldn't happen".                         *)
NoSuccessWhileOpen == In({"ignore"}) = {}
=============================================================================
