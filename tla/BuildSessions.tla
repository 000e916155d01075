---------------------------- MODULE BuildSessions ----------------------------
(***************************************************************************)
(* The sessions of builds and the streams that watch them                  *)
(* (gateway/src/dashboard.rs).  A build runs in a task of its own, waits   *)
(* for a permit and leaves its status, its result and a last event in      *)
(* three steps.  A stream reads them in steps too, and subscribes to the   *)
(* events last.                                                            *)
(*                                                                         *)
(* Abstracted: the text of the log lines, so that a line is an event that  *)
(* takes a place in a stream's channel; the time a session was created.    *)
(* Deployments models what the build itself does.                          *)
(***************************************************************************)
EXTENDS Naturals, Sequences, FiniteSets

CONSTANTS
    Build,          \* deploys from GitHub
    Watcher,        \* clients that ask for a stream
    Permits,        \* build_semaphore: builds at once, one at least
    Capacity,       \* events the channel keeps for a slow stream, one at least
    MaxLines,       \* bound: log lines of a build
    None            \* no build

ASSUME PermitsAssumption == Permits \in Nat \ {0}
ASSUME CapacityAssumption == Capacity \in Nat \ {0}
ASSUME LinesAssumption == MaxLines \in Nat
ASSUME NoneAssumption == None \notin Build \cup {"building", "log", "complete", "error"}

VARIABLES
    stage,          \* where each build is
    session,        \* builds with a session in build_sessions
    status, result, \* what the session says
    ends,           \* history: how the build ended
    lines,          \* lines logged so far
    place,          \* where each stream is
    watched,        \* the build it streams
    sawStatus, sawResult,   \* what it read before it subscribed
    queue,          \* events of its channel
    told,           \* the last event it sent, if it is a final one
    overtaken       \* history: whether the end of the build came between its
                    \* reads and its subscription

build   == <<stage, session, status, result, ends, lines>>
stream  == <<place, watched, sawStatus, sawResult, queue, told, overtaken>>
vars    == <<build, stream>>

Final == {"complete", "error"}
Stage == {"none", "queued", "running", "status", "result", "over"}
Place == {"idle", "found", "looked", "read", "streaming", "closed"}

TypeOK ==
    /\ stage \in [Build -> Stage] /\ session \in SUBSET Build
    /\ status \in [Build -> {"building"} \cup Final]
    /\ result \in [Build -> Final \cup {None}]
    /\ ends \in [Build -> Final \cup {None}] /\ lines \in [Build -> 0..MaxLines]
    /\ place \in [Watcher -> Place] /\ watched \in [Watcher -> Build \cup {None}]
    /\ sawStatus \in [Watcher -> {"building"} \cup Final]
    /\ sawResult \in [Watcher -> Final \cup {None}]
    /\ queue \in [Watcher -> Seq({"log"} \cup Final)]
    /\ \A w \in Watcher : Len(queue[w]) <= Capacity
    /\ told \in [Watcher -> Final \cup {"notFound", "left", None}]
    /\ overtaken \in [Watcher -> {"no", "maybe", "yes"}]

Init ==
    /\ stage = [b \in Build |-> "none"] /\ session = {}
    /\ status = [b \in Build |-> "building"] /\ result = [b \in Build |-> None]
    /\ ends = [b \in Build |-> None] /\ lines = [b \in Build |-> 0]
    /\ place = [w \in Watcher |-> "idle"] /\ watched = [w \in Watcher |-> None]
    /\ sawStatus = [w \in Watcher |-> "building"]
    /\ sawResult = [w \in Watcher |-> None]
    /\ queue = [w \in Watcher |-> <<>>] /\ told = [w \in Watcher |-> None]
    /\ overtaken = [w \in Watcher |-> "no"]

\* The tasks that hold a permit: it is given back when the task ends.
Building == { b \in Build : stage[b] \in {"running", "status", "result"} }

\* The channel of build b: each stream that subscribed gets the event, and one
\* that is full loses the oldest it has (Lagged).
Send(b, e) ==
    queue' = [w \in Watcher |->
                IF watched[w] = b /\ place[w] = "streaming"
                THEN LET q == Append(queue[w], e)
                     IN  IF Len(q) > Capacity THEN Tail(q) ELSE q
                ELSE queue[w]]

-----------------------------------------------------------------------------
(* Builds.                                                                 *)

\* deploy_from_github opens the session and spawns the task.
Open(b) ==
    /\ stage[b] = "none"
    /\ stage' = [stage EXCEPT ![b] = "queued"]
    /\ session' = session \cup {b}
    /\ UNCHANGED <<status, result, ends, lines, stream>>

Acquire(b) ==
    /\ stage[b] = "queued" /\ Cardinality(Building) < Permits
    /\ stage' = [stage EXCEPT ![b] = "running"]
    /\ UNCHANGED <<session, status, result, ends, lines, stream>>

\* push_log
PushLog(b) ==
    /\ stage[b] = "running" /\ lines[b] < MaxLines
    /\ lines' = [lines EXCEPT ![b] = @ + 1]
    /\ Send(b, "log")
    /\ UNCHANGED <<stage, session, status, result, ends, place, watched,
                   sawStatus, sawResult, told, overtaken>>

\* The build returns, and complete or fail records it in three steps.
SetStatus(b) ==
    /\ stage[b] = "running"
    /\ stage' = [stage EXCEPT ![b] = "status"]
    /\ \E e \in Final : /\ ends' = [ends EXCEPT ![b] = e]
                       /\ status' = [status EXCEPT ![b] = e]
    /\ UNCHANGED <<session, result, lines, stream>>

SetResult(b) ==
    /\ stage[b] = "status"
    /\ stage' = [stage EXCEPT ![b] = "result"]
    /\ result' = [result EXCEPT ![b] = ends[b]]
    /\ UNCHANGED <<session, status, ends, lines, stream>>

\* Mutant: nobody is told.
NotifyNever(b) ==
    /\ stage[b] = "result"
    /\ stage' = [stage EXCEPT ![b] = "over"]
    /\ UNCHANGED <<session, status, result, ends, lines, stream>>

Notify(b) ==
    /\ stage[b] = "result"
    /\ stage' = [stage EXCEPT ![b] = "over"]
    /\ Send(b, ends[b])
    /\ UNCHANGED <<session, status, result, ends, lines, place, watched,
                   sawStatus, sawResult, told, overtaken>>

\* Mutant: only the sessions of builds that succeeded are forgotten.
ExpireSucceeded(b) ==
    /\ stage[b] = "over" /\ b \in session /\ ends[b] = "complete"
    /\ session' = session \ {b}
    /\ UNCHANGED <<stage, status, result, ends, lines, stream>>

\* Five minutes after its end the session is forgotten.
Expire(b) ==
    /\ stage[b] = "over" /\ b \in session
    /\ session' = session \ {b}
    /\ UNCHANGED <<stage, status, result, ends, lines, stream>>

\* The clean-up task forgets a session after an hour, whatever its build does.
Sweep(b) ==
    /\ b \in session
    /\ session' = session \ {b}
    /\ UNCHANGED <<stage, status, result, ends, lines, stream>>

-----------------------------------------------------------------------------
(* Streams: deploy_stream.                                                 *)

Find(w, b) ==
    /\ place[w] = "idle" /\ stage[b] # "none"
    /\ watched' = [watched EXCEPT ![w] = b]
    /\ IF b \in session
       THEN place' = [place EXCEPT ![w] = "found"] /\ UNCHANGED told
       ELSE /\ place' = [place EXCEPT ![w] = "closed"]
            /\ told' = [told EXCEPT ![w] = "notFound"]
    /\ UNCHANGED <<build, sawStatus, sawResult, queue, overtaken>>

ReadStatus(w) ==
    /\ place[w] = "found"
    /\ place' = [place EXCEPT ![w] = "looked"]
    /\ sawStatus' = [sawStatus EXCEPT ![w] = status[watched[w]]]
    /\ overtaken' = [overtaken EXCEPT ![w] =
                       CASE stage[watched[w]] = "over" -> "no"
                         [] stage[watched[w]] = "status" -> "yes"
                         [] OTHER -> "maybe"]
    /\ UNCHANGED <<build, watched, sawResult, queue, told>>

ReadResult(w) ==
    /\ place[w] = "looked"
    /\ place' = [place EXCEPT ![w] = "read"]
    /\ sawResult' = [sawResult EXCEPT ![w] = result[watched[w]]]
    /\ UNCHANGED <<build, watched, sawStatus, queue, told, overtaken>>

\* The stream is over, and told e.
End(w, e) ==
    /\ place' = [place EXCEPT ![w] = "closed"]
    /\ told' = [told EXCEPT ![w] = e]
    /\ sawStatus' = [sawStatus EXCEPT ![w] = "building"]
    /\ sawResult' = [sawResult EXCEPT ![w] = None]
    /\ queue' = [queue EXCEPT ![w] = <<>>]

\* The stream subscribes.  Where the status it read is final it sends the
\* result it read, if any, and ends.
Subscribe(w) ==
    /\ place[w] = "read"
    /\ overtaken' = [overtaken EXCEPT ![w] =
                       IF @ = "maybe" THEN (IF stage[watched[w]] = "over" THEN "yes" ELSE "no")
                       ELSE @]
    /\ IF sawStatus[w] = "building"
       THEN /\ place' = [place EXCEPT ![w] = "streaming"]
            /\ UNCHANGED <<told, sawStatus, sawResult, queue>>
       ELSE End(w, IF sawResult[w] = None THEN None ELSE sawStatus[w])
    /\ UNCHANGED <<build, watched>>

\* An event is passed on; a final one ends the stream.
Receive(w) ==
    /\ place[w] = "streaming" /\ queue[w] # <<>>
    /\ IF Head(queue[w]) \in Final
       THEN End(w, Head(queue[w]))
       ELSE /\ queue' = [queue EXCEPT ![w] = Tail(@)]
            /\ UNCHANGED <<place, told, sawStatus, sawResult>>
    /\ UNCHANGED <<build, watched, overtaken>>

\* The channel is closed: the build is over and the session forgotten, and
\* with these its last sender, but for a stream that has just found it.
Closed(w) ==
    /\ place[w] = "streaming" /\ queue[w] = <<>>
    /\ stage[watched[w]] = "over" /\ watched[w] \notin session
    /\ \A u \in Watcher :
          watched[u] = watched[w] => place[u] \notin {"found", "looked", "read"}
    /\ End(w, None)
    /\ UNCHANGED <<build, watched, overtaken>>

\* The client leaves.
Leave(w) ==
    /\ place[w] \notin {"idle", "closed"}
    /\ End(w, "left")
    /\ UNCHANGED <<build, watched, overtaken>>

-----------------------------------------------------------------------------

BuildStep(b) == SetStatus(b) \/ SetResult(b) \/ Notify(b)
StreamStep(w) == ReadStatus(w) \/ ReadResult(w) \/ Subscribe(w) \/ Receive(w) \/ Closed(w)

Next ==
    \/ \E b \in Build : Open(b) \/ Acquire(b) \/ PushLog(b) \/ BuildStep(b)
                        \/ Expire(b) \/ Sweep(b)
    \/ \E w \in Watcher : \/ \E b \in Build : Find(w, b)
                          \/ StreamStep(w) \/ Leave(w)

(* A build ends (its commands have time limits), the semaphore serves its  *)
(* waiters in order, the timer fires, and a client reads what it is sent   *)
(* or leaves.  Nothing is assumed of Sweep.                                *)
Fairness ==
    /\ \A b \in Build : SF_vars(Acquire(b)) /\ WF_vars(BuildStep(b)) /\ WF_vars(Expire(b))
    /\ \A w \in Watcher : WF_vars(StreamStep(w))

Spec == Init /\ [][Next]_vars /\ Fairness

-----------------------------------------------------------------------------
(* Properties.                                                             *)

(* A stream says of a build that it succeeded or failed only when it did   *)
(* so, however the two are interleaved, and ends without having told it    *)
(* only when the build came to its end between the first read of the       *)
(* stream and its subscription.  One that is slow and loses lines does not *)
(* lose the final event, and one that comes late finds the result.         *)
ToldUnlessOvertaken ==
    \A w \in Watcher : place[w] = "closed" =>
        \/ told[w] \in Final /\ ends[watched[w]] = told[w]
        \/ told[w] \in {"left", "notFound"}
        \/ told[w] = None /\ overtaken[w] = "yes"

\* Why: the session follows the steps of its build ...
Recorded ==
    \A b \in Build :
        /\ IF stage[b] \in {"none", "queued", "running"}
           THEN ends[b] = None /\ status[b] = "building"
           ELSE ends[b] \in Final /\ status[b] = ends[b]
        /\ result[b] = IF stage[b] \in {"result", "over"} THEN ends[b] ELSE None

\* ... what a stream has read is what its build left, and when it is final the
\* result is there, or has been overtaken ...
Reads(w) ==
    /\ place[w] \in {"looked", "read"} =>
         IF sawStatus[w] = "building" THEN overtaken[w] = "maybe"
         ELSE sawStatus[w] = ends[watched[w]]
    /\ place[w] = "looked" /\ sawStatus[w] # "building" =>
         overtaken[w] = "yes" \/ stage[watched[w]] \in {"result", "over"}
    /\ place[w] = "read" /\ sawStatus[w] # "building" =>
         overtaken[w] = "yes" \/ sawResult[w] # None

\* ... and the last event in the channel of one that listens is the final one,
\* once the build is over, unless it came too late for it.
Listening(w) ==
    LET q == queue[w]
    IN  IF place[w] # "streaming" THEN q = <<>>
        ELSE /\ \A i \in 1..Len(q) : q[i] \in {"log", ends[watched[w]]}
             /\ \/ overtaken[w] = "yes"
                \/ /\ overtaken[w] = "no"
                   /\ stage[watched[w]] = "over" =>
                        q # <<>> /\ q[Len(q)] = ends[watched[w]]

Follows(w) ==
    /\ place[w] # "idle" => watched[w] \in Build
    /\ Reads(w) /\ Listening(w)

StreamsFollow == Recorded /\ \A w \in Watcher : Follows(w)

(* Each build that was asked for ends and says so, at most Permits at a    *)
(* time, and its session is forgotten, also when nobody sweeps; and each    *)
(* stream ends, an overtaken one when the session is forgotten.            *)
SessionsEnd ==
    /\ \A b \in Build : b \in session ~> stage[b] = "over" /\ b \notin session
    /\ \A w \in Watcher : place[w] = "found" ~> place[w] = "closed"

(* "If already complete, send final event and stop" (dashboard.rs:952): a  *)
(* stream that ends has told how the build ended.                          *)
StreamsTell == \A w \in Watcher : place[w] = "closed" => told[w] # None

(* What the sweep forgets is an "abandoned or leaked" session              *)
(* (main.rs:510): a build that a stream does not find is over.             *)
NotFoundIsOver ==
    [][\A w \in Watcher, b \in Build :
          Find(w, b) /\ b \notin session => stage[b] = "over"]_vars

=============================================================================
