-------------------------- MODULE HostingProofs ---------------------------
(* Theorems about ProcessManager, for any number of requests, deployments   *)
(* and ports, and about the cache that builds share, for any builds,        *)
(* entries and packages.                                                    *)
EXTENDS ProcessManager, Builds, FiniteSetTheorems, SequenceTheorems, WellFoundedInduction, TLAPS

LEMMA LowestIsFree ==
    ASSUME allocated \in SUBSET Port, allocated # Port
    PROVE  Lowest \in Port \ allocated
<1> DEFINE free == Port \ allocated
           less == { pair \in Nat \X Nat : pair[1] < pair[2] }
<1>1. free # {} /\ free \subseteq Nat
  <2>1. free # {} OBVIOUS
  <2>2. Port \subseteq Nat BY LimitAssumption DEF Port
  <2> QED BY <2>1, <2>2
<1>2. IsWellFoundedOn(less, Nat)
  BY NatLessThanWellFounded, Zenon DEF OpToRel
<1> HIDE DEF free, less
<1>3. PICK x \in free : \A y \in free : <<y, x>> \notin less
  BY <1>1, <1>2, WFMin
<1>4. \A y \in free : x =< y
  <2> SUFFICES ASSUME NEW y \in free, y < x PROVE FALSE
    BY <1>1
  <2>1. <<y, x>> \in less
    BY <1>1 DEF less
  <2> QED BY <1>3, <2>1
<1> QED BY <1>3, <1>4 DEF Lowest, Min, free

LEMMA EntryType ==
    ASSUME TypeOK, NEW c \in Listed PROVE entry[c] \in Process
BY DEF TypeOK, Listed

\* A request that launches a process has allocated its port.
HasPort == \A t \in Task : pc[t] = "launch" => port[t] \in Port

ManagerOK == TypeOK /\ HasPort

LEMMA RequestKeeps ==
    ASSUME ManagerOK, NEW t \in Task, NEW c \in Cid,
           Deploy(t, c) \/ Restart(t, c) \/ StopOne(t, c) \/ Look(t, c)
    PROVE  ManagerOK'
<1> USE DEF ManagerOK, TypeOK, HasPort, Ops, SpawnSteps, StopSteps, ProbeSteps,
            Begin, Goto
<1>1. CASE Deploy(t, c) \/ Restart(t, c) \/ StopOne(t, c)
  BY <1>1, RequestsAssumption DEF Deploy, Restart, StopOne
<1>2. CASE Look(t, c)
  <2>1. entry[c].port \in Port BY <1>2, EntryType DEF Look, Process
  <2> QED BY <1>2, <2>1, RequestsAssumption DEF Look
<1> QED BY <1>1, <1>2

LEMMA SpawningKeeps ==
    ASSUME ManagerOK, NEW t \in Task, Spawning(t) PROVE ManagerOK'
<1> USE DEF ManagerOK, TypeOK, HasPort, SpawnSteps, StopSteps, ProbeSteps, Goto, locals
<1>1. CASE Check(t) \/ Deadline(t) \/ Dial(t) \/ Poll(t)
  BY <1>1 DEF Check, Deadline, Dial, Poll
<1>2. CASE Allocate(t)
  BY <1>2, LowestIsFree DEF Allocate
<1>3. CASE Launch(t) \/ Forget(t)
  BY <1>3 DEF Launch, Forget, Process
<1>4. CASE Mark(t)
  BY <1>4 DEF Mark, MarkHealthy, Process
<1> QED BY <1>1, <1>2, <1>3, <1>4 DEF Spawning

LEMMA OtherStepsKeep ==
    ASSUME ManagerOK, NEW t \in Task, Stopping(t) \/ Probing(t) PROVE ManagerOK'
<1> USE DEF ManagerOK, TypeOK, HasPort, SpawnSteps, StopSteps, ProbeSteps, Goto, locals
<1>1. CASE TakeOut(t)
  <2>1. cid[t] \in Listed => entry[cid[t]] \in Process BY EntryType
  <2> QED BY <1>1, <2>1 DEF TakeOut, Process
<1>2. CASE Reap(t) \/ Release(t)
  BY <1>2 DEF Reap, Release
<1>3. CASE Probe(t)
  BY <1>3 DEF Probe
<1>4. CASE JudgeUp(t)
  BY <1>4 DEF JudgeUp, MarkHealthy, Process
<1>5. CASE JudgeDown(t)
  <2>1. cid[t] \in Listed => entry[cid[t]] \in Process BY EntryType
  <2> QED BY <1>5, <2>1 DEF JudgeDown, Process
<1> QED BY <1>1, <1>2, <1>3, <1>4, <1>5 DEF Stopping, Probing

LEMMA ProcessesKeep == ASSUME ManagerOK, Boot \/ Exit PROVE ManagerOK'
<1> USE DEF ManagerOK, TypeOK, HasPort, locals
<1>1. \A p \in Process : Started(p) \in Process
  BY DEF Process, Started
<1>2. \A c \in Listed : entry[c] \in Process BY EntryType
<1>3. CASE Boot BY <1>1, <1>2, <1>3 DEF Boot, Listed
<1>4. CASE Exit BY <1>2, <1>4 DEF Exit, Process, Listed
<1> QED BY <1>3, <1>4

LEMMA ManagerInit == Init => ManagerOK
<1> SUFFICES ASSUME Init PROVE ManagerOK OBVIOUS
<1>1. (CHOOSE c \in Cid : TRUE) \in Cid BY CidAssumption
<1>2. 0 \in 0..MaxRequests BY RequestsAssumption
<1> QED BY <1>1, <1>2 DEF Init, ManagerOK, TypeOK, HasPort, Ops

LEMMA ManagerNext == ManagerOK /\ [Next]_vars => ManagerOK'
<1> SUFFICES ASSUME ManagerOK, [Next]_vars PROVE ManagerOK' OBVIOUS
<1>1. CASE UNCHANGED vars
  BY <1>1 DEF vars, locals, ManagerOK, TypeOK, HasPort
<1>2. CASE Next
  BY <1>2, RequestKeeps, SpawningKeeps, OtherStepsKeep, ProcessesKeep DEF Next, Step
<1> QED BY <1>1, <1>2

(* The map, the allocator and every request stay well formed; above all, a  *)
(* port given out is a port of the range.                                   *)
THEOREM ManagerType == Spec => []TypeOK
<1>1. ManagerOK => TypeOK BY DEF ManagerOK
<1> QED BY <1>1, ManagerInit, ManagerNext, PTL DEF Spec

-----------------------------------------------------------------------------

\* The requests that have passed the check of max_processes and not launched.
Passed == { t \in Task : pc[t] \in {"allocate", "launch"} }

\* Each of them may still add a process.
Reserved ==
    Cardinality(Listed) + Cardinality(Passed) <= MaxProcesses + Cardinality(Task) - 1

LEMMA Counts ==
    /\ IsFiniteSet(Listed) /\ Cardinality(Listed) \in Nat
    /\ IsFiniteSet(Passed) /\ Cardinality(Passed) \in Nat
    /\ Cardinality(Task) \in Nat \ {0}
    /\ Cardinality(Passed) <= Cardinality(Task)
<1>1. Listed \subseteq Cid /\ Passed \subseteq Task BY DEF Listed, Passed
<1> QED BY <1>1, CidAssumption, TaskAssumption, FS_Subset, FS_CardinalityType,
           FS_EmptySet

\* A step that neither lists a deployment nor lets a request pass.
LEMMA FewerKeep ==
    ASSUME Reserved, Listed' \subseteq Listed, Passed' \subseteq Passed
    PROVE  Reserved'
<1>1. /\ Cardinality(Listed') <= Cardinality(Listed) /\ Cardinality(Listed') \in Nat
      /\ Cardinality(Passed') <= Cardinality(Passed) /\ Cardinality(Passed') \in Nat
  BY Counts, FS_Subset, FS_CardinalityType
<1> QED BY <1>1, Counts, LimitAssumption DEF Reserved

LEMMA CheckKeeps ==
    ASSUME TypeOK, Reserved, NEW t \in Task, Check(t) PROVE Reserved'
<1>1. Listed' = Listed BY DEF Check, Listed
<1>2. CASE Cardinality(Listed) >= MaxProcesses
  <2>1. Passed' \subseteq Passed BY <1>2 DEF Check, Goto, Passed, TypeOK
  <2> QED BY <1>1, <2>1, FewerKeep
<1>3. CASE ~(Cardinality(Listed) >= MaxProcesses)
  <2>1. Passed' \subseteq Task BY DEF Passed
  <2>2. Cardinality(Passed') <= Cardinality(Task) /\ Cardinality(Passed') \in Nat
    BY <2>1, TaskAssumption, FS_Subset, FS_CardinalityType
  <2>3. Cardinality(Listed) + 1 <= MaxProcesses
    BY <1>3, Counts, LimitAssumption
  <2> QED BY <1>1, <2>2, <2>3, Counts, LimitAssumption DEF Reserved
<1> QED BY <1>2, <1>3

LEMMA LaunchKeeps ==
    ASSUME TypeOK, Reserved, NEW t \in Task, Launch(t) PROVE Reserved'
<1>1. t \in Passed /\ Passed' = Passed \ {t}
  BY DEF Launch, Goto, Passed, TypeOK, SpawnSteps
<1>2. Listed' \subseteq Listed \cup {cid[t]}
  <2>1. \A c \in Cid \ {cid[t]} : entry'[c] = entry[c] BY DEF Launch, TypeOK
  <2> QED BY <2>1 DEF Listed
<1>3. Cardinality(Passed') = Cardinality(Passed) - 1
  BY <1>1, Counts, FS_RemoveElement
<1>4. /\ IsFiniteSet(Listed \cup {cid[t]})
      /\ Cardinality(Listed \cup {cid[t]}) <= Cardinality(Listed) + 1
  <2>1. Cardinality(Listed \cup {cid[t]}) =
            IF cid[t] \in Listed THEN Cardinality(Listed) ELSE Cardinality(Listed) + 1
    BY Counts, FS_AddElement, Zenon
  <2>2. IsFiniteSet(Listed \cup {cid[t]}) BY Counts, FS_AddElement, Zenon
  <2> QED BY <2>1, <2>2, Counts
<1>5. /\ Cardinality(Listed') <= Cardinality(Listed \cup {cid[t]})
      /\ Cardinality(Listed') \in Nat
      /\ Cardinality(Listed \cup {cid[t]}) \in Nat
  BY <1>2, <1>4, FS_Subset, FS_CardinalityType
<1> QED BY <1>3, <1>4, <1>5, Counts, LimitAssumption DEF Reserved

LEMMA ReservedSteps == ASSUME TypeOK, Reserved, [Next]_vars PROVE Reserved'
<1> USE DEF Listed, Passed, Goto, TypeOK, locals
<1>1. CASE UNCHANGED vars
  BY <1>1, FewerKeep DEF vars
<1>2. ASSUME NEW t \in Task, NEW c \in Cid,
             Deploy(t, c) \/ Restart(t, c) \/ StopOne(t, c) \/ Look(t, c)
      PROVE  Reserved'
  <2>1. Listed' \subseteq Listed /\ Passed' \subseteq Passed
    BY <1>2 DEF Deploy, Restart, StopOne, Look, Begin
  <2> QED BY <2>1, FewerKeep
<1>3. ASSUME NEW t \in Task,
             Allocate(t) \/ Deadline(t) \/ Dial(t) \/ Mark(t) \/ Poll(t) \/ Forget(t)
      PROVE  Reserved'
  <2>1. Listed' \subseteq Listed
    BY <1>3 DEF Allocate, Deadline, Dial, Mark, Poll, Forget, MarkHealthy
  <2>2. Passed' \subseteq Passed
    BY <1>3 DEF Allocate, Deadline, Dial, Mark, Poll, Forget
  <2> QED BY <2>1, <2>2, FewerKeep
<1>4. ASSUME NEW t \in Task, Stopping(t) \/ Probing(t) PROVE Reserved'
  <2>1. Listed' \subseteq Listed
    BY <1>4 DEF Stopping, Probing, TakeOut, Reap, Release, Probe, JudgeUp, JudgeDown,
                MarkHealthy
  <2>2. Passed' \subseteq Passed
    BY <1>4 DEF Stopping, Probing, TakeOut, Reap, Release, Probe, JudgeUp, JudgeDown
  <2> QED BY <2>1, <2>2, FewerKeep
<1>5. CASE Boot \/ Exit
  <2>1. Listed' \subseteq Listed /\ Passed' \subseteq Passed
    BY <1>5 DEF Boot, Exit
  <2> QED BY <2>1, FewerKeep
<1> QED BY <1>1, <1>2, <1>3, <1>4, <1>5, CheckKeeps, LaunchKeeps
        DEF Next, Step, Spawning

(* However many spawns run together, the map never holds more processes     *)
(* than max_processes and one for each other request that can be in         *)
(* progress: spawn_process checks and inserts in steps of their own.        *)
THEOREM ProcessesAreBounded == Spec => []ProcessesBounded
<1>1. ASSUME Init PROVE Reserved
  <2>1. Listed = {} /\ Passed = {} BY <1>1 DEF Init, Listed, Passed
  <2> QED BY <2>1, FS_EmptySet, Counts, LimitAssumption DEF Reserved
<1>2. Reserved => ProcessesBounded
  BY Counts, LimitAssumption DEF Reserved, ProcessesBounded
<1>3. Reserved /\ TypeOK /\ [Next]_vars => Reserved' BY ReservedSteps
<1> QED BY <1>1, <1>2, <1>3, ManagerType, PTL DEF Spec

-----------------------------------------------------------------------------

HandInv == ManagerOK /\ Alone /\ Launched /\ Stopped /\ OneHand

\* What a step of one request leaves to the others.
LEMMA OthersApart ==
    ASSUME Alone, NEW t \in Task, pc[t] # "idle", NEW u \in Task, u # t, pc[u] # "idle"
    PROVE  cid[u] # cid[t]
BY DEF Alone

LEMMA AloneNext ==
    ASSUME OnePerCid, TypeOK, Alone, [Next]_vars PROVE Alone'
<1> USE DEF Alone, Goto, TypeOK, locals
<1>1. CASE UNCHANGED vars BY <1>1 DEF vars
<1>2. ASSUME NEW t \in Task, NEW c \in Cid,
             Deploy(t, c) \/ Restart(t, c) \/ StopOne(t, c) \/ Look(t, c)
      PROVE  Alone'
  <2>1. /\ \A u \in Task : pc[u] # "idle" => cid[u] # c
        /\ \A u \in Task \ {t} : pc'[u] = pc[u] /\ cid'[u] = cid[u]
        /\ cid'[t] = c
    BY <1>2 DEF Deploy, Restart, StopOne, Look, Begin
  <2> QED BY <2>1
<1>3. ASSUME NEW t \in Task, Step(t) PROVE Alone'
  <2>1. cid' = cid /\ pc[t] # "idle" /\ \A u \in Task \ {t} : pc'[u] = pc[u]
    BY <1>3 DEF Step, Spawning, Stopping, Probing, Check, Allocate, Launch, Deadline, Dial,
                Mark, Poll, Forget, TakeOut, Reap, Release, Probe, JudgeUp, JudgeDown
  <2> QED BY <2>1
<1>4. CASE Boot \/ Exit BY <1>4 DEF Boot, Exit
<1> QED BY <1>1, <1>2, <1>3, <1>4 DEF Next

LEMMA LaunchedNext ==
    ASSUME ManagerOK, Alone, Launched, [Next]_vars PROVE Launched'
<1> USE DEF Launched, Goto, ManagerOK, TypeOK, locals, Listed
<1>1. CASE UNCHANGED vars BY <1>1 DEF vars
<1>2. ASSUME NEW t \in Task, NEW c \in Cid,
             Deploy(t, c) \/ Restart(t, c) \/ StopOne(t, c) \/ Look(t, c)
      PROVE  Launched'
  BY <1>2 DEF Deploy, Restart, StopOne, Look, Begin
<1>3. ASSUME NEW t \in Task, Step(t) PROVE Launched'
  <2>1. \A u \in Task \ {t} : pc[t] # "idle" /\ pc[u] # "idle" => cid[u] # cid[t]
    BY DEF Alone
  <2>2. CASE Check(t) \/ Allocate(t) \/ Deadline(t) \/ Dial(t)
    BY <2>2 DEF Check, Allocate, Deadline, Dial
  <2>3. CASE Launch(t)
    <3>1. [port |-> port[t], os |-> "booting", health |-> "starting"] # None
      BY <2>3, NoneAssumption DEF Launch, HasPort, Process
    <3> QED BY <2>1, <2>3, <3>1 DEF Launch
  <2>4. CASE Poll(t) BY <2>4 DEF Poll
  <2>5. CASE Mark(t) \/ Forget(t) BY <2>1, <2>5 DEF Mark, Forget
  <2>6. CASE TakeOut(t) BY <2>1, <2>6 DEF TakeOut
  <2>7. CASE Reap(t) \/ Release(t) \/ Probe(t) BY <2>7 DEF Reap, Release, Probe
  <2>8. CASE JudgeUp(t) \/ JudgeDown(t) BY <2>1, <2>8 DEF JudgeUp, JudgeDown
  <2> QED BY <1>3, <2>2, <2>3, <2>4, <2>5, <2>6, <2>7, <2>8
          DEF Step, Spawning, Stopping, Probing
<1>4. CASE Boot \/ Exit
  <2>1. \A c \in Listed : entry[c] \in Process BY EntryType
  <2>2. /\ Listed' = Listed /\ UNCHANGED <<pc, cid, port>>
        /\ \A c \in Listed : /\ entry'[c].port = entry[c].port
                             /\ entry'[c].health = entry[c].health
                             /\ entry[c].os = "exited" => entry'[c].os = "exited"
    BY <1>4, <2>1, NoneAssumption DEF Boot, Exit, Process, Started
  <2> QED BY <2>2
<1> QED BY <1>1, <1>2, <1>3, <1>4 DEF Next

LEMMA StoppedNext ==
    ASSUME TypeOK, Stopped, [Next]_vars PROVE Stopped'
<1> USE DEF Stopped, Goto, TypeOK, locals
<1>1. CASE UNCHANGED vars BY <1>1 DEF vars
<1>2. ASSUME NEW t \in Task, NEW c \in Cid,
             Deploy(t, c) \/ Restart(t, c) \/ StopOne(t, c) \/ Look(t, c)
      PROVE  Stopped'
  BY <1>2 DEF Deploy, Restart, StopOne, Look, Begin
<1>3. ASSUME NEW t \in Task, Spawning(t) \/ Probing(t) PROVE Stopped'
  <2>1. CASE Allocate(t) BY <2>1 DEF Allocate
  <2>2. CASE Check(t) \/ Launch(t) \/ Deadline(t) \/ Dial(t) \/ Mark(t) \/ Poll(t) \/ Forget(t)
    BY <2>2 DEF Check, Launch, Deadline, Dial, Mark, Poll, Forget
  <2>3. CASE Probing(t) BY <2>3 DEF Probing, Probe, JudgeUp, JudgeDown
  <2> QED BY <1>3, <2>1, <2>2, <2>3 DEF Spawning
<1>4. ASSUME NEW t \in Task, Stopping(t) PROVE Stopped'
  BY <1>4 DEF Stopping, TakeOut, Reap, Release, Listed
<1>5. CASE Boot \/ Exit
  <2>1. \A t \in Task : victim[t] # None => victim[t] \in Process OBVIOUS
  <2> QED BY <1>5, <2>1, NoneAssumption DEF Boot, Exit, Process, Started
<1> QED BY <1>1, <1>2, <1>3, <1>4, <1>5 DEF Next, Step

\* Without a launch, a port that nobody keeps or bears was so before.
NothingLost ==
    \A p \in allocated' : p \notin InHand' => p \in allocated /\ p \notin InHand

HandsKept == OneHand' /\ NothingLost

\* Steps that touch neither a port nor what the map has.
LEMMA SameHands ==
    ASSUME OneHand, allocated' = allocated, Keeping' = Keeping, Bearing' = Bearing,
           \A c \in Keeping : entry'[c].port = entry[c].port,
           \A t \in Bearing : port'[t] = port[t]
    PROVE  HandsKept
BY DEF HandsKept, OneHand, NothingLost, InHand

LEMMA RequestHands ==
    ASSUME HandInv, NEW t \in Task, NEW c \in Cid,
           Deploy(t, c) \/ Restart(t, c) \/ StopOne(t, c) \/ Look(t, c)
    PROVE  HandsKept
<1> USE DEF HandInv, ManagerOK, TypeOK
<1>1. /\ UNCHANGED <<allocated, entry>> /\ pc[t] = "idle"
      /\ pc'[t] \in {"check", "stop", "probe"}
      /\ \A u \in Task \ {t} : pc'[u] = pc[u] /\ cid'[u] = cid[u] /\ port'[u] = port[u]
  BY DEF Deploy, Restart, StopOne, Look, Begin, Goto
<1>2. Keeping' = Keeping /\ Bearing' = Bearing BY <1>1 DEF Keeping, Bearing, Listed
<1>3. \A u \in Bearing : port'[u] = port[u] BY <1>1 DEF Bearing
<1> QED BY <1>1, <1>2, <1>3, SameHands

LEMMA PassingHands ==
    ASSUME HandInv, NEW t \in Task,
           \/ Check(t) \/ Deadline(t) \/ Dial(t) \/ Mark(t) \/ Forget(t)
           \/ Probe(t) \/ JudgeUp(t) \/ JudgeDown(t)
    PROVE  HandsKept
<1> USE DEF HandInv, ManagerOK, TypeOK, locals
<1>1. /\ UNCHANGED <<allocated, port, cid>>
      /\ pc[t] \notin {"idle", "launch", "reap", "release"}
      /\ pc'[t] \notin {"launch", "reap", "release", "forget"}
      /\ \A u \in Task \ {t} : pc'[u] = pc[u]
  BY DEF Check, Deadline, Dial, Mark, Forget, Probe, JudgeUp, JudgeDown, Goto
<1>2. Bearing' = Bearing BY <1>1 DEF Bearing
<1>3. CASE Forget(t)
  <2>1. /\ \A c \in Cid \ {cid[t]} : entry'[c] = entry[c]
        /\ entry'[cid[t]] = None /\ cid[t] \notin Keeping
    BY <1>3 DEF Forget, Keeping
  <2>2. Keeping' = Keeping /\ \A c \in Keeping : entry'[c].port = entry[c].port
    BY <1>1, <2>1 DEF Keeping, Listed
  <2> QED BY <1>1, <1>2, <2>2, SameHands
<1>4. CASE ~Forget(t)
  <2>1. pc[t] # "forget"
    BY <1>4 DEF Check, Deadline, Dial, Mark, Forget, Probe, JudgeUp, JudgeDown
  <2>2. Listed' = Listed /\ \A c \in Listed : entry'[c].port = entry[c].port
    <3>1. \A c \in Listed : entry[c] \in Process BY EntryType
    <3>2. CASE Check(t) \/ Deadline(t) \/ Dial(t) \/ Probe(t)
      BY <3>2 DEF Check, Deadline, Dial, Probe, Listed
    <3>3. CASE Mark(t) \/ JudgeUp(t) \/ JudgeDown(t)
      BY <3>1, <3>3, NoneAssumption DEF Mark, MarkHealthy, JudgeUp, JudgeDown, Process, Listed
    <3> QED BY <1>4, <3>2, <3>3
  <2>3. Keeping' = Keeping BY <1>1, <2>1, <2>2 DEF Keeping
  <2> QED BY <1>1, <1>2, <2>2, <2>3, SameHands DEF Keeping
<1> QED BY <1>3, <1>4

LEMMA AllocateHands == ASSUME HandInv, NEW t \in Task, Allocate(t) PROVE HandsKept
<1> USE DEF HandInv, ManagerOK, TypeOK, Goto
<1>1. CASE allocated = Port
  <2>1. Keeping' = Keeping /\ Bearing' = Bearing
    BY <1>1 DEF Allocate, Keeping, Bearing, Listed
  <2> QED BY <1>1, <2>1, SameHands DEF Allocate
<1>2. CASE allocated # Port
  <2>1. /\ Lowest \notin allocated /\ allocated' = allocated \cup {Lowest}
        /\ port'[t] = Lowest /\ \A u \in Task \ {t} : port'[u] = port[u]
        /\ entry' = entry /\ t \notin Bearing
    BY <1>2, LowestIsFree DEF Allocate, Bearing
  <2>2. Keeping' = Keeping /\ Bearing' = Bearing \cup {t}
    BY <1>2 DEF Allocate, Keeping, Bearing, Listed
  <2>3. \A u \in Bearing : port'[u] = port[u] BY <2>1 DEF Bearing
  <2>4. OneHand' BY <2>1, <2>2, <2>3 DEF OneHand
  <2>5. NothingLost BY <2>1, <2>2, <2>3 DEF NothingLost, InHand
  <2> QED BY <2>4, <2>5 DEF HandsKept
<1> QED BY <1>1, <1>2

\* The port of a start that is refused, or of the process that the new one
\* replaces, is in nobody's hands any more.
LEMMA LaunchHands == ASSUME HandInv, NEW t \in Task, Launch(t) PROVE OneHand'
<1> USE DEF HandInv, ManagerOK, TypeOK, Goto, locals
<1>1. /\ UNCHANGED <<allocated, port>> /\ t \in Bearing /\ Bearing' = Bearing \ {t}
  BY DEF Launch, Bearing, SpawnSteps
<1>2. CASE UNCHANGED entry
  <2>1. Keeping' = Keeping BY <1>2, NoneAssumption DEF Launch, Keeping, Listed
  <2> QED BY <1>1, <1>2, <2>1 DEF OneHand
<1>3. CASE entry' = [entry EXCEPT ![cid[t]] =
                        [port |-> port[t], os |-> "booting", health |-> "starting"]]
  <2>1. /\ entry'[cid[t]].port = port[t]
        /\ \A c \in Keeping' \ {cid[t]} : c \in Keeping /\ entry'[c].port = entry[c].port
    BY <1>3 DEF Launch, Keeping, Listed
  <2> QED BY <1>1, <2>1 DEF OneHand, Keeping
<1> QED BY <1>2, <1>3 DEF Launch

LEMMA PollHands == ASSUME HandInv, NEW t \in Task, Poll(t) PROVE HandsKept
<1> USE DEF HandInv, ManagerOK, TypeOK, Goto, locals
<1> DEFINE c == cid[t]
<1>1. /\ UNCHANGED <<entry, port, cid>> /\ c \in Keeping /\ entry[c].port = port[t]
      /\ Bearing' = Bearing
  BY DEF Poll, Launched, Keeping, Bearing, Alone, Listed
<1>2. CASE entry[c].os = "exited"
  <2>1. allocated' = allocated \ {port[t]} /\ Keeping' = Keeping \ {c}
    BY <1>1, <1>2 DEF Poll, Keeping, Listed
  <2>2. OneHand' BY <1>1, <2>1 DEF OneHand
  <2>3. NothingLost BY <1>1, <2>1 DEF NothingLost, InHand
  <2> QED BY <2>2, <2>3 DEF HandsKept
<1>3. CASE entry[c].os # "exited"
  <2>1. allocated' = allocated /\ Keeping' = Keeping
    BY <1>1, <1>3 DEF Poll, Keeping, Listed
  <2> QED BY <1>1, <2>1, SameHands
<1> QED BY <1>2, <1>3

LEMMA StoppingHands == ASSUME HandInv, NEW t \in Task, Stopping(t) PROVE HandsKept
<1> USE DEF HandInv, ManagerOK, TypeOK, Goto, locals
<1> DEFINE c == cid[t]
<1>1. CASE TakeOut(t) /\ c \in Listed
  <2>1. /\ c \in Keeping /\ t \notin Bearing
        /\ entry'[c] = None /\ \A d \in Cid \ {c} : entry'[d] = entry[d]
        /\ port'[t] = entry[c].port /\ \A u \in Task \ {t} : port'[u] = port[u]
        /\ UNCHANGED <<allocated, cid>> /\ pc[t] # "idle"
    BY <1>1 DEF TakeOut, Keeping, Bearing, Alone
  <2>2. Keeping' = Keeping \ {c} /\ Bearing' = Bearing \cup {t}
    BY <1>1, <2>1 DEF TakeOut, Keeping, Bearing, Listed
  <2>3. \A u \in Bearing : port'[u] = port[u] BY <2>1 DEF Bearing
  <2>4. \A d \in Keeping \ {c} : entry'[d] = entry[d] BY <2>1 DEF Keeping, Listed
  <2>5. OneHand' BY <2>1, <2>2, <2>3, <2>4 DEF OneHand
  <2>6. NothingLost BY <2>1, <2>2, <2>3, <2>4 DEF NothingLost, InHand
  <2> QED BY <2>5, <2>6 DEF HandsKept
<1>2. CASE (TakeOut(t) /\ c \notin Listed) \/ Reap(t)
  <2>1. Keeping' = Keeping /\ Bearing' = Bearing
    BY <1>2 DEF TakeOut, Reap, Keeping, Bearing, Listed
  <2> QED BY <1>2, <2>1, SameHands DEF TakeOut, Reap
<1>3. CASE Release(t)
  <2>1. /\ UNCHANGED <<entry, port>> /\ allocated' = allocated \ {port[t]}
        /\ t \in Bearing
    BY <1>3 DEF Release, Bearing
  <2>2. Keeping' = Keeping /\ Bearing' = Bearing \ {t}
    BY <1>3 DEF Release, Keeping, Bearing, Listed
  <2>3. OneHand' BY <2>1, <2>2 DEF OneHand
  <2>4. NothingLost BY <2>1, <2>2 DEF NothingLost, InHand
  <2> QED BY <2>3, <2>4 DEF HandsKept
<1> QED BY <1>1, <1>2, <1>3 DEF Stopping

LEMMA ProcessHands == ASSUME HandInv, Boot \/ Exit PROVE HandsKept
<1> USE DEF HandInv, ManagerOK, TypeOK, locals
<1>1. \A c \in Listed : entry[c] \in Process BY EntryType
<1>2. /\ Listed' = Listed /\ UNCHANGED <<allocated, pc, cid, port>>
      /\ \A c \in Listed : entry'[c].port = entry[c].port
  BY <1>1, NoneAssumption DEF Boot, Exit, Process, Started, Listed
<1>3. Keeping' = Keeping /\ Bearing' = Bearing BY <1>2 DEF Keeping, Bearing
<1> QED BY <1>2, <1>3, SameHands DEF Keeping

LEMMA HandsNext ==
    ASSUME HandInv, Next
    PROVE  /\ OneHand'
           /\ NothingLost \/ \E t \in Task : Launch(t)
BY RequestHands, PassingHands, AllocateHands, LaunchHands, PollHands, StoppingHands,
   ProcessHands
   DEF Next, Step, Spawning, Probing, HandsKept

LEMMA HandInit == Init => HandInv
<1> SUFFICES ASSUME Init PROVE HandInv OBVIOUS
<1>1. Listed = {} /\ Bearing = {} /\ Keeping = {} BY DEF Init, Listed, Bearing, Keeping
<1>2. Alone /\ Launched /\ Stopped BY DEF Init, Alone, Launched, Stopped
<1>3. OneHand BY <1>1 DEF OneHand
<1> QED BY <1>2, <1>3, ManagerInit DEF HandInv

LEMMA HandNext == ASSUME OnePerCid, HandInv, [Next]_vars PROVE HandInv'
<1>1. ManagerOK' /\ Alone' /\ Launched' /\ Stopped'
  BY ManagerNext, AloneNext, LaunchedNext, StoppedNext DEF HandInv, ManagerOK
<1>2. CASE UNCHANGED vars
  <2>1. OneHand' BY <1>2 DEF HandInv, OneHand, Keeping, Bearing, Listed, vars, locals
  <2> QED BY <1>1, <2>1 DEF HandInv
<1>3. CASE Next BY <1>1, <1>3, HandsNext DEF HandInv
<1> QED BY <1>2, <1>3

LEMMA AtMostOne ==
    ASSUME NEW S, \A x, y \in S : x = y PROVE Cardinality(S) <= 1
<1>1. CASE S = {} BY <1>1, FS_EmptySet
<1>2. CASE S # {}
  <2>1. PICK x \in S : S = {x} BY <1>2
  <2> QED BY <2>1, FS_Singleton
<1> QED BY <1>1, <1>2

\* What has not ended on a port has that port in its hands.
LEMMA HoldersKeep ==
    ASSUME HandInv
    PROVE  /\ \A c \in Listed : entry[c].os # "exited" => c \in Keeping
           /\ \A c \in Listed : entry[c].health # "starting" => c \in Keeping
           /\ \A t \in Task : victim[t] # None => t \in Bearing /\ victim[t].port = port[t]
<1>1. \A c \in Listed : c \notin Keeping =>
           entry[c].os = "exited" /\ entry[c].health = "starting"
  BY DEF HandInv, Launched, Keeping
<1>2. \A t \in Task : victim[t] # None => t \in Bearing /\ victim[t].port = port[t]
  BY DEF HandInv, Stopped, Bearing
<1> QED BY <1>1, <1>2

LEMMA HandsExclude == ASSUME HandInv PROVE PortsExclusive
<1> SUFFICES ASSUME NEW p \in Port
             PROVE  Cardinality(Holders(p)) <= 1 /\ (Holders(p) # {} => p \in allocated)
  BY DEF PortsExclusive
<1>1. \A x \in Holders(p) :
        \/ \E c \in Keeping : x = <<"map", c>> /\ entry[c].port = p
        \/ \E t \in Bearing : x = <<"stopping", t>> /\ port[t] = p
  BY HoldersKeep DEF Holders
<1>2. \A x, y \in Holders(p) : x = y
  BY <1>1 DEF HandInv, OneHand
<1>3. Holders(p) # {} => p \in allocated BY <1>1 DEF HandInv, OneHand
<1> QED BY <1>2, <1>3, AtMostOne

LEMMA HandsRoute == ASSUME HandInv PROVE RoutedToOwn
<1> SUFFICES ASSUME NEW c \in Listed, entry[c].health = "healthy", Answers(entry[c].port)
             PROVE  entry[c].os = "listening"
  BY DEF RoutedToOwn
<1>1. c \in Keeping BY HoldersKeep
<1>2. \A t \in Task : victim[t] # None => victim[t].port # entry[c].port
  BY <1>1, HoldersKeep DEF HandInv, OneHand
<1>3. PICK d \in Listed : entry[d].port = entry[c].port /\ entry[d].os = "listening"
  BY <1>2 DEF Answers
<1>4. d \in Keeping BY <1>3, HoldersKeep
<1> QED BY <1>1, <1>3, <1>4 DEF HandInv, OneHand

(* While one request at a time works on a deployment, however many work on  *)
(* others, every port in use is known to the allocator and has one process, *)
(* a healthy deployment is answered by its own process, and only a launch   *)
(* loses a port: the steps of deploys, stops, restarts and the health loop  *)
(* hand each port from the allocator to a request, to the map and back.     *)
THEOREM PortsAreAccounted == ASSUME OnePerCid PROVE Spec => PortsAccounted
<1>1. HandInv => PortsExclusive /\ RoutedToOwn BY HandsExclude, HandsRoute
<1>2. ASSUME HandInv, Next PROVE LostAtLaunchOnly
  <2>1. CASE NothingLost BY <2>1 DEF NothingLost, LostAtLaunchOnly
  <2>2. ASSUME NEW t \in Task, Launch(t) PROVE LostAtLaunchOnly
    <3>1. pc[t] = "launch" /\ pc'[t] # "launch"
      BY <1>2, <2>2 DEF Launch, Goto, HandInv, ManagerOK, TypeOK
    <3> QED BY <3>1 DEF LostAtLaunchOnly
  <2>3. NothingLost \/ \E t \in Task : Launch(t) BY <1>2, HandsNext
  <2> QED BY <2>1, <2>2, <2>3
<1>3. HandInv /\ [Next]_vars => HandInv' BY HandNext
<1> QED BY <1>1, <1>2, <1>3, HandInit, PTL DEF Spec, PortsAccounted

-----------------------------------------------------------------------------
(* The cache of the builds.                                                 *)

\* What some entries weigh together, by their sizes.
Most == Cardinality(Pkg)
Weights == [Key -> 0..Most]
Pairs(f, S) == UNION { {k} \X (1..f[k]) : k \in S }
Weight(f, S) == Cardinality(Pairs(f, S))

LEMMA MostType == Most \in Nat
BY BuildsAssumption, FS_CardinalityType DEF Most

LEMMA SizeType == ASSUME NEW tree PROVE SizeOf(tree) \in 0..Most
<1> DEFINE F == {p \in Pkg : tree[p] = "full"}
<1>1. IsFiniteSet(F) /\ Cardinality(F) <= Cardinality(Pkg)
  BY BuildsAssumption, FS_Subset
<1>2. Cardinality(F) \in Nat
  BY <1>1, FS_CardinalityType
<1> QED  BY <1>1, <1>2, MostType DEF SizeOf, Most

LEMMA WeightType ==
    ASSUME NEW f \in Weights, NEW S \in SUBSET Key
    PROVE  IsFiniteSet(Pairs(f, S)) /\ Weight(f, S) \in Nat
<1>0. IsFiniteSet(1..Most)
  BY MostType, FS_Interval
<1>1. IsFiniteSet(Key \X (1..Most))
  BY <1>0, BuildsAssumption, FS_Product
<1>2. Pairs(f, S) \subseteq Key \X (1..Most)
  <2> SUFFICES ASSUME NEW k \in S, NEW n \in 1..f[k] PROVE n \in 1..Most
    BY DEF Pairs
  <2> QED  BY MostType DEF Weights
<1> QED  BY <1>1, <1>2, FS_Subset, FS_CardinalityType DEF Weight

\* Less of each entry that has any weight, and fewer entries, weigh less.
LEMMA WeightGrows ==
    ASSUME NEW f \in Weights, NEW g \in Weights, NEW S \in SUBSET Key, NEW T \in SUBSET Key,
           \A k \in S : f[k] > 0 => k \in T /\ f[k] <= g[k]
    PROVE  Weight(f, S) <= Weight(g, T)
<1>1. Pairs(f, S) \subseteq Pairs(g, T)
  <2> SUFFICES ASSUME NEW k \in S, NEW n \in 1..f[k] PROVE k \in T /\ n \in 1..g[k]
    BY DEF Pairs
  <2>1. f[k] \in Nat /\ g[k] \in Nat /\ f[k] > 0
    BY MostType DEF Weights
  <2> QED  BY <2>1
<1> QED  BY <1>1, WeightType, FS_Subset DEF Weight

LEMMA WeightLess ==
    ASSUME NEW f \in Weights, NEW S \in SUBSET Key, NEW k \in S
    PROVE  Weight(f, S) = Weight(f, S \ {k}) + f[k]
<1> DEFINE A == Pairs(f, S \ {k})
           B == {k} \X (1..f[k])
<1>1. Pairs(f, S) = A \cup B /\ A \cap B = {}
  BY DEF Pairs
<1>2. f[k] \in Nat
  BY MostType DEF Weights
<1>3. IsFiniteSet(B) /\ Cardinality(B) = f[k]
  <2>1. IsFiniteSet({k}) /\ Cardinality({k}) = 1
    BY FS_Singleton
  <2>2. IsFiniteSet(1..f[k]) /\ Cardinality(1..f[k]) = f[k]
    BY <1>2, FS_Interval
  <2>3. IsFiniteSet(B) /\ Cardinality(B) = Cardinality({k}) * Cardinality(1..f[k])
    BY <2>1, <2>2, FS_Product
  <2> QED  BY <1>2, <2>1, <2>2, <2>3
<1>4. IsFiniteSet(A) /\ Cardinality(A) \in Nat
  BY WeightType DEF Weight
<1>5. Cardinality(A \cap B) = 0
  BY <1>1, FS_EmptySet
<1>6. Cardinality(A \cup B) = Cardinality(A) + Cardinality(B) - Cardinality(A \cap B)
  BY <1>3, <1>4, FS_Union
<1> HIDE DEF A, B
<1>7. Cardinality(Pairs(f, S)) = Cardinality(A) + f[k]
  BY <1>1, <1>2, <1>3, <1>4, <1>5, <1>6
<1> QED  BY <1>7 DEF A, Weight

LEMMA NoWeight ==
    ASSUME NEW f \in Weights, NEW S \in SUBSET Key, \A k \in S : f[k] = 0
    PROVE  Weight(f, S) = 0
<1>1. Pairs(f, S) = {}
  <2>1. \A k \in S : {k} \X (1..f[k]) = {}
    OBVIOUS
  <2> QED  BY <2>1 DEF Pairs
<1> QED  BY <1>1, FS_EmptySet DEF Weight

LEMMA WithoutKey ==
  ASSUME NEW s \in Seq(Key), IsInjective(s), NEW k
  PROVE  /\ Without(s, k) \in Seq(Key) /\ IsInjective(Without(s, k))
         /\ ToSet(Without(s, k)) = ToSet(s) \ {k}
<1>1. CASE k \notin ToSet(s)
  BY <1>1 DEF Without
<1>2. CASE k \in ToSet(s)
  <2> DEFINE at == CHOOSE i \in DOMAIN s : s[i] = k
             W  == [i \in 1..(Len(s) - 1) |-> IF i < at THEN s[i] ELSE s[i + 1]]
  <2>1. Without(s, k) = W
    BY <1>2 DEF Without
  <2>2. at \in 1..Len(s) /\ s[at] = k /\ DOMAIN s = 1..Len(s)
    BY <1>2 DEF ToSet
  <2> HIDE DEF at
  <2>3. W \in Seq(Key) /\ DOMAIN W = 1..(Len(s) - 1)
    <3>1. \A i \in 1..(Len(s) - 1) : W[i] \in Key
      BY <2>2
    <3> QED  BY <3>1, <2>2
  <2>4. \A i \in 1..(Len(s) - 1) : W[i] = s[IF i < at THEN i ELSE i + 1]
    BY <2>2
  <2>5. \A i \in 1..(Len(s) - 1) : (IF i < at THEN i ELSE i + 1) \in 1..Len(s) \ {at}
    BY <2>2
  <2>6. \A j \in 1..Len(s) : j # at =>
            \E i \in 1..(Len(s) - 1) : j = IF i < at THEN i ELSE i + 1
    <3> SUFFICES ASSUME NEW j \in 1..Len(s), j # at
                 PROVE  \E i \in 1..(Len(s) - 1) : j = IF i < at THEN i ELSE i + 1
      OBVIOUS
    <3>1. CASE j < at
      BY <3>1, <2>2
    <3>2. CASE j > at
      <4>1. j - 1 \in 1..(Len(s) - 1) /\ ~(j - 1 < at) /\ j = (j - 1) + 1
        BY <3>2, <2>2
      <4> QED  BY <4>1
    <3> QED  BY <3>1, <3>2, <2>2
  <2> HIDE DEF W
  <2>7. IsInjective(W)
    <3> SUFFICES ASSUME NEW i \in 1..(Len(s) - 1), NEW j \in 1..(Len(s) - 1), W[i] = W[j]
                 PROVE  i = j
      BY <2>3 DEF IsInjective
    <3> DEFINE a == IF i < at THEN i ELSE i + 1
               b == IF j < at THEN j ELSE j + 1
    <3>1. a \in DOMAIN s /\ b \in DOMAIN s /\ s[a] = s[b]
      BY <2>2, <2>4, <2>5
    <3>2. a = b
      BY <3>1 DEF IsInjective
    <3> QED  BY <3>2, <2>2
  <2>8. ToSet(W) = ToSet(s) \ {k}
    <3>1. ASSUME NEW x \in ToSet(W)  PROVE x \in ToSet(s) \ {k}
      <4>1. PICK i \in 1..(Len(s) - 1) : x = W[i]
        BY <3>1, <2>3 DEF ToSet
      <4> QED  BY <4>1, <2>2, <2>4, <2>5 DEF ToSet, IsInjective
    <3>2. ASSUME NEW x \in ToSet(s) \ {k}  PROVE x \in ToSet(W)
      <4>1. PICK j \in 1..Len(s) : x = s[j] /\ j # at
        BY <3>2, <2>2 DEF ToSet
      <4>2. PICK i \in 1..(Len(s) - 1) : j = IF i < at THEN i ELSE i + 1
        BY <4>1, <2>6
      <4> QED  BY <4>1, <4>2, <2>3, <2>4 DEF ToSet
    <3> QED  BY <3>1, <3>2
  <2> QED  BY <2>1, <2>3, <2>7, <2>8
<1> QED  BY <1>1, <1>2

LEMMA TouchedKey ==
  ASSUME ages \in Seq(Key), IsInjective(ages), NEW k \in Key
  PROVE  /\ Touched(k) \in Seq(Key) /\ IsInjective(Touched(k))
         /\ ToSet(Touched(k)) = ToSet(ages) \cup {k}
<1>1. PICK w \in Seq(Key) : w = Without(ages, k)
  BY WithoutKey
<1>2. IsInjective(w) /\ ToSet(w) = ToSet(ages) \ {k}
  BY <1>1, WithoutKey
<1>8. Append(w, k) \in Seq(Key)
  OBVIOUS
<1>3. PICK t \in Seq(Key) : t = Append(w, k)
  BY <1>8
<1>4. /\ DOMAIN t = 1..(Len(w) + 1) /\ DOMAIN w = 1..Len(w) /\ Len(w) \in Nat
      /\ t[Len(w) + 1] = k /\ \A i \in 1..Len(w) : t[i] = w[i]
  BY <1>3
<1>5. \A i \in 1..Len(w) : w[i] # k
  BY <1>2, <1>4 DEF ToSet
<1>6. IsInjective(t)
  <2> SUFFICES ASSUME NEW i \in 1..(Len(w) + 1), NEW j \in 1..(Len(w) + 1), t[i] = t[j]
               PROVE  i = j
    BY <1>4 DEF IsInjective
  <2>1. CASE i \in 1..Len(w) /\ j \in 1..Len(w)
    BY <1>2, <1>4, <2>1 DEF IsInjective
  <2>2. CASE ~(i \in 1..Len(w) /\ j \in 1..Len(w))
    BY <1>4, <1>5, <2>2
  <2> QED  BY <2>1, <2>2
<1>7. ToSet(t) = ToSet(w) \cup {k}
  <2>1. ASSUME NEW x \in ToSet(t) PROVE x \in ToSet(w) \cup {k}
    <3>1. PICK i \in 1..(Len(w) + 1) : x = t[i]
      BY <1>4, <2>1 DEF ToSet
    <3> QED  BY <1>4, <3>1 DEF ToSet
  <2>2. ASSUME NEW x \in ToSet(w) \cup {k} PROVE x \in ToSet(t)
    <3>1. CASE x = k
      BY <1>4, <3>1 DEF ToSet
    <3>2. CASE x \in ToSet(w)
      <4>1. PICK i \in 1..Len(w) : x = w[i]
        BY <1>4, <3>2 DEF ToSet
      <4> QED  BY <1>4, <4>1 DEF ToSet
    <3> QED  BY <2>2, <3>1, <3>2
  <2> QED  BY <2>1, <2>2
<1> QED  BY <1>1, <1>2, <1>3, <1>6, <1>7 DEF Touched

-----------------------------------------------------------------------------
(* What builds do, and on which project.                                    *)

Saving == {"save", "saving", "evict"}
Caching == {"restore", "restoring"} \cup Saving
Steps == {"idle", "install", "build"} \cup Caching \cup Ended
Working == [step : Steps, project : Project \cup {Absent}, todo : SUBSET Pkg,
            inside : Pkg \cup {Absent}, victims : Seq(Key), sizes : Weights, total : Int]
Command == [state : {"none", "runs", "exited"}, left : Nat, pipe : Nat, heir : BOOLEAN]

Tree == [Pkg -> {"none", "dir", "full"}]
Typed == work \in [Build -> Working]

ProjectKnown(b) ==
    /\ work[b].step \notin Ended \cup {"idle"} => work[b].project \in Project
    /\ work[b].step \in Caching => KeyOf(b) \in Key
    /\ work[b].step \in Saving => work[b].project.package

\* Only a build that installs or builds has a command.
CommandFits(b) == child[b].state # "none" => HasCommand(b)

\* What has been installed stays until the build command runs.
StaysWhole(b) ==
    \/ work[b].step \in Saving
    \/ work[b].step = "build" /\ work[b].project.package
    => own[b] = Whole

BuildOK ==
    /\ Typed /\ child \in [Build -> Command] /\ own \in [Build -> Tree]
    /\ \A b \in Build : ProjectKnown(b) /\ CommandFits(b) /\ StaysWhole(b)

LEMMA ProjectType == ASSUME NEW project \in Project
    PROVE project \in [package : BOOLEAN, script : BOOLEAN, command : BOOLEAN,
                       key : Key \cup {Absent}]
BY BuildsAssumption

LEMMA BuildInit == BuildsInit => BuildOK
<1> SUFFICES ASSUME BuildsInit PROVE BuildOK
  OBVIOUS
<1>1. [k \in Key |-> 0] \in Weights
  BY MostType DEF Weights
<1>2. <<>> \in Seq(Key)
  OBVIOUS
<1>3. Waiting \in Working
  BY <1>1, <1>2 DEF Waiting, Working, Steps
<1>4. NoChild \in Command
  BY DEF NoChild, Command
<1> QED  BY <1>3, <1>4 DEF BuildsInit, BuildOK, Typed, Tree, ProjectKnown, CommandFits, StaysWhole,
              Waiting, NoChild, Nothing, Ended, Outcomes, Caching, Saving

Same(b) == \A c \in Build \ {b} : work'[c] = work[c]

LEMMA StepMoves ==
    ASSUME Typed, NEW b \in Build, NEW s \in Steps, Goes(b, s)
    PROVE  /\ Typed' /\ Same(b) /\ work'[b].step = s /\ work'[b].project = work[b].project
BY DEF Typed, Same, Goes, Working

LEMMA TodoMoves ==
    ASSUME Typed, NEW b \in Build, NEW s \in Steps, NEW t \in SUBSET Pkg,
           work' = [work EXCEPT ![b].step = s, ![b].todo = t]
    PROVE  /\ Typed' /\ Same(b) /\ work'[b].step = s /\ work'[b].project = work[b].project
BY DEF Typed, Same, Working

LEMMA InsideMoves ==
    ASSUME Typed, NEW b \in Build, NEW s \in Steps, NEW t \in SUBSET Pkg,
           NEW i \in Pkg \cup {Absent},
           work' = [work EXCEPT ![b].step = s, ![b].todo = t, ![b].inside = i]
    PROVE  /\ Typed' /\ Same(b) /\ work'[b].step = s /\ work'[b].project = work[b].project
           /\ work'[b].inside = i
BY DEF Typed, Same, Working

LEMMA PackageMoves ==
    ASSUME Typed, NEW b \in Build, NEW t \in SUBSET Pkg, NEW i \in Pkg \cup {Absent},
           work' = [work EXCEPT ![b].todo = t, ![b].inside = i]
    PROVE  /\ Typed' /\ Same(b) /\ work'[b].step = work[b].step
           /\ work'[b].project = work[b].project /\ work'[b].inside = i
BY DEF Typed, Same, Working

LEMMA FileMoves ==
    ASSUME Typed, NEW b \in Build, work' = [work EXCEPT ![b].inside = Absent]
    PROVE  /\ Typed' /\ Same(b) /\ work'[b].step = work[b].step
           /\ work'[b].project = work[b].project
BY DEF Typed, Same, Working

LEMMA StartMoves ==
    ASSUME Typed, NEW b \in Build, NEW s \in Steps, NEW p \in Project,
           work' = [work EXCEPT ![b].project = p, ![b].step = s]
    PROVE  /\ Typed' /\ Same(b) /\ work'[b].step = s /\ work'[b].project = p
BY DEF Typed, Same, Working

Tally(b, victims, sizes, total) ==
    work[b].victims = victims /\ work[b].sizes = sizes /\ work[b].total = total

LEMMA ScanMoves ==
    ASSUME Typed, NEW b \in Build, NEW s \in Steps, NEW v \in Seq(Key), NEW z \in Weights,
           NEW n \in Int,
           work' = [work EXCEPT ![b].step = s, ![b].victims = v, ![b].sizes = z, ![b].total = n]
    PROVE  /\ Typed' /\ Same(b) /\ work'[b].step = s /\ work'[b].project = work[b].project
           /\ Tally(b, v, z, n)'
<1>1. PICK w \in Working : w = work[b]
  BY DEF Typed
<1> DEFINE u == [w EXCEPT !.step = s, !.victims = v]
           x == [u EXCEPT !.sizes = z, !.total = n]
<1>2. u \in Working /\ u.step = s /\ u.project = w.project /\ u.victims = v
  BY DEF Working
<1>3. x = [w EXCEPT !.step = s, !.victims = v, !.sizes = z, !.total = n]
  BY DEF Working
<1>4. work' = [work EXCEPT ![b] = x]
  BY <1>1, <1>3 DEF Typed
<1> HIDE DEF u
<1>5. /\ x \in Working /\ x.step = s /\ x.project = w.project /\ x.victims = v
      /\ x.sizes = z /\ x.total = n
  BY <1>2 DEF Working
<1> QED  BY <1>1, <1>4, <1>5 DEF Typed, Same, Tally

LEMMA EvictMoves ==
    ASSUME Typed, NEW b \in Build, NEW v \in Seq(Key), NEW n \in Int,
           work' = [work EXCEPT ![b].victims = v, ![b].total = n]
    PROVE  /\ Typed' /\ Same(b) /\ work'[b].step = work[b].step
           /\ work'[b].project = work[b].project /\ work'[b].sizes = work[b].sizes
           /\ work'[b].victims = v /\ work'[b].total = n
BY DEF Typed, Same, Working

LEMMA SkipMoves ==
    ASSUME Typed, NEW b \in Build, NEW v \in Seq(Key), work' = [work EXCEPT ![b].victims = v]
    PROVE  /\ Typed' /\ Same(b) /\ work'[b].step = work[b].step
           /\ work'[b].project = work[b].project /\ work'[b].sizes = work[b].sizes
           /\ work'[b].victims = v /\ work'[b].total = work[b].total
BY DEF Typed, Same, Working

LEMMA WorkFields ==
    ASSUME Typed, NEW b \in Build
    PROVE  /\ work[b].step \in Steps /\ work[b].project \in Project \cup {Absent}
           /\ work[b].todo \in SUBSET Pkg /\ work[b].inside \in Pkg \cup {Absent}
           /\ work[b].victims \in Seq(Key) /\ work[b].sizes \in Weights /\ work[b].total \in Int
<1>1. PICK w \in Working : w = work[b]
  BY DEF Typed
<1>2. w.step \in Steps /\ w.project \in Project \cup {Absent} /\ w.todo \in SUBSET Pkg
  BY DEF Working
<1>3. w.inside \in Pkg \cup {Absent} /\ w.sizes \in Weights /\ w.total \in Int
  BY DEF Working
<1>4. w.victims \in Seq(Key)
  BY Zenon DEF Working
<1> QED  BY <1>1, <1>2, <1>3, <1>4

LEMMA OthersKeep ==
    ASSUME BuildOK, NEW b \in Build, Typed', Same(b),
           child' \in [Build -> Command], own' \in [Build -> Tree],
           \A c \in Build \ {b} : child'[c] = child[c] /\ own'[c] = own[c],
           ProjectKnown(b)', CommandFits(b)', StaysWhole(b)'
    PROVE  BuildOK'
BY DEF BuildOK, Same, ProjectKnown, CommandFits, StaysWhole, KeyOf, HasCommand

\* The step is no one of a build that writes an entry or cuts the cache down.
Quiet(b) ==
    UNCHANGED work \/ /\ Same(b)
                      /\ work[b].step \notin {"saving", "evict"}
                      /\ work'[b].step \notin {"saving", "evict"}

LEMMA StartKeeps ==
    ASSUME BuildOK, NEW b \in Build, Start(b) PROVE BuildOK' /\ Quiet(b)
<1> USE DEF BuildOK, ProjectKnown, CommandFits, StaysWhole, Saving, Caching, Ended, Outcomes, KeyOf,
            Steps, Quiet
<1>1. CASE Goes(b, "failed")
  <2>1. Typed' /\ Same(b) /\ work'[b].step = "failed"
    BY <1>1, StepMoves
  <2> QED  BY <2>1, OthersKeep DEF Start, HasCommand
<1>2. CASE \E project \in Project :
            work' = [work EXCEPT
                ![b].project = project,
                ![b].step = CASE ~NeedsBuild(project) -> "static"
                              [] NeedsBuild(project) /\ HasCache(b, project) -> "restore"
                              [] OTHER -> "install"]
  <2>1. PICK project \in Project :
            work' = [work EXCEPT
                ![b].project = project,
                ![b].step = CASE ~NeedsBuild(project) -> "static"
                              [] NeedsBuild(project) /\ HasCache(b, project) -> "restore"
                              [] OTHER -> "install"]
    BY <1>2
  <2>2. PICK s \in {"static", "restore", "install"} :
            /\ s = CASE ~NeedsBuild(project) -> "static"
                     [] NeedsBuild(project) /\ HasCache(b, project) -> "restore"
                     [] OTHER -> "install"
            /\ s = "restore" => HasCache(b, project)
    OBVIOUS
  <2>3. work' = [work EXCEPT ![b].project = project, ![b].step = s]
    BY <2>1, <2>2
  <2>4. Typed' /\ Same(b) /\ work'[b].step = s /\ work'[b].project = project
    BY <2>2, <2>3, StartMoves
  <2>5. s = "restore" => project.key \in Key
    BY <2>2, ProjectType DEF HasCache
  <2> QED  BY <2>2, <2>4, <2>5, OthersKeep DEF Start, HasCommand
<1> QED  BY <1>1, <1>2 DEF Start

LEMMA RestoreKeeps ==
    ASSUME BuildOK, NEW b \in Build,
           RestoreOpen(b) \/ (\E p \in Pkg : RestorePackage(b, p)) \/ RestoreFile(b) \/ Restored(b)
    PROVE  BuildOK' /\ Quiet(b)
<1> USE DEF BuildOK, ProjectKnown, CommandFits, StaysWhole, Saving, Caching, Ended, Outcomes, KeyOf,
            Steps, Quiet
<1>0. work[b].step \in {"restore", "restoring"} /\ UNCHANGED child
  BY DEF RestoreOpen, RestorePackage, RestoreFile, Restored, RestoreFails
<1>1. /\ Typed' /\ Same(b) /\ work'[b].project = work[b].project
      /\ work'[b].step \in {"restoring", "install"}
  <2>1. CASE Goes(b, "install")
    BY <2>1, StepMoves
  <2>2. CASE work' = [work EXCEPT ![b].step = "restoring", ![b].todo = Present(cached[KeyOf(b)])]
    <3>1. PICK t \in SUBSET Pkg : t = Present(cached[KeyOf(b)])
      BY DEF Present
    <3> QED  BY <2>2, <3>1, TodoMoves
  <2>3. CASE RestoreFails(b)
    BY <2>3, InsideMoves DEF RestoreFails, AfterRestore
  <2>4. ASSUME NEW p \in Pkg, RestorePackage(b, p), ~RestoreFails(b)
        PROVE  /\ Typed' /\ Same(b) /\ work'[b].project = work[b].project
               /\ work'[b].step = "restoring"
    <3>1. PICK t \in SUBSET Pkg : t = work[b].todo \ {p}
      BY WorkFields
    <3>2. PICK i \in Pkg \cup {Absent} :
              i = IF cached[KeyOf(b)][p] = "full" THEN p ELSE Absent
      OBVIOUS
    <3>3. work' = [work EXCEPT ![b].todo = t, ![b].inside = i]
      BY <2>4, <3>1, <3>2 DEF RestorePackage, Typed
    <3> QED  BY <2>4, <3>3, PackageMoves DEF RestorePackage
  <2>5. CASE RestoreFile(b) /\ ~RestoreFails(b)
    BY <2>5, FileMoves DEF RestoreFile
  <2> QED  BY <2>1, <2>2, <2>3, <2>4, <2>5 DEF RestoreOpen, RestoreFile, Restored, AfterRestore
<1>2. own' \in [Build -> Tree] /\ \A c \in Build \ {b} : own'[c] = own[c]
  <2>1. CASE RestoreFails(b)
    BY <2>1 DEF RestoreFails, Nothing, Tree
  <2>2. CASE UNCHANGED own
    BY <2>2
  <2>3. ASSUME NEW p \in Pkg, RestorePackage(b, p), ~RestoreFails(b)
        PROVE  own' \in [Build -> Tree] /\ \A c \in Build \ {b} : own'[c] = own[c]
    <3>1. own' = [own EXCEPT ![b][p] = "dir"]
      BY <2>3 DEF RestorePackage
    <3> QED  BY <3>1 DEF Tree
  <2>4. CASE RestoreFile(b) /\ ~RestoreFails(b)
    <3>1. own' = [own EXCEPT ![b][work[b].inside] = "full"]
      BY <2>4 DEF RestoreFile
    <3> QED  BY <3>1, WorkFields DEF Tree
  <2> QED  BY <2>1, <2>2, <2>3, <2>4 DEF RestoreOpen, Restored
<1> QED  BY <1>0, <1>1, <1>2, OthersKeep DEF HasCommand

LEMMA CommandKeeps ==
    ASSUME BuildOK, NEW b \in Build,
           NoInstall(b) \/ Spawn(b) \/ Writes(b) \/ Exits(b) \/ HeirEnds(b) \/ Read(b) \/ Joined(b)
             \/ Kill(b)
    PROVE  BuildOK' /\ Quiet(b)
<1> USE DEF BuildOK, ProjectKnown, CommandFits, StaysWhole, Saving, Caching, Ended, Outcomes, KeyOf,
            Steps, Quiet
<1>1. CASE NoInstall(b)
  <2>1. Typed' /\ Same(b) /\ work'[b].step = "build" /\ work'[b].project = work[b].project
    BY <1>1, StepMoves DEF NoInstall
  <2> QED  BY <1>1, <2>1, OthersKeep DEF NoInstall, HasCommand
<1>2. CASE Spawn(b) /\ Goes(b, "failed") /\ UNCHANGED child
  <2>1. Typed' /\ Same(b) /\ work'[b].step = "failed"
    BY <1>2, StepMoves
  <2> QED  BY <1>2, <2>1, OthersKeep DEF Spawn, HasCommand
<1>3. CASE Spawn(b) /\ UNCHANGED work
  <2>1. PICK heir \in BOOLEAN :
          \/ UNCHANGED child
          \/ child' = [child EXCEPT ![b] = [state |-> "runs", left |-> Output,
                                              pipe |-> 0, heir |-> heir]]
    BY <1>3, BuildsAssumption DEF Spawn
  <2>2. [state |-> "runs", left |-> Output, pipe |-> 0, heir |-> heir] \in Command
    BY BuildsAssumption DEF Command
  <2>3. child' \in [Build -> Command] /\ \A c \in Build \ {b} : child'[c] = child[c]
    BY <2>1, <2>2
  <2> QED  BY <1>3, <2>3, OthersKeep DEF Spawn, HasCommand, Same, Typed
<1>4. CASE Writes(b) \/ Exits(b) \/ HeirEnds(b) \/ Read(b)
  <2>1. PICK d \in Command : d = child[b]
    OBVIOUS
  <2>2. d.left \in Nat /\ d.pipe \in Nat
    BY DEF Command
  <2>3. CASE Writes(b)
    <3>1. [d EXCEPT !.left = @ - 1, !.pipe = @ + 1] \in Command
      BY <2>1, <2>2, <2>3 DEF Command, Writes
    <3>2. child' = [child EXCEPT ![b] = [d EXCEPT !.left = @ - 1, !.pipe = @ + 1]]
      BY <2>1, <2>3 DEF Writes
    <3>3. child' \in [Build -> Command] /\ \A c \in Build \ {b} : child'[c] = child[c]
      BY <3>1, <3>2
    <3> QED  BY <2>3, <3>3, OthersKeep DEF Writes, HasCommand, Same, Typed
  <2>4. CASE Exits(b) \/ HeirEnds(b)
    <3>1. [d EXCEPT !.state = "exited"] \in Command /\ [d EXCEPT !.heir = FALSE] \in Command
      BY DEF Command
    <3>2. \/ child' = [child EXCEPT ![b] = [d EXCEPT !.state = "exited"]]
          \/ child' = [child EXCEPT ![b] = [d EXCEPT !.heir = FALSE]]
      BY <2>1, <2>4 DEF Exits, HeirEnds
    <3>3. child' \in [Build -> Command] /\ \A c \in Build \ {b} : child'[c] = child[c]
      BY <3>1, <3>2
    <3> QED  BY <2>4, <3>3, OthersKeep DEF Exits, HeirEnds, HasCommand, Same, Typed
  <2>5. CASE Read(b)
    <3>1. [d EXCEPT !.pipe = @ - 1] \in Command
      BY <2>1, <2>2, <2>5 DEF Command, Read
    <3>2. child' = [child EXCEPT ![b] = [d EXCEPT !.pipe = @ - 1]]
      BY <2>1, <2>5 DEF Read
    <3>3. /\ child' \in [Build -> Command] /\ child'[b].state = child[b].state
          /\ \A c \in Build \ {b} : child'[c] = child[c]
      BY <2>1, <3>1, <3>2 DEF Command
    <3> QED  BY <2>5, <3>3, OthersKeep DEF Read, HasCommand, Same, Typed
  <2> QED  BY <1>4, <2>3, <2>4, <2>5
<1>5. CASE Joined(b) \/ Kill(b)
  <2>1. /\ HasCommand(b) /\ work[b].project \in Project
        /\ work[b].step \in {"install", "build"}
    BY <1>5 DEF Joined, Kill, HasCommand
  <2>2. NoChild \in Command /\ child' = [child EXCEPT ![b] = NoChild]
    BY <1>5 DEF Joined, Kill, NoChild, Command
  <2>3. child' \in [Build -> Command] /\ child'[b].state = "none"
        /\ \A c \in Build \ {b} : child'[c] = child[c]
    BY <2>2 DEF NoChild
  <2>4. ASSUME NEW s \in Outcomes, Goes(b, s), UNCHANGED own  PROVE BuildOK' /\ Quiet(b)
    <3>1. Typed' /\ Same(b) /\ work'[b].step = s
      BY <2>4, StepMoves
    <3> QED  BY <2>1, <2>3, <2>4, <3>1, OthersKeep DEF HasCommand
  <2>5. CASE Installed(b)
    <3>1. work[b].project.key \in Key \cup {Absent}
      BY <2>1, ProjectType
    <3>2. PICK s \in {"save", "build"} :
              s = IF HasCache(b, work[b].project) THEN "save" ELSE "build"
      OBVIOUS
    <3>3. Typed' /\ Same(b) /\ work'[b].step = s /\ work'[b].project = work[b].project
      BY <2>5, <3>2, StepMoves DEF Installed
    <3>4. own' \in [Build -> Tree] /\ own'[b] = Whole /\ \A c \in Build \ {b} : own'[c] = own[c]
      BY <2>5 DEF Installed, Whole, Tree
    <3>5. work[b].project.package /\ (s = "save" => work[b].project.key \in Key)
      BY <2>1, <2>5, <3>1, <3>2 DEF HasCommand, Installed, HasCache
    <3> QED  BY <2>1, <2>3, <3>2, <3>3, <3>4, <3>5, OthersKeep
  <2> QED  BY <1>5, <2>4, <2>5 DEF Joined, Kill, Built
<1> QED  BY <1>1, <1>2, <1>3, <1>4, <1>5 DEF Spawn

\* A build that saves, or cuts the cache down, keeps what it has installed.
LEMMA SavesKeep ==
    ASSUME BuildOK, NEW b \in Build, Typed', Same(b), UNCHANGED <<own, child>>,
           work[b].step \in Saving, work'[b].step \in Saving \cup {"build"},
           work'[b].project = work[b].project
    PROVE  BuildOK'
BY OthersKeep DEF BuildOK, ProjectKnown, CommandFits, StaysWhole, Saving, Caching, Ended, Outcomes,
                  KeyOf, HasCommand

-----------------------------------------------------------------------------
(* The cache.                                                               *)

\* Whatever an entry holds is in a directory that can be evicted.
CacheOK ==
    /\ cached \in [Key -> Tree]
    /\ ages \in Seq(Key) /\ IsInjective(ages) /\ opened \subseteq ToSet(ages)
    /\ \A k \in Key : cached[k] # Nothing => k \in opened

Now == [k \in Key |-> SizeOf(cached[k])]
Written == {KeyOf(b) : b \in {c \in Build : work[c].step = "saving"}}
Settled == Key \ Written

\* The build b has counted the entries that are not written now, but for those
\* in removed; the others that hold something are among its victims, and were
\* not smaller when it counted them.
CutsDown(b, removed) ==
    /\ work[b].step = "evict"
    /\ work[b].total = Weight(work[b].sizes, Key \ removed)
    /\ IsInjective(work[b].victims) /\ ToSet(work[b].victims) \cap removed = {}
    /\ \A k \in Settled : Now[k] > 0 =>
            k \in ToSet(work[b].victims) /\ Now[k] <= work[b].sizes[k]

\* What no build is writing is within the limit, or a build is about to cut it
\* down.
WithinLimit == Weight(Now, Settled) <= Limit
LimitKept ==
    WithinLimit \/ \E b \in Build : \E removed \in SUBSET Key : CutsDown(b, removed)

BuildsInv == BuildOK /\ CacheOK /\ LimitKept

LEMMA NowType == Now \in Weights /\ \A k \in Key : Now[k] = SizeOf(cached[k])
BY SizeType DEF Now, Weights

LEMMA NothingWeighs == ASSUME NEW k \in Key, cached[k] = Nothing PROVE Now[k] = 0
<1>1. {p \in Pkg : Nothing[p] = "full"} = {}
  BY DEF Nothing
<1>2. SizeOf(Nothing) = 0
  BY <1>1, FS_EmptySet DEF SizeOf
<1> QED  BY <1>2, NowType

LEMMA HeavyIsOpen == ASSUME CacheOK, NEW k \in Key, Now[k] > 0 PROVE k \in opened
BY NothingWeighs DEF CacheOK

LEMMA SameWritten ==
    ASSUME NEW b \in Build, Same(b), work[b].step # "saving", work'[b].step # "saving"
    PROVE  Written' = Written /\ Settled' = Settled
<1>1. \A c \in Build : work'[c].step = "saving" <=> work[c].step = "saving"
  BY DEF Same
<1>2. \A c \in Build : work[c].step = "saving" => KeyOf(c)' = KeyOf(c)
  BY DEF Same, KeyOf
<1>3. Written' = Written
  BY <1>1, <1>2 DEF Written
<1> QED  BY <1>3 DEF Settled

\* The entries that are settled have not grown, and the builds that cut the
\* cache down are where they were.
LEMMA LimitStays ==
    ASSUME Typed, LimitKept,
           \A k \in Settled' : Now'[k] > 0 => k \in Settled /\ Now'[k] <= Now[k],
           \A b \in Build : work[b].step = "evict" => work'[b] = work[b]
    PROVE  LimitKept'
<1>1. PICK n \in Weights : n = Now
  BY NowType
<1>2. PICK m \in Weights : m = Now'
  BY SizeType DEF Now, Weights
<1>3. PICK S \in SUBSET Key : S = Settled
  BY DEF Settled
<1>4. PICK T \in SUBSET Key : T = Settled'
  BY DEF Settled
<1>5. \A k \in T : m[k] > 0 => k \in S /\ m[k] <= n[k]
  BY <1>1, <1>2, <1>3, <1>4
<1>6. CASE WithinLimit
  <2>1. Weight(m, T) <= Weight(n, S) /\ Weight(m, T) \in Nat /\ Weight(n, S) \in Nat
    BY <1>5, WeightGrows, WeightType
  <2>2. Weight(n, S) = Weight(Now, Settled) /\ Weight(m, T) = Weight(Now, Settled)'
    BY <1>1, <1>2, <1>3, <1>4
  <2> QED  BY <1>6, <2>1, <2>2, BuildsAssumption DEF WithinLimit, LimitKept
<1>7. ASSUME NEW b \in Build, NEW removed \in SUBSET Key, CutsDown(b, removed)
      PROVE  CutsDown(b, removed)'
  <2>1. work'[b] = work[b]
    BY <1>7 DEF CutsDown
  <2>2. \A k \in Key : n[k] \in Nat /\ m[k] \in Nat /\ work[b].sizes[k] \in Nat
    BY WorkFields, MostType DEF Weights
  <2>3. \A k \in S : n[k] > 0 => k \in ToSet(work[b].victims) /\ n[k] <= work[b].sizes[k]
    BY <1>1, <1>3, <1>7 DEF CutsDown
  <2>4. \A k \in T : m[k] > 0 => k \in ToSet(work[b].victims) /\ m[k] <= work[b].sizes[k]
    BY <1>5, <2>2, <2>3
  <2>5. \A k \in Settled' : Now'[k] > 0 =>
            k \in ToSet(work'[b].victims) /\ Now'[k] <= work'[b].sizes[k]
    BY <1>2, <1>4, <2>1, <2>4
  <2> QED  BY <1>7, <2>1, <2>5 DEF CutsDown
<1> QED  BY <1>6, <1>7 DEF LimitKept

LEMMA CacheInit == BuildsInit => CacheOK /\ LimitKept
<1> SUFFICES ASSUME BuildsInit PROVE CacheOK /\ LimitKept
  OBVIOUS
<1>1. ToSet(Cached) \in SUBSET Key
  BY BuildsAssumption DEF ToSet
<1>2. CacheOK
  BY <1>1, BuildsAssumption DEF BuildsInit, CacheOK, Whole, Nothing, Tree
<1>3. \A k \in Key : Now[k] = IF k \in ToSet(Cached) THEN Most ELSE 0
  <2>1. \A k \in Key \ ToSet(Cached) : Now[k] = 0
    BY NothingWeighs DEF BuildsInit
  <2>2. {p \in Pkg : Whole[p] = "full"} = Pkg
    BY DEF Whole
  <2>3. \A k \in ToSet(Cached) : Now[k] = Most
    BY <1>1, <2>2, NowType DEF BuildsInit, SizeOf, Most
  <2> QED  BY <2>1, <2>3
<1>4. Pairs(Now, Key) = ToSet(Cached) \X (1..Most)
  <2>1. \A k \in Key : {k} \X (1..Now[k]) =
                           IF k \in ToSet(Cached) THEN {k} \X (1..Most) ELSE {}
    BY <1>3
  <2> QED  BY <1>1, <2>1 DEF Pairs
<1>5. IsFiniteSet(ToSet(Cached)) /\ IsFiniteSet(Pkg) /\ IsFiniteSet(1..Most)
      /\ Cardinality(1..Most) = Most
  BY <1>1, BuildsAssumption, FS_Subset, FS_Interval, MostType
<1>6. Cardinality(ToSet(Cached) \X (1..Most)) = Cardinality(ToSet(Cached)) * Most
  BY <1>5, FS_Product
<1>7. Cardinality(ToSet(Cached) \X Pkg) = Cardinality(ToSet(Cached)) * Most
  BY <1>5, FS_Product DEF Most
<1>8. Weight(Now, Key) <= Limit
  BY <1>4, <1>6, <1>7, BuildsAssumption DEF Weight
<1>9. Settled = Key
  BY DEF BuildsInit, Settled, Written, Waiting
<1> QED  BY <1>2, <1>8, <1>9 DEF LimitKept, WithinLimit

LEMMA QuietKeeps ==
    ASSUME BuildsInv, NEW b \in Build, Quiet(b), UNCHANGED cache PROVE CacheOK' /\ LimitKept'
<1>1. CacheOK'
  BY DEF BuildsInv, CacheOK, cache
<1>2. Written' = Written /\ \A c \in Build : work[c].step = "evict" => work'[c] = work[c]
  BY DEF Quiet, Same, Written, KeyOf
<1>3. \A k \in Settled' : Now'[k] > 0 => k \in Settled /\ Now'[k] <= Now[k]
  <2>1. Now' = Now /\ Settled' = Settled
    BY <1>2 DEF Now, Settled, cache
  <2> QED  BY <2>1, NowType, MostType DEF Settled, Weights
<1> QED  BY <1>1, <1>2, <1>3, LimitStays DEF BuildsInv, BuildOK

LEMMA RestoredKeeps ==
    ASSUME BuildsInv, NEW b \in Build, Quiet(b), Restored(b) PROVE CacheOK' /\ LimitKept'
<1>1. PICK k \in Key : k = KeyOf(b)
  BY DEF Restored, BuildsInv, BuildOK, ProjectKnown, Caching
<1>2. CacheOK'
  BY <1>1, TouchedKey DEF BuildsInv, CacheOK, Restored
<1>3. Written' = Written /\ \A c \in Build : work[c].step = "evict" => work'[c] = work[c]
  BY DEF Quiet, Same, Written, KeyOf
<1>4. \A j \in Settled' : Now'[j] > 0 => j \in Settled /\ Now'[j] <= Now[j]
  <2>1. Now' = Now /\ Settled' = Settled
    BY <1>3 DEF Now, Settled, Restored
  <2> QED  BY <2>1, NowType, MostType DEF Settled, Weights
<1> QED  BY <1>2, <1>3, <1>4, LimitStays DEF BuildsInv, BuildOK

\* Only the entry k changes, and it is written, or empty, after the step.
LEMMA OneEntry ==
    ASSUME BuildsInv, NEW b \in Build, NEW k \in Key, Same(b), work[b].step # "evict",
           \A j \in Key \ {k} : cached'[j] = cached[j],
           Written \subseteq Written' \cup {k}, k \in Written' \/ cached'[k] = Nothing
    PROVE  LimitKept'
<1>0. PICK m \in Weights : m = Now'
  BY SizeType DEF Now, Weights
<1>1. m = Now' /\ \A j \in Key : m[j] = SizeOf(cached'[j])
  BY <1>0 DEF Now
<1>2. cached'[k] = Nothing => m[k] = 0
  <2>1. {p \in Pkg : Nothing[p] = "full"} = {}
    BY DEF Nothing
  <2>2. SizeOf(Nothing) = 0
    BY <2>1, FS_EmptySet DEF SizeOf
  <2> QED  BY <1>1, <2>2
<1>3. ASSUME NEW j \in Settled', Now'[j] > 0  PROVE j \in Settled /\ Now'[j] <= Now[j]
  <2>1. j \in Key /\ j \notin Written' /\ j # k
    BY <1>1, <1>2, <1>3 DEF Settled
  <2>2. m[j] = Now[j] /\ m[j] \in Nat
    BY <1>1, <2>1, NowType, MostType DEF Weights
  <2> QED  BY <1>1, <2>1, <2>2 DEF Settled
<1>4. \A c \in Build : work[c].step = "evict" => work'[c] = work[c]
  BY DEF Same
<1> QED  BY <1>3, <1>4, LimitStays DEF BuildsInv, BuildOK

LEMMA SaveOpenKeeps ==
    ASSUME BuildsInv, NEW b \in Build, SaveOpen(b) PROVE BuildsInv'
<1>1. PICK k \in Key : k = KeyOf(b)
  BY DEF SaveOpen, BuildsInv, BuildOK, ProjectKnown, Caching, Saving
<1>2. /\ Typed' /\ Same(b) /\ work'[b].step = "saving" /\ work'[b].project = work[b].project
  BY TodoMoves DEF SaveOpen, BuildsInv, BuildOK, Steps, Caching, Saving
<1>3. BuildOK'
  BY <1>2, SavesKeep DEF SaveOpen, BuildsInv, Saving
<1>4. cached' = [cached EXCEPT ![k] = Nothing] /\ opened' = opened \ {k}
      /\ ages' = IF k \in opened \/ k \notin ToSet(ages) THEN Touched(k) ELSE ages
  BY <1>1 DEF SaveOpen
<1>5. /\ ages' \in Seq(Key) /\ IsInjective(ages') /\ ToSet(ages) \subseteq ToSet(ages')
  BY <1>4, TouchedKey DEF BuildsInv, CacheOK
<1>6. CacheOK'
  BY <1>4, <1>5 DEF BuildsInv, CacheOK, Tree, Nothing
<1>7. Written \subseteq Written' \cup {k}
  BY <1>2 DEF Same, Written, KeyOf, SaveOpen
<1>8. LimitKept'
  <2>1. cached'[k] = Nothing /\ \A j \in Key \ {k} : cached'[j] = cached[j]
    BY <1>4 DEF BuildsInv, CacheOK
  <2> QED  BY <1>2, <1>7, <2>1, OneEntry DEF SaveOpen
<1> QED  BY <1>3, <1>6, <1>8 DEF BuildsInv

LEMMA SavePackageKeeps ==
    ASSUME BuildsInv, NEW b \in Build, NEW p \in Pkg, SavePackage(b, p) PROVE BuildsInv'
<1>1. PICK k \in Key : k = KeyOf(b)
  BY DEF SavePackage, BuildsInv, BuildOK, ProjectKnown, Caching, Saving
<1>2. /\ Typed' /\ Same(b) /\ work'[b].step = "saving" /\ work'[b].project = work[b].project
  <2>1. PICK t \in SUBSET Pkg : t = work[b].todo \ {p}
    BY WorkFields DEF BuildsInv, BuildOK
  <2>2. work' = [work EXCEPT ![b].todo = t, ![b].inside = p]
    BY <2>1 DEF SavePackage, BuildsInv, BuildOK, Typed
  <2> QED  BY <2>2, PackageMoves DEF SavePackage, BuildsInv, BuildOK
<1>3. BuildOK'
  BY <1>2, SavesKeep DEF SavePackage, BuildsInv, Saving
<1>4. cached' = [cached EXCEPT ![k][p] = IF @ = "none" THEN "dir" ELSE @]
      /\ opened' = opened \cup {k}
      /\ ages' = IF k \in opened THEN ages ELSE Touched(k)
  BY <1>1 DEF SavePackage
<1>5. /\ ages' \in Seq(Key) /\ IsInjective(ages') /\ ToSet(ages') = ToSet(ages) \cup {k}
  BY <1>4, TouchedKey DEF BuildsInv, CacheOK
<1>6. cached' \in [Key -> Tree] /\ \A j \in Key \ {k} : cached'[j] = cached[j]
  BY <1>4 DEF BuildsInv, CacheOK, Tree
<1>7. CacheOK'
  BY <1>4, <1>5, <1>6 DEF BuildsInv, CacheOK
<1>8. Written \subseteq Written' \cup {k} /\ k \in Written'
  BY <1>1, <1>2 DEF Same, Written, KeyOf
<1>9. LimitKept'
  BY <1>2, <1>6, <1>8, OneEntry DEF SavePackage
<1> QED  BY <1>3, <1>7, <1>9 DEF BuildsInv

LEMMA SaveFileKeeps ==
    ASSUME BuildsInv, NEW b \in Build, SaveFile(b) PROVE BuildsInv'
<1>1. PICK k \in Key : k = KeyOf(b)
  BY DEF SaveFile, BuildsInv, BuildOK, ProjectKnown, Caching, Saving
<1>2. CASE SaveFails(b)
  <2>1. /\ Typed' /\ Same(b) /\ work'[b].step = "build" /\ work'[b].project = work[b].project
    BY <1>2, InsideMoves DEF SaveFails, BuildsInv, BuildOK, Steps
  <2>2. BuildOK'
    BY <2>1, SavesKeep DEF SaveFile, BuildsInv, Saving
  <2>3. cached' = [cached EXCEPT ![k] = Nothing] /\ opened' = opened \ {k}
        /\ ages' = IF k \in opened THEN Touched(k) ELSE ages
    BY <1>1, <1>2 DEF SaveFails
  <2>4. /\ ages' \in Seq(Key) /\ IsInjective(ages') /\ ToSet(ages) \subseteq ToSet(ages')
    BY <2>3, TouchedKey DEF BuildsInv, CacheOK
  <2>5. CacheOK'
    BY <2>3, <2>4 DEF BuildsInv, CacheOK, Tree, Nothing
  <2>6. Written \subseteq Written' \cup {k}
    BY <1>1, <2>1 DEF Same, Written, KeyOf
  <2>7. LimitKept'
    <3>1. cached'[k] = Nothing /\ \A j \in Key \ {k} : cached'[j] = cached[j]
      BY <2>3 DEF BuildsInv, CacheOK
    <3> QED  BY <2>1, <2>6, <3>1, OneEntry DEF SaveFile
  <2> QED  BY <2>2, <2>5, <2>7 DEF BuildsInv
<1>3. CASE ~SaveFails(b)
  <2>1. PICK i \in Pkg : i = work[b].inside
    BY WorkFields DEF SaveFile, BuildsInv, BuildOK
  <2>2. /\ cached[k][i] # "none" /\ cached' = [cached EXCEPT ![k][i] = "full"]
        /\ UNCHANGED <<opened, ages, own, child>>
        /\ work' = [work EXCEPT ![b].inside = Absent]
    BY <1>1, <1>3, <2>1 DEF SaveFile
  <2>3. /\ Typed' /\ Same(b) /\ work'[b].step = "saving" /\ work'[b].project = work[b].project
    BY <2>2, FileMoves DEF SaveFile, BuildsInv, BuildOK
  <2>4. BuildOK'
    BY <2>3, SavesKeep DEF SaveFile, BuildsInv, Saving
  <2>5. cached' \in [Key -> Tree] /\ \A j \in Key \ {k} : cached'[j] = cached[j]
    BY <2>2 DEF BuildsInv, CacheOK, Tree
  <2>6. k \in opened
    BY <2>2 DEF BuildsInv, CacheOK, Nothing
  <2>7. CacheOK'
    BY <2>2, <2>5, <2>6 DEF BuildsInv, CacheOK
  <2>8. Written \subseteq Written' \cup {k} /\ k \in Written'
    BY <1>1, <2>3 DEF Same, Written, KeyOf
  <2>9. LimitKept'
    BY <2>3, <2>5, <2>8, OneEntry DEF SaveFile
  <2> QED  BY <2>4, <2>7, <2>9 DEF BuildsInv
<1> QED  BY <1>2, <1>3

LEMMA EvictScanKeeps ==
    ASSUME BuildsInv, NEW b \in Build, EvictScan(b) PROVE BuildsInv'
<1>1. PICK z \in Weights : z = Now
  BY NowType
<1>2. PICK v \in Seq(Key) : v = ages
  BY DEF BuildsInv, CacheOK
<1>3. ToSet(v) \in SUBSET Key
  BY <1>2 DEF ToSet
<1>4. Weight(z, ToSet(v)) \in Nat /\ Weight(z, ToSet(v)) = Weight(z, Key)
  <2>1. \A k \in Key : z[k] > 0 => k \in ToSet(v)
    BY <1>1, <1>2, HeavyIsOpen DEF BuildsInv, CacheOK
  <2>2. \A k \in Key : z[k] <= z[k]
    BY MostType DEF Weights
  <2>3. Weight(z, Key) <= Weight(z, ToSet(v)) /\ Weight(z, ToSet(v)) <= Weight(z, Key)
    BY <1>3, <2>1, <2>2, WeightGrows
  <2>4. Weight(z, Key) \in Nat /\ Weight(z, ToSet(v)) \in Nat
    BY <1>3, WeightType
  <2> QED  BY <2>3, <2>4
<1>5. PICK n \in Int : n = Weight(z, ToSet(v))
  BY <1>4
<1>6. Total([k \in Key |-> SizeOf(cached[k])]) = n
  BY <1>1, <1>2, <1>5 DEF Total, Weight, Pairs, Now
<1>7. /\ work' = [work EXCEPT ![b].step = "evict", ![b].victims = v, ![b].sizes = z, ![b].total = n]
      /\ UNCHANGED <<own, cached, opened, ages, child>> /\ work[b].step = "saving"
  BY <1>1, <1>2, <1>6 DEF EvictScan, Victims, Now, cache
<1>8. /\ Typed' /\ Same(b) /\ work'[b].step = "evict" /\ work'[b].project = work[b].project
      /\ Tally(b, v, z, n)'
  <2>1. Typed /\ "evict" \in Steps
    BY DEF BuildsInv, BuildOK, Steps, Caching, Saving
  <2>2. work' = [work EXCEPT ![b].step = "evict", ![b].victims = v, ![b].sizes = z, ![b].total = n]
    BY <1>7
  <2> QED  BY <2>1, <2>2, ScanMoves
<1>9. BuildOK'
  BY <1>7, <1>8, SavesKeep DEF BuildsInv, Saving
<1>10. CacheOK'
  BY <1>7 DEF BuildsInv, CacheOK
<1>11. CutsDown(b, {})'
  <2>1. Now' = z
    BY <1>1, <1>7 DEF Now
  <2>2. \A k \in Key : z[k] > 0 => k \in ToSet(v)
    BY <1>1, <1>2, HeavyIsOpen DEF BuildsInv, CacheOK
  <2>3. \A k \in Key : z[k] <= z[k]
    BY MostType DEF Weights
  <2>4. \A k \in Settled' : Now'[k] > 0 =>
            k \in ToSet(work'[b].victims) /\ Now'[k] <= work'[b].sizes[k]
    BY <1>8, <2>1, <2>2, <2>3 DEF Settled, Tally
  <2>5. IsInjective(v) /\ Key \ {} = Key
    BY <1>2 DEF BuildsInv, CacheOK
  <2> QED  BY <1>4, <1>5, <1>8, <2>4, <2>5 DEF CutsDown, Tally
<1>12. LimitKept'
  BY <1>11 DEF LimitKept
<1> QED  BY <1>9, <1>10, <1>12 DEF BuildsInv

LEMMA EvictEndKeeps ==
    ASSUME BuildsInv, NEW b \in Build, EvictEnd(b) PROVE BuildsInv'
<1>1. [k \in Key |-> 0] \in Weights /\ <<>> \in Seq(Key)
  BY MostType DEF Weights
<1>2. PICK z \in Weights : z = [k \in Key |-> 0]
  BY <1>1
<1>3. PICK v \in Seq(Key) : v = <<>>
  BY <1>1
<1>4. /\ Typed' /\ Same(b) /\ work'[b].step = "build" /\ work'[b].project = work[b].project
  <2>1. Typed /\ "build" \in Steps /\ 0 \in Int
    BY DEF BuildsInv, BuildOK, Steps
  <2>2. work' = [work EXCEPT ![b].step = "build", ![b].victims = v, ![b].sizes = z, ![b].total = 0]
    BY <1>2, <1>3 DEF EvictEnd
  <2> QED  BY <2>1, <2>2, ScanMoves
<1>5. BuildOK'
  BY <1>4, SavesKeep DEF EvictEnd, BuildsInv, Saving
<1>6. UNCHANGED <<cached, opened, ages>>
  BY DEF EvictEnd, cache
<1>7. CacheOK'
  BY <1>6 DEF BuildsInv, CacheOK
<1>8. Now' = Now /\ Settled' = Settled
  <2>1. Now' = Now
    BY <1>6 DEF Now
  <2> QED  BY <1>4, <2>1, SameWritten DEF EvictEnd
<1>9. LimitKept'
  <2>1. CASE WithinLimit
    BY <1>8, <2>1 DEF LimitKept, WithinLimit
  <2>2. ASSUME NEW c \in Build \ {b}, NEW removed \in SUBSET Key, CutsDown(c, removed)
        PROVE  LimitKept'
    <3>1. CutsDown(c, removed)'
      BY <1>4, <1>8, <2>2 DEF CutsDown, Same
    <3> QED  BY <3>1 DEF LimitKept
  <2>3. ASSUME NEW removed \in SUBSET Key, CutsDown(b, removed)  PROVE LimitKept'
    <3>1. PICK n \in Weights : n = Now
      BY NowType
    <3>2. PICK S \in SUBSET Key : S = Settled
      BY DEF Settled
    <3>3. PICK f \in Weights : f = work[b].sizes
      BY WorkFields DEF BuildsInv, BuildOK
    <3>4. \A k \in S : n[k] > 0 => k \in ToSet(work[b].victims) /\ n[k] <= f[k]
      BY <2>3, <3>1, <3>2, <3>3 DEF CutsDown
    <3>5. Weight(n, S) <= Limit
      <4>1. CASE work[b].total <= Limit
        <5>1. \A k \in S : n[k] > 0 => k \in Key \ removed /\ n[k] <= f[k]
          BY <2>3, <3>4 DEF CutsDown
        <5>2. Weight(n, S) <= Weight(f, Key \ removed) /\ Weight(n, S) \in Nat
          BY <5>1, WeightGrows, WeightType
        <5>3. Weight(f, Key \ removed) = work[b].total
          BY <2>3, <3>3 DEF CutsDown
        <5>4. work[b].total \in Int
          BY WorkFields DEF BuildsInv, BuildOK
        <5> QED  BY <4>1, <5>2, <5>3, <5>4, BuildsAssumption
      <4>2. CASE work[b].victims = <<>>
        <5>1. \A k \in S : n[k] = 0
          BY <3>4, <4>2, MostType DEF Weights, ToSet
        <5> QED  BY <5>1, NoWeight, BuildsAssumption
      <4> QED  BY <4>1, <4>2 DEF EvictEnd, EvictDone
    <3> QED  BY <1>8, <3>1, <3>2, <3>5 DEF LimitKept, WithinLimit
  <2> QED  BY <2>1, <2>2, <2>3 DEF BuildsInv, LimitKept
<1> QED  BY <1>5, <1>7, <1>9 DEF BuildsInv

\* The victims of a build that goes on to the next.
LEMMA NextVictim ==
    ASSUME NEW v \in Seq(Key), v # <<>>
    PROVE  /\ Head(v) \in Key /\ Tail(v) \in Seq(Key) /\ ToSet(v) = {Head(v)} \cup ToSet(Tail(v))
           /\ IsInjective(v) => IsInjective(Tail(v)) /\ Head(v) \notin ToSet(Tail(v))
<1>1. /\ Len(v) \in Nat /\ Len(v) > 0 /\ DOMAIN v = 1..Len(v)
      /\ \A i \in 1..Len(v) : v[i] \in Key
  OBVIOUS
<1>0. Tail(v) \in Seq(Key)
  OBVIOUS
<1>2. PICK t \in Seq(Key) : t = Tail(v)
  BY <1>0
<1>3. /\ DOMAIN t = 1..(Len(v) - 1) /\ \A i \in 1..(Len(v) - 1) : t[i] = v[i + 1]
  BY <1>1, <1>2
<1>4. Head(v) = v[1] /\ Head(v) \in Key
  BY <1>1
<1>5. ToSet(v) = {v[1]} \cup ToSet(t)
  <2>1. ASSUME NEW x \in ToSet(v) PROVE x = v[1] \/ x \in ToSet(t)
    <3>1. PICK i \in 1..Len(v) : x = v[i]
      BY <1>1, <2>1 DEF ToSet
    <3>2. CASE i = 1
      BY <3>1, <3>2
    <3>3. CASE i # 1
      <4>1. i - 1 \in 1..(Len(v) - 1) /\ t[i - 1] = x
        BY <1>1, <1>3, <3>1, <3>3
      <4> QED  BY <1>3, <4>1 DEF ToSet
    <3> QED  BY <3>2, <3>3
  <2>2. ASSUME NEW x \in ToSet(t) PROVE x \in ToSet(v)
    <3>1. PICK i \in 1..(Len(v) - 1) : x = t[i]
      BY <1>3, <2>2 DEF ToSet
    <3> QED  BY <1>1, <1>3, <3>1 DEF ToSet
  <2>3. v[1] \in ToSet(v)
    BY <1>1 DEF ToSet
  <2> QED  BY <2>1, <2>2, <2>3
<1>6. ASSUME IsInjective(v) PROVE IsInjective(t) /\ v[1] \notin ToSet(t)
  <2>1. \A i, j \in 1..Len(v) : v[i] = v[j] => i = j
    BY <1>1, <1>6 DEF IsInjective
  <2>2. IsInjective(t)
    BY <1>1, <1>3, <2>1 DEF IsInjective
  <2>3. ASSUME NEW i \in 1..(Len(v) - 1), t[i] = v[1] PROVE FALSE
    BY <1>1, <1>3, <2>1, <2>3
  <2> QED  BY <1>3, <2>2, <2>3 DEF ToSet
<1> QED  BY <1>2, <1>4, <1>5, <1>6

\* The oldest of the victims is not there any more.
LEMMA EvictedKeeps ==
    ASSUME BuildsInv, NEW b \in Build, NEW k \in Key, NEW rest \in Seq(Key), NEW left \in Int,
           work[b].step = "evict", work[b].victims # <<>>,
           k = Head(work[b].victims), rest = Tail(work[b].victims),
           left = work[b].total - work[b].sizes[k],
           work' = [work EXCEPT ![b].victims = rest, ![b].total = left],
           cached' = [cached EXCEPT ![k] = Nothing], opened' = opened \ {k},
           ages' = Without(ages, k), UNCHANGED <<own, child>>
    PROVE  BuildsInv'
<1>1. /\ Typed' /\ Same(b) /\ work'[b].step = "evict" /\ work'[b].project = work[b].project
      /\ work'[b].sizes = work[b].sizes /\ work'[b].victims = rest /\ work'[b].total = left
  BY EvictMoves DEF BuildsInv, BuildOK
<1>2. BuildOK'
  BY <1>1, SavesKeep DEF BuildsInv, Saving
<1>3. CacheOK'
  <2>1. /\ ages' \in Seq(Key) /\ IsInjective(ages') /\ ToSet(ages') = ToSet(ages) \ {k}
    BY WithoutKey DEF BuildsInv, CacheOK
  <2> QED  BY <2>1 DEF BuildsInv, CacheOK, Tree, Nothing
<1>4. PICK n \in Weights : n = Now
  BY NowType
<1>5. PICK m \in Weights : m = Now'
  BY SizeType DEF Now, Weights
<1>6. PICK S \in SUBSET Key : S = Settled
  BY DEF Settled
<1>7. Settled' = S
  BY <1>1, <1>6, SameWritten
<1>8. m[k] = 0 /\ \A j \in Key \ {k} : m[j] = n[j]
  <2>1. {p \in Pkg : Nothing[p] = "full"} = {}
    BY DEF Nothing
  <2>2. SizeOf(Nothing) = 0
    BY <2>1, FS_EmptySet DEF SizeOf
  <2>3. \A j \in Key : cached'[j] = IF j = k THEN Nothing ELSE cached[j]
    BY DEF BuildsInv, CacheOK
  <2>4. \A j \in Key : m[j] = SizeOf(cached'[j])
    BY <1>5 DEF Now
  <2> QED  BY <1>4, <2>2, <2>3, <2>4, NowType
<1>9. \A j \in Key : m[j] \in Nat /\ n[j] \in Nat /\ m[j] <= n[j]
  <2> SUFFICES ASSUME NEW j \in Key
               PROVE  m[j] \in Nat /\ n[j] \in Nat /\ m[j] <= n[j]
    OBVIOUS
  <2>1. m[j] \in Nat /\ n[j] \in Nat
    BY MostType DEF Weights
  <2>2. m[j] = 0 \/ m[j] = n[j]
    BY <1>8
  <2> QED  BY <2>1, <2>2
<1>10. ASSUME WithinLimit PROVE LimitKept'
  <2>1. Weight(m, S) <= Weight(n, S) /\ Weight(m, S) \in Nat /\ Weight(n, S) \in Nat
    BY <1>9, WeightGrows, WeightType
  <2>2. Weight(n, S) <= Limit
    BY <1>4, <1>6, <1>10 DEF WithinLimit
  <2>3. Weight(m, S) <= Limit
    BY <2>1, <2>2, BuildsAssumption
  <2> QED  BY <1>5, <1>7, <2>3 DEF WithinLimit, LimitKept
<1>11. ASSUME NEW c \in Build \ {b}, NEW removed \in SUBSET Key, CutsDown(c, removed)
       PROVE  LimitKept'
  <2>1. work'[c] = work[c]
    BY <1>1 DEF Same
  <2>2. \A j \in Key : work[c].sizes[j] \in Nat
    BY WorkFields, MostType DEF Weights, BuildsInv, BuildOK
  <2>3. \A j \in S : n[j] > 0 => j \in ToSet(work[c].victims) /\ n[j] <= work[c].sizes[j]
    BY <1>4, <1>6, <1>11 DEF CutsDown
  <2>4. \A j \in S : m[j] > 0 => j \in ToSet(work[c].victims) /\ m[j] <= work[c].sizes[j]
    BY <1>9, <2>2, <2>3
  <2>5. \A j \in Settled' : Now'[j] > 0 =>
            j \in ToSet(work'[c].victims) /\ Now'[j] <= work'[c].sizes[j]
    BY <1>5, <1>7, <2>1, <2>4
  <2>6. CutsDown(c, removed)'
    BY <1>11, <2>1, <2>5 DEF CutsDown
  <2> QED  BY <2>6 DEF LimitKept
<1>12. ASSUME NEW removed \in SUBSET Key, CutsDown(b, removed)
       PROVE  CutsDown(b, removed \cup {k})'
  <2>1. PICK v \in Seq(Key) : v = work[b].victims
    BY WorkFields DEF BuildsInv, BuildOK
  <2>2. PICK f \in Weights : f = work[b].sizes
    BY WorkFields DEF BuildsInv, BuildOK
  <2>3. /\ ToSet(v) = {k} \cup ToSet(rest) /\ IsInjective(v)
        /\ IsInjective(rest) /\ k \notin ToSet(rest)
    BY <1>12, <2>1, NextVictim DEF CutsDown
  <2>4. ToSet(v) \cap removed = {} /\ k \notin removed
    BY <1>12, <2>1, <2>3 DEF CutsDown
  <2>5. left = Weight(f, Key \ (removed \cup {k}))
    <3>1. PICK counted \in SUBSET Key : counted = Key \ removed
      OBVIOUS
    <3>2. PICK fewer \in SUBSET Key : fewer = Key \ (removed \cup {k})
      OBVIOUS
    <3>3. k \in counted /\ counted \ {k} = fewer
      BY <2>4, <3>1, <3>2
    <3>4. Weight(f, counted) = Weight(f, fewer) + f[k]
      BY <3>3, WeightLess
    <3>5. f[k] \in Nat /\ Weight(f, fewer) \in Nat
      <4>1. f[k] \in Nat
        BY MostType DEF Weights
      <4> QED  BY <4>1, WeightType
    <3>6. left = Weight(f, counted) - f[k]
      BY <1>12, <2>2, <3>1 DEF CutsDown
    <3>7. left = Weight(f, fewer)
      BY <3>4, <3>5, <3>6
    <3> QED  BY <3>2, <3>7
  <2>6. \A j \in S : n[j] > 0 => j \in ToSet(v) /\ n[j] <= f[j]
    BY <1>4, <1>6, <1>12, <2>1, <2>2 DEF CutsDown
  <2>7. \A j \in S : m[j] > 0 => j \in ToSet(rest) /\ m[j] <= f[j]
    <3> SUFFICES ASSUME NEW j \in S, m[j] > 0 PROVE j \in ToSet(rest) /\ m[j] <= f[j]
      OBVIOUS
    <3>1. j # k /\ m[j] = n[j]
      BY <1>8, <1>9
    <3> QED  BY <2>3, <2>6, <3>1
  <2>8. \A j \in Settled' : Now'[j] > 0 =>
            j \in ToSet(work'[b].victims) /\ Now'[j] <= work'[b].sizes[j]
    BY <1>1, <1>5, <1>7, <2>2, <2>7
  <2> QED  BY <1>1, <2>2, <2>3, <2>4, <2>5, <2>8 DEF CutsDown
<1>13. LimitKept'
  <2>1. ASSUME NEW removed \in SUBSET Key, CutsDown(b, removed)  PROVE LimitKept'
    <3>1. removed \cup {k} \in SUBSET Key
      OBVIOUS
    <3> QED  BY <1>12, <2>1, <3>1 DEF LimitKept
  <2> QED  BY <1>10, <1>11, <2>1 DEF BuildsInv, LimitKept
<1> QED  BY <1>2, <1>3, <1>13 DEF BuildsInv

\* The oldest of the victims is not removed: another build has removed it, or
\* writes it.
LEMMA SkippedKeeps ==
    ASSUME BuildsInv, NEW b \in Build, NEW k \in Key, NEW rest \in Seq(Key),
           work[b].step = "evict", work[b].victims # <<>>,
           k = Head(work[b].victims), rest = Tail(work[b].victims),
           k \notin ToSet(ages) \/ k \in Written,
           work' = [work EXCEPT ![b].victims = rest],
           UNCHANGED <<cached, opened, ages, own, child>>
    PROVE  BuildsInv'
<1>1. /\ Typed' /\ Same(b) /\ work'[b].step = "evict" /\ work'[b].project = work[b].project
      /\ work'[b].sizes = work[b].sizes /\ work'[b].victims = rest
      /\ work'[b].total = work[b].total
  BY SkipMoves DEF BuildsInv, BuildOK
<1>2. BuildOK'
  BY <1>1, SavesKeep DEF BuildsInv, Saving
<1>3. CacheOK'
  BY DEF BuildsInv, CacheOK
<1>4. Now' = Now /\ Settled' = Settled
  BY <1>1, SameWritten DEF Now
<1>5. ASSUME WithinLimit PROVE LimitKept'
  <2>1. Weight(Now', Settled') <= Limit
    BY <1>4, <1>5 DEF WithinLimit
  <2> QED  BY <2>1 DEF LimitKept, WithinLimit
<1>6. ASSUME NEW c \in Build \ {b}, NEW removed \in SUBSET Key, CutsDown(c, removed)
      PROVE  LimitKept'
  <2>1. CutsDown(c, removed)'
    BY <1>1, <1>4, <1>6 DEF CutsDown, Same
  <2> QED  BY <2>1 DEF LimitKept
<1>7. ASSUME NEW removed \in SUBSET Key, CutsDown(b, removed)  PROVE LimitKept'
  <2>1. PICK v \in Seq(Key) : v = work[b].victims
    BY WorkFields DEF BuildsInv, BuildOK
  <2>2. /\ ToSet(v) = {k} \cup ToSet(rest) /\ IsInjective(rest)
    BY <1>7, <2>1, NextVictim DEF CutsDown
  <2>3. k \in Settled => ~(Now[k] > 0)
    BY HeavyIsOpen DEF BuildsInv, CacheOK, Settled
  <2>4. \A j \in Settled : Now[j] > 0 => j \in ToSet(rest) /\ Now[j] <= work[b].sizes[j]
    BY <1>7, <2>1, <2>2, <2>3 DEF CutsDown
  <2>5. CutsDown(b, removed)'
    BY <1>1, <1>4, <1>7, <2>1, <2>2, <2>4 DEF CutsDown
  <2> QED  BY <2>5 DEF LimitKept
<1> QED  BY <1>2, <1>3, <1>5, <1>6, <1>7 DEF BuildsInv, LimitKept

LEMMA EvictKeeps ==
    ASSUME BuildsInv, NEW b \in Build, Evict(b) PROVE BuildsInv'
<1>1. /\ work[b].step = "evict" /\ work[b].victims # <<>> /\ work[b].victims \in Seq(Key)
      /\ work[b].total \in Int /\ work[b].sizes \in Weights
  BY WorkFields DEF Evict, EvictDone, BuildsInv, BuildOK
<1>2. PICK k \in Key : k = Head(work[b].victims)
  BY <1>1
<1>3. PICK rest \in Seq(Key) : rest = Tail(work[b].victims)
  BY <1>1, NextVictim
<1>4. CASE /\ cached' = [cached EXCEPT ![k] = Nothing] /\ opened' = opened \ {k}
           /\ ages' = Without(ages, k)
           /\ work' = [work EXCEPT ![b].victims = Tail(@), ![b].total = @ - work[b].sizes[k]]
  <2>1. PICK left \in Int : left = work[b].total - work[b].sizes[k]
    BY <1>1, MostType DEF Weights
  <2>2. work' = [work EXCEPT ![b].victims = rest, ![b].total = left]
    BY <1>3, <1>4, <2>1 DEF BuildsInv, BuildOK, Typed, Working
  <2> QED  BY <1>1, <1>2, <1>3, <1>4, <2>1, <2>2, EvictedKeeps DEF Evict
<1>5. CASE /\ \/ k \notin ToSet(ages)
              \/ \E c \in Build \ {b} : work[c].step = "saving" /\ KeyOf(c) = k
           /\ work' = [work EXCEPT ![b].victims = Tail(@)]
           /\ UNCHANGED cache
  <2>1. work' = [work EXCEPT ![b].victims = rest]
    BY <1>3, <1>5 DEF BuildsInv, BuildOK, Typed
  <2>2. k \notin ToSet(ages) \/ k \in Written
    BY <1>5 DEF Written
  <2> QED  BY <1>1, <1>2, <1>3, <1>5, <2>1, <2>2, SkippedKeeps DEF Evict, cache
<1> QED  BY <1>2, <1>4, <1>5 DEF Evict

-----------------------------------------------------------------------------
(* What a build may do to the cache, and to another build.                  *)

LEMMA BuildsInitInv == BuildsInit => BuildsInv
BY BuildInit, CacheInit DEF BuildsInv

LEMMA BuildsStepInv == ASSUME BuildsInv, [BuildsNext]_buildVars PROVE BuildsInv'
<1>1. CASE UNCHANGED buildVars
  <2>1. UNCHANGED <<work, own, cached, opened, ages, child>>
    BY <1>1 DEF buildVars
  <2>2. BuildOK'
    BY <2>1 DEF BuildsInv, BuildOK, Typed, ProjectKnown, CommandFits, StaysWhole, KeyOf, HasCommand
  <2>3. CacheOK'
    BY <2>1 DEF BuildsInv, CacheOK
  <2>4. Now' = Now /\ Settled' = Settled
    BY <2>1 DEF Now, Settled, Written, KeyOf
  <2>5. WithinLimit' <=> WithinLimit
    BY <2>4 DEF WithinLimit
  <2>6. \A b \in Build : \A removed \in SUBSET Key : CutsDown(b, removed) => CutsDown(b, removed)'
    BY <2>1, <2>4 DEF CutsDown
  <2>7. LimitKept'
    BY <2>5, <2>6, Zenon DEF BuildsInv, LimitKept
  <2> QED  BY <2>2, <2>3, <2>7 DEF BuildsInv
<1>2. ASSUME NEW b \in Build, BuildsStep(b)  PROVE BuildsInv'
  <2>1. CASE Start(b) \/ RestoreOpen(b) \/ RestoreFile(b) \/ \E p \in Pkg : RestorePackage(b, p)
    <3>1. UNCHANGED cache
      BY <2>1 DEF Start, RestoreOpen, RestoreFile, RestorePackage, RestoreFails
    <3> QED  BY <2>1, <3>1, StartKeeps, RestoreKeeps, QuietKeeps DEF BuildsInv
  <2>2. CASE Restored(b)
    BY <2>2, RestoreKeeps, RestoredKeeps DEF BuildsInv
  <2>3. CASE \/ NoInstall(b) \/ Spawn(b) \/ Writes(b) \/ Exits(b) \/ HeirEnds(b) \/ Read(b)
             \/ Joined(b) \/ Kill(b)
    <3>1. UNCHANGED cache
      BY <2>3 DEF NoInstall, Spawn, Writes, Exits, HeirEnds, Read, Joined, Kill
    <3> QED  BY <2>3, <3>1, CommandKeeps, QuietKeeps DEF BuildsInv
  <2>4. CASE SaveOpen(b) \/ SaveFile(b) \/ \E p \in Pkg : SavePackage(b, p)
    BY <2>4, SaveOpenKeeps, SaveFileKeeps, SavePackageKeeps
  <2>5. CASE EvictScan(b) \/ Evict(b) \/ EvictEnd(b)
    BY <2>5, EvictScanKeeps, EvictKeeps, EvictEndKeeps
  <2> QED  BY <1>2, <2>1, <2>2, <2>3, <2>4, <2>5, Zenon DEF BuildsStep
<1> QED  BY <1>1, <1>2 DEF BuildsNext

LEMMA BuildsInvHolds == ASSUME BuildsInv PROVE CacheHolds
<1>1. BuiltOnWhole
  BY DEF BuildsInv, BuildOK, StaysWhole, BuiltOnWhole
<1>2. CacheUnderLimit
  <2> SUFFICES ASSUME \A b \in Build : work[b].step \notin {"save", "saving", "evict"}
               PROVE  Total([k \in Key |-> SizeOf(cached[k])]) <= Limit
    BY DEF CacheUnderLimit
  <2>1. Settled = Key
    BY DEF Settled, Written
  <2>2. Weight(Now, Key) <= Limit
    BY <2>1 DEF BuildsInv, LimitKept, CutsDown, WithinLimit
  <2>3. PICK n \in Weights : n = Now
    BY NowType
  <2>7. PICK s \in Seq(Key) : s = ages
    BY DEF BuildsInv, CacheOK
  <2>8. ToSet(s) \in SUBSET Key
    BY DEF ToSet
  <2>4. PICK S \in SUBSET Key : S = ToSet(ages)
    BY <2>7, <2>8
  <2>5. Weight(n, S) <= Weight(n, Key) /\ Weight(n, S) \in Nat /\ Weight(n, Key) \in Nat
    <3>1. \A k \in Key : n[k] <= n[k]
      BY MostType DEF Weights
    <3> QED  BY <3>1, WeightGrows, WeightType
  <2>6. Total([k \in Key |-> SizeOf(cached[k])]) = Weight(n, S)
    BY <2>3, <2>4 DEF Total, Weight, Pairs, Now
  <2> QED  BY <2>2, <2>3, <2>5, <2>6, BuildsAssumption
<1> QED  BY <1>1, <1>2 DEF CacheHolds

\* However the copies and removals of builds interleave, a build command runs on
\* all of the dependencies, and what the builds that cut the cache down leave is
\* within its limit (restore_build_cache, save_build_cache, evict_build_cache).
THEOREM CacheIsKept == BuildsSpec => []CacheHolds
<1>1. BuildsInit => BuildsInv
  BY BuildsInitInv
<1>2. BuildsInv /\ [BuildsNext]_buildVars => BuildsInv'
  BY BuildsStepInv
<1>3. BuildsInv => CacheHolds
  BY BuildsInvHolds
<1> QED  BY <1>1, <1>2, <1>3, PTL DEF BuildsSpec
=============================================================================
