------------------------- MODULE NodeStorageProofs -------------------------
(***************************************************************************)
(* Theorems about the storage manager of a node, for every number of       *)
(* requests, every set of contents and manifests, every capacity and with  *)
(* every kind of fault (NodeStorage); then what a restart finds, for every *)
(* number of crashes, what one request at a time keeps, and that the       *)
(* storage then implements ContentStore (NodeStorageCrash).                *)
(***************************************************************************)
EXTENDS NodeStorageCrash, FiniteSetTheorems, TLAPS

LEMMA SnapshotType ==
    ASSUME MemoryOK PROVE Snapshot \in Snapshots
BY DEF MemoryOK, Snapshot, Snapshots

LEMMA BlankType == \A p \in BOOLEAN : Blank(p) \in Snapshots
BY DEF Snapshots, Blank

LEMMA CurrentType ==
    ASSUME TasksOK, NEW t \in Task
    PROVE  Current(t) \in Frag /\ Size[Current(t)] \in 0..MaxSize
BY ManifestAssumption, SizeAssumption DEF TasksOK, Current

LEMMA FirstFragment == \A c \in Content : 1 \in 1..Len(FragsOf[c])
BY ManifestAssumption

LEMMA MonusType == \A a, b \in Nat : Monus(a, b) \in Nat
BY DEF Monus

LEMMA CountType ==
    ASSUME MemoryOK PROVE Cardinality(content) \in Nat /\ Cardinality(pinned) \in Nat
<1>1. IsFiniteSet(content) /\ IsFiniteSet(pinned)
  BY ManifestAssumption, FS_Subset DEF MemoryOK
<1> QED BY <1>1, FS_CardinalityType

LEMMA TypeInit == Init => TypeOK
<1> SUFFICES ASSUME Init PROVE TypeOK OBVIOUS
<1>1. MemoryOK BY DEF Init, MemoryOK
<1>2. DiskOK BY BlankType DEF Init, DiskOK
<1>3. TasksOK
  <2>1. (CHOOSE c \in Content : TRUE) \in Content BY ManifestAssumption
  <2> QED BY <2>1, FirstFragment DEF Init, TasksOK, Steps, Ops
<1> QED BY <1>1, <1>2, <1>3 DEF TypeOK

LEMMA BeginType ==
    ASSUME TasksOK, NEW t \in Task, NEW c \in Content, NEW o \in Ops, 
           NEW step \in Steps, Begin(t, o, c, step)
    PROVE  /\ pc' \in [Task -> Steps] /\ op' \in [Task -> Ops]
           /\ cid' \in [Task -> Content] /\ idx' \in [Task -> Nat]
           /\ \A u \in Task : idx'[u] \in 1..Len(FragsOf[cid'[u]])
           /\ size' \in [Task -> Nat] /\ requests' \in Nat
BY FirstFragment DEF TasksOK, Begin, Goto

LEMMA StepMoves ==
    ASSUME TasksOK, NEW t \in Task, NEW step \in Steps, Goto(t, step)
    PROVE  pc' \in [Task -> Steps]
BY DEF TasksOK, Goto

LEMMA AfterFragmentType ==
    ASSUME TasksOK, NEW t \in Task, NEW again \in Steps, NEW done \in Steps,
           AfterFragment(t, again, done)
    PROVE  /\ pc' \in [Task -> Steps]
           /\ idx' \in [Task -> Nat]
           /\ \A u \in Task : idx'[u] \in 1..Len(FragsOf[cid[u]])
<1>1. \A u \in Task : Len(FragsOf[cid[u]]) \in Nat
  BY ManifestAssumption DEF TasksOK
<1>2. CASE idx[t] < Len(FragsOf[cid[t]])
  <2>1. idx[t] + 1 \in 1..Len(FragsOf[cid[t]]) BY <1>1, <1>2 DEF TasksOK
  <2>2. idx' = [idx EXCEPT ![t] = idx[t] + 1] BY <1>2 DEF AfterFragment
  <2>3. \A u \in Task : idx'[u] \in 1..Len(FragsOf[cid[u]])
    BY <2>1, <2>2 DEF TasksOK
  <2>4. idx' \in [Task -> Nat] BY <2>2, <2>1, <1>1 DEF TasksOK
  <2> QED BY <1>2, <2>3, <2>4 DEF TasksOK, AfterFragment, Goto
<1>3. CASE ~(idx[t] < Len(FragsOf[cid[t]]))
  BY <1>3 DEF TasksOK, AfterFragment, Goto
<1> QED BY <1>2, <1>3

\* Every step leaves the tasks well typed ...
LEMMA TasksType ==
    ASSUME TypeOK, [Next]_vars PROVE TasksOK'
<1> USE DEF TypeOK, locals, disk, memory
<1>1. ASSUME NEW t \in Task, Request(t) PROVE TasksOK'
  <2> DEFINE Kept == queue' \in [Task -> SUBSET Content] /\ need' \in [Task -> Nat]
  <2>1. ASSUME NEW c \in Content, Upload(t, c) \/ Fetch(t, c) PROVE TasksOK'
    <3>1. \E o \in Ops : Begin(t, o, c, "capacity")
      BY <2>1 DEF Upload, Fetch, Ops
    <3>2. Kept BY <2>1 DEF Upload, Fetch, TasksOK
    <3> QED BY <3>1, <3>2, BeginType DEF TasksOK, Steps, StoreSteps
  <2>2. ASSUME NEW c \in Content, Replicate(t, c) PROVE TasksOK'
    <3>1. Kept BY <2>2 DEF Replicate, TasksOK
    <3> QED BY <2>2, <3>1, BeginType DEF Replicate, TasksOK, Steps, StoreSteps, Ops
  <2>3. ASSUME NEW c \in Content, Pin(t, c) \/ Unpin(t, c) PROVE TasksOK'
    <3>1. \E o \in Ops : Begin(t, o, c, "setPinned") BY <2>3 DEF Pin, Unpin, Ops
    <3>2. Kept BY <2>3 DEF Pin, Unpin, TasksOK
    <3> QED BY <3>1, <3>2, BeginType DEF TasksOK, Steps, PinSteps
  <2>4. ASSUME NEW c \in Content, Delete(t, c) PROVE TasksOK'
    <3>1. Kept BY <2>4 DEF Delete, TasksOK
    <3> QED BY <2>4, <3>1, BeginType DEF Delete, TasksOK, Steps, DeleteSteps, Ops
  <2>5. ASSUME NEW target \in GcTargets, Collect(t, target) PROVE TasksOK'
    <3>1. target - Monus(Capacity, usage) \in Nat
      BY <2>5, CapacityAssumption, TargetAssumption DEF Collect, Monus, MemoryOK
    <3>2. Kept BY <2>5, <3>1 DEF Collect, TasksOK
    <3>3. cid[t] \in Content BY DEF TasksOK
    <3> QED BY <2>5, <3>2, <3>3, BeginType DEF Collect, TasksOK, Steps, Ops
  <2> QED BY <1>1, <2>1, <2>2, <2>3, <2>4, <2>5 DEF Request
<1>2. ASSUME NEW t \in Task, StoreStep(t) PROVE TasksOK'
  <2>1. CASE HasFragment(t)
    <3>1. CASE Current(t) \in fragments
      BY <2>1, <3>1, AfterFragmentType DEF HasFragment, TasksOK, Steps, StoreSteps
    <3>2. CASE Current(t) \notin fragments
      BY <2>1, <3>2 DEF HasFragment, Goto, TasksOK, Steps, StoreSteps
    <3> QED BY <3>1, <3>2
  <2>2. CASE CheckCapacity(t)
    BY <2>2 DEF CheckCapacity, Goto, TasksOK, Steps, StoreSteps
  <2>3. CASE WriteFile(t) \/ InsertFragment(t) \/ AddUsage(t) \/ AddStats(t)
    BY <2>3 DEF WriteFile, InsertFragment, AddUsage, AddStats, Goto, TasksOK,
                Steps, StoreSteps
  <2>4. CASE SaveFragment(t)
    <3> DEFINE again == IF op[t] = "replicate" THEN "hasFragment" ELSE "capacity"
    <3>1. CASE AfterFragment(t, again, "putContent")
      <4>1. again \in Steps /\ "putContent" \in Steps BY DEF Steps, StoreSteps
      <4> HIDE DEF again
      <4> QED BY <2>4, <3>1, <4>1, AfterFragmentType DEF SaveFragment, TasksOK
    <3>2. CASE Goto(t, "idle") /\ UNCHANGED idx
      BY <2>4, <3>2 DEF SaveFragment, Goto, TasksOK, Steps
    <3> QED BY <2>4, <3>1, <3>2 DEF SaveFragment
  <2>5. CASE PutContent(t) \/ CountPut(t)
    BY <2>5 DEF PutContent, CountPut, CountContent, Goto, TasksOK, Steps, StoreSteps
  <2>6. CASE SavePut(t)
    BY <2>6 DEF SavePut, Save, Goto, TasksOK, Steps, StoreSteps, PinSteps
  <2> QED BY <1>2, <2>1, <2>2, <2>3, <2>4, <2>5, <2>6 DEF StoreStep
<1>3. ASSUME NEW t \in Task, PinStep(t) PROVE TasksOK'
  BY <1>3 DEF PinStep, SetPinned, SetFragments, CountPinned, SavePinned, Save,
              Goto, TasksOK, Steps, PinSteps
<1>4. ASSUME NEW t \in Task, DeleteStep(t) PROVE TasksOK'
  <2>1. CASE ReadContent(t) \/ FindFile(t)
    BY <2>1 DEF ReadContent, FindFile, Caller, Goto, TasksOK, Steps, DeleteSteps
  <2>2. CASE ReadSize(t)
    BY <2>2, CurrentType, SizeAssumption
       DEF ReadSize, Goto, TasksOK, Steps, DeleteSteps
  <2>3. CASE RemoveFile(t)
    <3>1. CASE AfterFragment(t, "readSize", "removeContent")
      BY <2>3, <3>1, AfterFragmentType DEF RemoveFile, TasksOK, Steps, DeleteSteps
    <3>2. CASE Goto(t, "removeFragment") /\ UNCHANGED idx
      BY <2>3, <3>2 DEF RemoveFile, Goto, TasksOK, Steps, DeleteSteps
    <3> QED BY <2>3, <3>1, <3>2 DEF RemoveFile
  <2>4. CASE RemoveFragment(t) \/ SubUsage(t)
    BY <2>4 DEF RemoveFragment, SubUsage, Goto, TasksOK, Steps, DeleteSteps
  <2>5. CASE SubStats(t)
    BY <2>5, AfterFragmentType DEF SubStats, TasksOK, Steps, DeleteSteps
  <2>6. CASE RemoveContent(t) \/ CountRemoved(t)
    BY <2>6 DEF RemoveContent, CountRemoved, CountContent, Goto, TasksOK, Steps,
                DeleteSteps
  <2>7. CASE SaveRemoved(t)
    <3>1. need' \in [Task -> Nat]
      BY <2>7, ManifestAssumption, MonusType DEF SaveRemoved, TasksOK
    <3>2. pc' \in [Task -> Steps]
      BY <2>7 DEF SaveRemoved, Save, Caller, Goto, TasksOK, Steps
    <3> QED BY <2>7, <3>1, <3>2 DEF SaveRemoved, Save, TasksOK
  <2>8. CASE Candidates(t)
    BY <2>8 DEF Candidates, Goto, TasksOK, Steps, MemoryOK
  <2>9. CASE CollectNext(t)
    <3>1. PICK c \in queue[t] : cid' = [cid EXCEPT ![t] = c]
                             /\ queue' = [queue EXCEPT ![t] = @ \ {c}]
      BY <2>9 DEF CollectNext
    <3>2. c \in Content BY <3>1 DEF TasksOK
    <3>3. pc' \in [Task -> Steps]
      BY <2>9 DEF CollectNext, Goto, TasksOK, Steps, DeleteSteps
    <3> QED BY <2>9, <3>1, <3>2, <3>3, FirstFragment DEF CollectNext, TasksOK
  <2>10. CASE CollectEnd(t)
    BY <2>10 DEF CollectEnd, Goto, TasksOK, Steps
  <2> QED BY <1>4, <2>1, <2>2, <2>3, <2>4, <2>5, <2>6, <2>7, <2>8, <2>9, <2>10
          DEF DeleteStep
<1>5. ASSUME NEW t \in Task, Disconnect(t) PROVE TasksOK'
  BY <1>5 DEF Disconnect, Goto, TasksOK, Steps
<1>6. CASE LateFileOp
  BY <1>6 DEF LateFileOp, TasksOK
<1>7. CASE UNCHANGED vars
  BY <1>7 DEF vars, TasksOK
<1> QED BY <1>1, <1>2, <1>3, <1>4, <1>5, <1>6, <1>7 DEF Next, Step

\* ... what the node holds in memory ...
LEMMA MemoryType ==
    ASSUME TypeOK, [Next]_vars PROVE MemoryOK'
<1> USE DEF TypeOK, memory
<1>1. ASSUME NEW t \in Task, Request(t) PROVE MemoryOK'
  BY <1>1 DEF Request, Upload, Fetch, Replicate, Pin, Unpin, Delete, Collect,
              Begin, MemoryOK
<1>2. ASSUME NEW t \in Task, StoreStep(t) PROVE MemoryOK'
  <2>1. CASE HasFragment(t) \/ CheckCapacity(t) \/ WriteFile(t) \/ SaveFragment(t)
             \/ SavePut(t)
    BY <2>1 DEF HasFragment, CheckCapacity, WriteFile, SaveFragment, SavePut, Save,
                MemoryOK
  <2>2. CASE InsertFragment(t)
    BY <2>2, CurrentType DEF InsertFragment, MemoryOK
  <2>3. CASE AddUsage(t) \/ AddStats(t)
    <3>1. Size[Current(t)] \in Nat BY CurrentType, SizeAssumption
    <3>2. CASE AddUsage(t) BY <3>1, <3>2 DEF AddUsage, MemoryOK
    <3>3. CASE AddStats(t)
      <4>1. stats.bytes + Size[Current(t)] \in Nat /\ stats.frags + 1 \in Nat
        BY <3>1 DEF MemoryOK
      <4> QED BY <3>3, <4>1 DEF AddStats, MemoryOK
    <3> QED BY <2>3, <3>2, <3>3
  <2>4. CASE PutContent(t)
    BY <2>4 DEF PutContent, MemoryOK, TasksOK
  <2>5. CASE CountPut(t)
    BY <2>5, CountType DEF CountPut, CountContent, MemoryOK
  <2> QED BY <1>2, <2>1, <2>2, <2>3, <2>4, <2>5 DEF StoreStep
<1>3. ASSUME NEW t \in Task, PinStep(t) PROVE MemoryOK'
  <2>1. CASE SetPinned(t) \/ SavePinned(t)
    BY <2>1 DEF SetPinned, SavePinned, Save, MemoryOK
  <2>2. CASE SetFragments(t)
    BY <2>2 DEF SetFragments, MemoryOK
  <2>3. CASE CountPinned(t)
    BY <2>3, CountType DEF CountPinned, MemoryOK
  <2> QED BY <1>3, <2>1, <2>2, <2>3 DEF PinStep
<1>4. ASSUME NEW t \in Task, DeleteStep(t) PROVE MemoryOK'
  <2>1. CASE ReadContent(t) \/ ReadSize(t) \/ FindFile(t) \/ RemoveFile(t) \/ SaveRemoved(t)
             \/ Candidates(t) \/ CollectNext(t) \/ CollectEnd(t)
    BY <2>1 DEF ReadContent, ReadSize, FindFile, RemoveFile, SaveRemoved, Save, Candidates,
                CollectNext, CollectEnd, MemoryOK
  <2>2. CASE RemoveFragment(t)
    BY <2>2 DEF RemoveFragment, MemoryOK
  <2>3. CASE SubUsage(t) \/ SubStats(t)
    <3>1. size[t] \in Nat BY DEF TasksOK
    <3>2. CASE SubUsage(t) BY <3>1, <3>2, MonusType DEF SubUsage, MemoryOK
    <3>3. CASE SubStats(t)
      <4>1. /\ Monus(stats.bytes, size[t]) \in Nat
            /\ Monus(stats.frags, 1) \in Nat
        BY <3>1, MonusType DEF MemoryOK
      <4> QED BY <3>3, <4>1 DEF SubStats, MemoryOK
    <3> QED BY <2>3, <3>2, <3>3
  <2>4. CASE RemoveContent(t)
    BY <2>4 DEF RemoveContent, MemoryOK
  <2>5. CASE CountRemoved(t)
    BY <2>5, CountType DEF CountRemoved, CountContent, MemoryOK
  <2> QED BY <1>4, <2>1, <2>2, <2>3, <2>4, <2>5 DEF DeleteStep
<1>5. ASSUME NEW t \in Task, Disconnect(t) PROVE MemoryOK'
  BY <1>5 DEF Disconnect, MemoryOK
<1>6. CASE LateFileOp
  BY <1>6 DEF LateFileOp, MemoryOK
<1>7. CASE UNCHANGED vars
  BY <1>7 DEF vars, MemoryOK
<1> QED BY <1>1, <1>2, <1>3, <1>4, <1>5, <1>6, <1>7 DEF Next, Step

\* ... and what is on disk.
LEMMA DiskType ==
    ASSUME TypeOK, [Next]_vars PROVE DiskOK'
<1> USE DEF TypeOK, disk
<1>1. Snapshot \in Snapshots BY SnapshotType
<1>2. Torn \in Snapshots BY BlankType DEF Torn
<1>3. ASSUME NEW t \in Task, Request(t) PROVE DiskOK'
  BY <1>3 DEF Request, Upload, Fetch, Replicate, Pin, Unpin, Delete, Collect,
              Begin, DiskOK
<1>4. ASSUME NEW t \in Task, StoreStep(t) PROVE DiskOK'
  <2>1. CASE WriteFile(t)
    BY <2>1, CurrentType DEF WriteFile, DiskOK
  <2>2. CASE SaveFragment(t) \/ SavePut(t)
    BY <2>2, <1>1, <1>2 DEF SaveFragment, SavePut, Save, DiskOK
  <2> QED BY <1>4, <2>1, <2>2 DEF StoreStep, HasFragment, CheckCapacity,
             InsertFragment, AddUsage, AddStats, PutContent, CountPut, CountContent,
             DiskOK
<1>5. ASSUME NEW t \in Task, PinStep(t) PROVE DiskOK'
  BY <1>5, <1>1, <1>2 DEF PinStep, SetPinned, SetFragments, CountPinned, SavePinned,
             Save, DiskOK
<1>6. ASSUME NEW t \in Task, DeleteStep(t) PROVE DiskOK'
  <2>1. CASE RemoveFile(t)
    BY <2>1 DEF RemoveFile, DiskOK
  <2>2. CASE SaveRemoved(t)
    BY <2>2, <1>1, <1>2 DEF SaveRemoved, Save, DiskOK
  <2> QED BY <1>6, <2>1, <2>2 DEF DeleteStep, ReadContent, ReadSize, FindFile, RemoveFragment,
             SubUsage, SubStats, RemoveContent, CountRemoved, CountContent, Candidates,
             CollectNext, CollectEnd, DiskOK
<1>7. ASSUME NEW t \in Task, Disconnect(t) PROVE DiskOK'
  <2>1. Pending(t) \in FileOps \cup SaveOps
    BY <1>1, CurrentType DEF Pending, FileOps, SaveOps
  <2> QED BY <1>7, <2>1 DEF Disconnect, DiskOK
<1>8. CASE LateFileOp
  BY <1>8 DEF LateFileOp, DiskOK, FileOps, SaveOps
<1>9. CASE UNCHANGED vars
  BY <1>9 DEF vars, DiskOK
<1> QED BY <1>3, <1>4, <1>5, <1>6, <1>7, <1>8, <1>9 DEF Next, Step

(* Every variable keeps its type, whatever requests, faults and             *)
(* disconnections a behaviour has.                                          *)
THEOREM TypeCorrect == Spec => []TypeOK
<1>1. TypeOK /\ [Next]_vars => TypeOK'
  BY TasksType, MemoryType, DiskType DEF TypeOK
<1> QED BY <1>1, TypeInit, PTL DEF Spec

-----------------------------------------------------------------------------
(* The bound on the usage.  A step concerns it in one of three ways.        *)

SameCurrent(S) == \A u \in S : Current(u)' = Current(u)

Quiet ==
    /\ usage' <= usage /\ InFlight' = InFlight
    /\ SameCurrent(InFlight)

Admits(t) ==
    /\ t \notin InFlight /\ InFlight' = InFlight \cup {t}
    /\ usage + Size[Current(t)] <= Capacity
    /\ usage' = usage
    /\ SameCurrent(InFlight')

Releases(t) ==
    /\ t \in InFlight /\ InFlight' = InFlight \ {t}
    /\ usage' = usage \/ usage' = usage + Size[Current(t)]
    /\ SameCurrent(InFlight')

LEMMA QuietMove ==
    ASSUME TypeOK, NEW t \in Task, NEW step \in Steps, Goto(t, step),
           (t \in InFlight) <=> (step \in {"write", "insert", "addUsage"}),
           usage' <= usage,
           \A u \in InFlight : cid'[u] = cid[u] /\ idx'[u] = idx[u]
    PROVE  Quiet
BY DEF TypeOK, TasksOK, Goto, InFlight, Quiet, SameCurrent, Current

LEMMA ReleaseMove ==
    ASSUME TypeOK, NEW t \in InFlight, NEW step \in Steps, Goto(t, step),
           step \notin {"write", "insert", "addUsage"},
           usage' = usage \/ usage' = usage + Size[Current(t)],
           UNCHANGED <<cid, idx>>
    PROVE  Releases(t)
BY DEF TypeOK, TasksOK, Goto, InFlight, Releases, SameCurrent, Current

LEMMA StoreEffect ==
    ASSUME TypeOK, NEW t \in Task, StoreStep(t)
    PROVE  Quiet \/ Admits(t) \/ Releases(t)
<1> USE DEF TypeOK, MemoryOK, TasksOK, locals, memory
<1>1. CASE CheckCapacity(t)
  <2>1. t \notin InFlight BY <1>1 DEF CheckCapacity, InFlight
  <2>2. CASE usage + Size[Current(t)] > Capacity
    BY <1>1, <2>1, <2>2, QuietMove DEF CheckCapacity, Steps
  <2>3. CASE ~(usage + Size[Current(t)] > Capacity)
    <3>1. usage + Size[Current(t)] <= Capacity
      BY <2>3, CurrentType, SizeAssumption, CapacityAssumption
    <3> QED BY <1>1, <2>1, <2>3, <3>1 
            DEF CheckCapacity, Goto, Admits, InFlight, SameCurrent, Current
  <2> QED BY <2>2, <2>3
<1>2. CASE WriteFile(t)
  <2>1. t \in InFlight BY <1>2 DEF WriteFile, InFlight
  <2> QED BY <1>2, <2>1, QuietMove, ReleaseMove DEF WriteFile, Steps, StoreSteps
<1>3. CASE InsertFragment(t)
  <2>1. t \in InFlight BY <1>3 DEF InsertFragment, InFlight
  <2> QED BY <1>3, <2>1, QuietMove DEF InsertFragment, Steps, StoreSteps
<1>4. CASE AddUsage(t)
  <2>1. t \in InFlight BY <1>4 DEF AddUsage, InFlight
  <2> QED BY <1>4, <2>1, ReleaseMove DEF AddUsage, Steps, StoreSteps
<1>5. ASSUME \/ HasFragment(t) \/ AddStats(t) \/ SaveFragment(t)
             \/ PutContent(t) \/ CountPut(t) \/ SavePut(t)
      PROVE  Quiet
  <2>1. t \notin InFlight
    BY <1>5 DEF HasFragment, AddStats, SaveFragment, PutContent, CountPut,
                CountContent, SavePut, Save, InFlight
  <2>2. usage' = usage
    BY <1>5 DEF HasFragment, AddStats, SaveFragment, PutContent, CountPut,
                CountContent, SavePut, Save
  <2>3. \A u \in InFlight : cid'[u] = cid[u] /\ idx'[u] = idx[u]
    BY <1>5, <2>1 DEF HasFragment, AddStats, SaveFragment, PutContent, CountPut,
                CountContent, SavePut, Save, AfterFragment, InFlight
  <2>4. PICK step \in Steps \ {"write", "insert", "addUsage"} : Goto(t, step)
    BY <1>5 DEF HasFragment, AddStats, SaveFragment, PutContent, CountPut,
                CountContent, SavePut, Save, AfterFragment, Steps, StoreSteps, PinSteps
  <2> QED BY <2>1, <2>2, <2>3, <2>4, QuietMove
<1> QED BY <1>1, <1>2, <1>3, <1>4, <1>5 DEF StoreStep

LEMMA OtherEffect ==
    ASSUME TypeOK, NEW t \in Task, Request(t) \/ PinStep(t) \/ DeleteStep(t)
    PROVE  Quiet
<1> USE DEF TypeOK, MemoryOK, TasksOK, locals, memory
<1>1. ASSUME Request(t) PROVE Quiet
  <2>1. /\ t \notin InFlight /\ usage' = usage
        /\ \A u \in InFlight : cid'[u] = cid[u] /\ idx'[u] = idx[u]
        /\ \E step \in Steps \ {"write", "insert", "addUsage"} : Goto(t, step)
    BY <1>1 DEF Request, Upload, Fetch, Replicate, Pin, Unpin, Delete, Collect, Begin,
                InFlight, Steps, StoreSteps, PinSteps, DeleteSteps
  <2> QED BY <2>1, QuietMove
<1>2. ASSUME PinStep(t) PROVE Quiet
  <2>1. /\ t \notin InFlight /\ usage' = usage /\ UNCHANGED <<cid, idx>>
        /\ \E step \in Steps \ {"write", "insert", "addUsage"} : Goto(t, step)
    BY <1>2 DEF PinStep, SetPinned, SetFragments, CountPinned, SavePinned, Save,
                InFlight, Steps, PinSteps
  <2> QED BY <2>1, QuietMove
<1>3. ASSUME DeleteStep(t) PROVE Quiet
  <2>1. t \notin InFlight
    BY <1>3 DEF DeleteStep, ReadContent, ReadSize, FindFile, RemoveFile, RemoveFragment, SubUsage,
                SubStats, RemoveContent, CountRemoved, CountContent, SaveRemoved, Save,
                Candidates, CollectNext, CollectEnd, InFlight
  <2>2. usage' <= usage
    <3>1. CASE SubUsage(t)
      <4>1. Monus(usage, size[t]) <= usage BY DEF Monus
      <4> QED BY <3>1, <4>1 DEF SubUsage
    <3>2. CASE ~SubUsage(t)
      BY <1>3, <3>2 DEF DeleteStep, ReadContent, ReadSize, FindFile, RemoveFile, RemoveFragment,
                SubStats, RemoveContent, CountRemoved, CountContent, SaveRemoved, Save,
                Candidates, CollectNext, CollectEnd
    <3> QED BY <3>1, <3>2
  <2>3. \A u \in InFlight : cid'[u] = cid[u] /\ idx'[u] = idx[u]
    BY <1>3, <2>1 DEF DeleteStep, ReadContent, ReadSize, FindFile, RemoveFile, RemoveFragment,
                SubUsage, SubStats, RemoveContent, CountRemoved, CountContent, SaveRemoved,
                Save, Candidates, CollectNext, CollectEnd, AfterFragment, InFlight
  <2>4. \E step \in Steps \ {"write", "insert", "addUsage"} : Goto(t, step)
    BY <1>3 DEF DeleteStep, ReadContent, ReadSize, FindFile, RemoveFile, RemoveFragment, SubUsage,
                SubStats, RemoveContent, CountRemoved, CountContent, SaveRemoved, Save,
                Candidates, CollectNext, CollectEnd, AfterFragment, Caller, Steps,
                DeleteSteps
  <2> QED BY <2>1, <2>2, <2>3, <2>4, QuietMove
<1> QED BY <1>1, <1>2, <1>3

LEMMA InFlightFinite ==
    /\ InFlight \subseteq Task /\ IsFiniteSet(InFlight)
    /\ Cardinality(InFlight) \in Nat /\ Cardinality(Task) \in Nat \ {0}
    /\ Cardinality(InFlight) <= Cardinality(Task)
<1>1. InFlight \subseteq Task BY DEF InFlight
<1> QED BY <1>1, TaskAssumption, FS_Subset, FS_CardinalityType, FS_EmptySet

\* The room that is left once k uploads are in flight, one of which is counted
\* with its own size.
LEMMA Room ==
    ASSUME NEW k \in Nat
    PROVE  /\ MaxSize * (k - 1) \in Int /\ Overshoot \in Nat
           /\ MaxSize * ((k + 1) - 1) = MaxSize * (k - 1) + MaxSize
           /\ k > 0 => MaxSize * (k - 1) >= 0
           /\ k <= Cardinality(Task) => MaxSize * (k - 1) <= Overshoot
<1>1. PICK n \in Nat \ {0} : n = Cardinality(Task) BY InFlightFinite
<1>2. PICK m \in Nat : m = MaxSize BY SizeAssumption
<1>3. \A i, j \in Nat : i <= j => m * i <= m * j /\ m * i \in Nat OBVIOUS
<1>4. m * (k - 1) = m * k - m /\ m * k \in Nat OBVIOUS
<1>5. (n - 1) * m = m * (n - 1) /\ m * (n - 1) = m * n - m /\ m * n \in Nat
  OBVIOUS
<1>6. (n - 1) * m \in Nat /\ (k > 0 => m * (k - 1) \in Nat) BY <1>3, <1>5
<1>7. k <= n => m * k <= m * n BY <1>3
<1>8. m * ((k + 1) - 1) = m * k OBVIOUS
<1> QED BY <1>1, <1>2, <1>4, <1>5, <1>6, <1>7, <1>8 DEF Overshoot

LEMMA InitReserved == Init => UsageReserved
<1> SUFFICES ASSUME Init PROVE UsageReserved OBVIOUS
<1>1. InFlight = {} BY DEF Init, InFlight
<1>2. 0 <= Capacity + Overshoot BY Room, CapacityAssumption
<1> QED BY <1>1, <1>2 DEF UsageReserved, UsageBounded, Init

LEMMA QuietReserved == ASSUME TypeOK, TypeOK', UsageReserved, Quiet PROVE UsageReserved'
<1> DEFINE k == Cardinality(InFlight)
<1> USE DEF TypeOK, MemoryOK
<1>1. Capacity + Overshoot \in Nat /\ MaxSize * (k - 1) \in Int
  BY Room, InFlightFinite, CapacityAssumption
<1>2. CASE InFlight = {}
  BY <1>1, <1>2 DEF Quiet, UsageReserved, UsageBounded, Overshoot
<1>3. CASE InFlight # {}
  <2>1. PICK w \in InFlight : 
           usage + Size[Current(w)] + MaxSize * (k - 1) <= Capacity + Overshoot
    BY <1>3 DEF UsageReserved
  <2>2. Size[Current(w)] \in Nat /\ Current(w)' = Current(w)
    BY InFlightFinite, CurrentType, SizeAssumption DEF Quiet, SameCurrent
  <2>3. usage' + Size[Current(w)'] + MaxSize * (k - 1) <= Capacity + Overshoot
    BY <1>1, <2>1, <2>2 DEF Quiet
  <2>4. InFlight' = InFlight BY DEF Quiet
  <2> QED BY <2>3, <2>4 DEF UsageReserved, Overshoot
<1> QED BY <1>2, <1>3

LEMMA AdmitReserved ==
    ASSUME TypeOK, TypeOK', NEW t \in Task, Admits(t) PROVE UsageReserved'
<1> DEFINE k == Cardinality(InFlight)
<1> USE DEF TypeOK, MemoryOK
<1>1. Cardinality(InFlight') = k + 1
  BY InFlightFinite, FS_AddElement DEF Admits
<1>2. InFlight' \subseteq Task /\ k + 1 <= Cardinality(Task)
  BY <1>1, InFlightFinite, TaskAssumption, FS_Subset DEF Admits
<1>3. MaxSize * ((k + 1) - 1) <= Overshoot /\ MaxSize * ((k + 1) - 1) \in Int
  BY <1>2, Room, InFlightFinite
<1>4. Size[Current(t)] \in Nat BY CurrentType, SizeAssumption
<1>5. usage' + Size[Current(t)'] + MaxSize * ((k + 1) - 1) <= Capacity + Overshoot
  BY <1>3, <1>4, CapacityAssumption, Room DEF Admits, SameCurrent
<1> QED BY <1>1, <1>5 DEF UsageReserved, Admits, Overshoot

LEMMA ReleaseReserved ==
    ASSUME TypeOK, TypeOK', UsageReserved, NEW t \in Task, Releases(t)
    PROVE  UsageReserved'
<1> DEFINE k == Cardinality(InFlight)
           bound == Capacity + Overshoot
<1> USE DEF TypeOK, MemoryOK
<1>1. PICK w \in InFlight : usage + Size[Current(w)] + MaxSize * (k - 1) <= bound
  BY DEF UsageReserved, Releases
<1>2. /\ bound \in Nat /\ MaxSize \in Nat /\ k \in Nat
      /\ MaxSize * (k - 1) \in Int /\ k > 0
      /\ MaxSize * (k - 1) >= 0
  <2>1. k # 0 BY InFlightFinite, FS_EmptySet DEF Releases
  <2> QED BY <2>1, Room, InFlightFinite, CapacityAssumption, SizeAssumption
<1>3. \A u \in InFlight : Size[Current(u)] \in Nat /\ Size[Current(u)] <= MaxSize
  BY CurrentType, SizeAssumption, InFlightFinite
<1>4. Cardinality(InFlight') = k - 1
  BY InFlightFinite, FS_RemoveElement DEF Releases
<1>5. CASE InFlight' = {}
  <2>1. w = t BY <1>5 DEF Releases
  <2>2. usage' <= bound BY <1>1, <1>2, <1>3, <2>1 DEF Releases
  <2> QED BY <1>5, <2>2 DEF UsageReserved, UsageBounded, Overshoot
<1>6. CASE InFlight' # {}
  <2>1. MaxSize * (k - 1) = MaxSize * ((k - 1) - 1) + MaxSize
        /\ MaxSize * ((k - 1) - 1) \in Int
    BY <1>2, Room
  <2>2. PICK v \in InFlight' : w # t => v = w BY <1>6 DEF Releases
  <2>3. v \in InFlight /\ v # t /\ Current(v)' = Current(v)
    BY <2>2 DEF Releases, SameCurrent
  <2>4. usage' + Size[Current(v)] + MaxSize * ((k - 1) - 1) <= bound
    <3>1. CASE w = t
      BY <3>1, <1>1, <1>2, <1>3, <2>1, <2>3 DEF Releases
    <3>2. CASE w # t
      BY <3>2, <1>1, <1>2, <1>3, <2>1, <2>2, <2>3 DEF Releases
    <3> QED BY <3>1, <3>2
  <2> QED BY <1>4, <1>6, <2>3, <2>4 DEF UsageReserved, Overshoot
<1> QED BY <1>5, <1>6

(* Uploads that run at the same time exceed the capacity by less than one   *)
(* fragment for each other request that can be in progress.                 *)
THEOREM UsageStaysBounded == Spec => []UsageBounded
<1>1. ASSUME TypeOK, UsageReserved, [Next]_vars PROVE UsageReserved'
  <2>1. TypeOK' BY <1>1, TasksType, MemoryType, DiskType DEF TypeOK
  <2>2. Quiet \/ \E t \in Task : Admits(t) \/ Releases(t)
    <3>1. ASSUME NEW t \in Task, Disconnect(t) PROVE Quiet \/ Releases(t)
      <4>1. /\ usage' = usage /\ UNCHANGED <<cid, idx>> /\ Goto(t, "idle")
            /\ "idle" \in Steps
        BY <3>1 DEF Disconnect, memory, locals, Steps
      <4>2. usage' <= usage BY <1>1, <4>1 DEF TypeOK, MemoryOK
      <4>3. CASE t \in InFlight BY <1>1, <4>1, <4>3, ReleaseMove
      <4>4. CASE t \notin InFlight BY <1>1, <4>1, <4>2, <4>4, QuietMove
      <4> QED BY <4>3, <4>4
    <3>2. ASSUME UNCHANGED <<usage, pc, cid, idx>> PROVE Quiet
      BY <1>1, <3>2 DEF Quiet, InFlight, SameCurrent, Current, TypeOK, MemoryOK
    <3>3. CASE LateFileOp BY <3>2, <3>3 DEF LateFileOp, memory, locals
    <3>4. CASE UNCHANGED vars BY <3>2, <3>4 DEF vars, memory, locals
    <3> QED BY <1>1, <3>1, <3>3, <3>4, StoreEffect, OtherEffect DEF Next, Step
  <2> QED BY <1>1, <2>1, <2>2, QuietReserved, AdmitReserved, ReleaseReserved
<1>2. ASSUME TypeOK, UsageReserved PROVE UsageBounded
  <2>1. CASE InFlight = {} BY <1>2, <2>1 DEF UsageReserved
  <2>2. CASE InFlight # {}
    <3>1. PICK w \in InFlight : usage + Size[Current(w)]
              + MaxSize * (Cardinality(InFlight) - 1) <= Capacity + Overshoot
      BY <1>2, <2>2 DEF UsageReserved
    <3>2. Size[Current(w)] \in Nat
      BY <1>2, CurrentType, SizeAssumption, InFlightFinite DEF TypeOK
    <3>3. Cardinality(InFlight) > 0 BY <2>2, InFlightFinite, FS_EmptySet
    <3> QED BY <1>2, <3>1, <3>2, <3>3, Room, InFlightFinite, CapacityAssumption
            DEF UsageBounded, TypeOK, MemoryOK
  <2> QED BY <2>1, <2>2
<1> QED BY <1>1, <1>2, InitReserved, TypeCorrect, PTL DEF Spec

-----------------------------------------------------------------------------
(* Without faults and disconnections, nothing stays unsaved or uncounted.   *)

LEMMA StillUnsaved ==
    ASSUME TypeOK, late = {}, late' = {}, NEW t \in Task, NEW step \in Unsaved, Goto(t, step)
    PROVE  SavedOrSaving'
BY DEF TypeOK, TasksOK, Goto, SavedOrSaving

LEMMA NothingChanged ==
    ASSUME TypeOK, SavedOrSaving, NEW t \in Task, NEW step \in Steps, Goto(t, step),
           pc[t] \notin Unsaved,
           UNCHANGED <<fragments, pinnedFrags, content, pinned, index, late>>
    PROVE  SavedOrSaving'
<1>1. Snapshot' = Snapshot BY DEF Snapshot
<1>2. CASE index = Snapshot BY <1>1, <1>2 DEF SavedOrSaving
<1>3. ASSUME NEW u \in Task, pc[u] \in Unsaved PROVE SavedOrSaving'
  <2>1. pc'[u] = pc[u] BY <1>3 DEF Goto, TypeOK, TasksOK
  <2> QED BY <1>3, <2>1 DEF SavedOrSaving
<1> QED BY <1>2, <1>3 DEF SavedOrSaving

LEMMA JustSaved ==
    ASSUME late' = {}, index' = Snapshot, memory' = memory PROVE SavedOrSaving'
BY DEF SavedOrSaving, Snapshot, memory

LEMMA SavedInit == Init => SavedOrSaving
BY DEF Init, SavedOrSaving, Snapshot, Blank

LEMMA SavedKept ==
    ASSUME ~DiskFaults, ~Disconnects, TypeOK, SavedOrSaving, [Next]_vars
    PROVE  SavedOrSaving'
<1> USE DEF TypeOK, TasksOK, disk, memory
<1>0. late = {} BY DEF SavedOrSaving
<1>1. ASSUME NEW t \in Task, Request(t) PROVE SavedOrSaving'
  <2>1. /\ pc[t] \notin Unsaved
        /\ UNCHANGED <<fragments, pinnedFrags, content, pinned, index, late>>
        /\ \E step \in Steps : Goto(t, step)
    BY <1>1 DEF Request, Upload, Fetch, Replicate, Pin, Unpin, Delete, Collect, Begin,
                Unsaved, StoreSteps, PinSteps, DeleteSteps, Steps
  <2> QED BY <2>1, NothingChanged
<1>2. ASSUME NEW t \in Task, StoreStep(t) PROVE SavedOrSaving'
  <2>1. CASE HasFragment(t) \/ CheckCapacity(t) \/ WriteFile(t)
    <3>1. /\ pc[t] \notin Unsaved
          /\ UNCHANGED <<fragments, pinnedFrags, content, pinned, index, late>>
          /\ \E step \in Steps : Goto(t, step)
      BY <2>1 DEF HasFragment, CheckCapacity, WriteFile, AfterFragment,
                  Unsaved, StoreSteps, PinSteps, DeleteSteps, Steps
    <3> QED BY <3>1, NothingChanged
  <2>2. CASE InsertFragment(t) \/ AddUsage(t) \/ AddStats(t)
             \/ PutContent(t) \/ CountPut(t)
    <3>1. late' = late /\ \E step \in Unsaved : Goto(t, step)
      BY <2>2 DEF InsertFragment, AddUsage, AddStats, PutContent, CountPut,
                  CountContent, Unsaved, StoreSteps
    <3> QED BY <1>0, <3>1, StillUnsaved
  <2>3. CASE SaveFragment(t) \/ SavePut(t)
    BY <1>0, <2>3, JustSaved DEF SaveFragment, SavePut, Save
  <2> QED BY <1>2, <2>1, <2>2, <2>3 DEF StoreStep
<1>3. ASSUME NEW t \in Task, PinStep(t) PROVE SavedOrSaving'
  <2>1. CASE SetPinned(t)
    <3>1. CASE cid[t] \in content
      <4>1. late' = late /\ "setFragments" \in Unsaved /\ Goto(t, "setFragments")
        BY <2>1, <3>1 DEF SetPinned, Unsaved, PinSteps
      <4> QED BY <1>0, <4>1, StillUnsaved
    <3>2. CASE cid[t] \notin content
      <4>1. /\ pc[t] \notin Unsaved
            /\ UNCHANGED <<fragments, pinnedFrags, content, pinned, index, late>>
            /\ "idle" \in Steps /\ Goto(t, "idle")
        BY <2>1, <3>2 DEF SetPinned, Unsaved, StoreSteps, PinSteps, DeleteSteps, Steps
      <4> QED BY <4>1, NothingChanged
    <3> QED BY <3>1, <3>2
  <2>2. CASE SetFragments(t) \/ CountPinned(t)
    <3>1. late' = late /\ \E step \in Unsaved : Goto(t, step)
      BY <2>2 DEF SetFragments, CountPinned, Unsaved, PinSteps
    <3> QED BY <1>0, <3>1, StillUnsaved
  <2>3. CASE SavePinned(t)
    BY <1>0, <2>3, JustSaved DEF SavePinned, Save
  <2> QED BY <1>3, <2>1, <2>2, <2>3 DEF PinStep
<1>4. ASSUME NEW t \in Task, DeleteStep(t) PROVE SavedOrSaving'
  <2>1. CASE ReadContent(t) \/ Candidates(t) \/ CollectNext(t) \/ CollectEnd(t)
    <3>1. /\ pc[t] \notin Unsaved
          /\ UNCHANGED <<fragments, pinnedFrags, content, pinned, index, late>>
          /\ \E step \in Steps : Goto(t, step)
      BY <2>1 DEF ReadContent, Candidates, CollectNext, CollectEnd, Caller,
                  Unsaved, StoreSteps, PinSteps, DeleteSteps, Steps
    <3> QED BY <3>1, NothingChanged
  <2>2. CASE ReadSize(t) \/ FindFile(t) \/ RemoveFile(t) \/ RemoveFragment(t) \/ SubUsage(t)
             \/ SubStats(t) \/ RemoveContent(t) \/ CountRemoved(t)
    <3>1. late' = late /\ \E step \in Unsaved : Goto(t, step)
      BY <2>2 DEF ReadSize, FindFile, RemoveFile, RemoveFragment, SubUsage, SubStats,
                  RemoveContent, CountRemoved, CountContent, AfterFragment,
                  Unsaved, DeleteSteps
    <3> QED BY <1>0, <3>1, StillUnsaved
  <2>3. CASE SaveRemoved(t)
    BY <1>0, <2>3, JustSaved DEF SaveRemoved, Save
  <2> QED BY <1>4, <2>1, <2>2, <2>3 DEF DeleteStep
<1>5. ASSUME NEW t \in Task, Disconnect(t) PROVE SavedOrSaving'
  BY <1>5 DEF Disconnect
<1>6. CASE LateFileOp
  BY <1>0, <1>6 DEF LateFileOp
<1>7. CASE UNCHANGED vars
  BY <1>7 DEF vars, SavedOrSaving, Snapshot
<1> QED BY <1>1, <1>2, <1>3, <1>4, <1>5, <1>6, <1>7 DEF Next, Step

(* index.json describes what is in memory whenever no request is in         *)
(* progress, if no file operation fails and no handler is dropped.          *)
THEOREM IdleIsSaved ==
    ASSUME ~DiskFaults, ~Disconnects PROVE Spec => []IdleMeansSaved
<1>1. SavedOrSaving => IdleMeansSaved
  BY DEF SavedOrSaving, IdleMeansSaved, AllIdle, Unsaved, StoreSteps, PinSteps, DeleteSteps
<1>2. TypeOK /\ SavedOrSaving /\ [Next]_vars => SavedOrSaving' BY SavedKept
<1> QED BY <1>1, <1>2, SavedInit, TypeCorrect, PTL DEF Spec

(* content_count is the number of content items whenever no request is in   *)
(* progress, if no handler is dropped between its change and its count;     *)
(* file operations may fail.                                                *)
THEOREM IdleIsCounted ==
    ASSUME ~Disconnects PROVE Spec => []IdleMeansCounted
<1> DEFINE Counting == {"countPut", "countRemoved"}
<1> USE DEF TypeOK, TasksOK, memory
<1>1. Init => CountedOrCounting
  BY FS_EmptySet DEF Init, CountedOrCounting
<1>2. ASSUME TypeOK, CountedOrCounting, [Next]_vars PROVE CountedOrCounting'
  <2>1. ASSUME NEW t \in Task, NEW step, Goto(t, step), pc[t] \notin Counting,
               content' = content, stats'.content = stats.content
        PROVE  CountedOrCounting'
    <3>1. \A u \in Task : pc[u] \in Counting => pc'[u] = pc[u]
      BY <1>2, <2>1 DEF Goto
    <3> QED BY <1>2, <2>1, <3>1 DEF CountedOrCounting
  <2>2. ASSUME NEW t \in Task, PutContent(t) \/ RemoveContent(t) PROVE CountedOrCounting'
    BY <1>2, <2>2 DEF PutContent, RemoveContent, Goto, CountedOrCounting
  <2>3. ASSUME NEW t \in Task, CountPut(t) \/ CountRemoved(t) PROVE CountedOrCounting'
    BY <1>2, <2>3 DEF CountPut, CountRemoved, CountContent, CountedOrCounting, MemoryOK
  <2>4. ASSUME NEW t \in Task, Request(t) PROVE CountedOrCounting'
    <3>1. /\ pc[t] \notin Counting /\ UNCHANGED <<content, stats>>
          /\ \E step \in Steps : Goto(t, step)
      BY <2>4 DEF Request, Upload, Fetch, Replicate, Pin, Unpin, Delete, Collect, Begin,
                  StoreSteps, PinSteps, DeleteSteps, Steps
    <3> QED BY <2>1, <3>1
  <2>5. ASSUME NEW t \in Task, Step(t), ~(PutContent(t) \/ RemoveContent(t)),
               ~(CountPut(t) \/ CountRemoved(t))
        PROVE CountedOrCounting'
    <3>1. pc[t] \notin Counting /\ content' = content
      BY <2>5 DEF Step, StoreStep, PinStep, DeleteStep, HasFragment, CheckCapacity,
            WriteFile, InsertFragment, AddUsage, AddStats, SaveFragment, SavePut, Save,
            SetPinned, SetFragments, CountPinned, SavePinned, ReadContent, ReadSize,
            FindFile, RemoveFile, RemoveFragment, SubUsage, SubStats, SaveRemoved, Candidates,
            CollectNext, CollectEnd
    <3>2. stats'.content = stats.content
      BY <1>2, <2>5 DEF MemoryOK, Step, StoreStep, PinStep, DeleteStep, HasFragment,
            CheckCapacity,
            WriteFile, InsertFragment, AddUsage, AddStats, SaveFragment, SavePut, Save,
            SetPinned, SetFragments, CountPinned, SavePinned, ReadContent, ReadSize,
            FindFile, RemoveFile, RemoveFragment, SubUsage, SubStats, SaveRemoved, Candidates,
            CollectNext, CollectEnd
    <3>3. \E step : Goto(t, step)
      BY <2>5 DEF Step, StoreStep, PinStep, DeleteStep, HasFragment, CheckCapacity,
            WriteFile, InsertFragment, AddUsage, AddStats, SaveFragment, SavePut, Save,
            SetPinned, SetFragments, CountPinned, SavePinned, ReadContent, ReadSize,
            FindFile, RemoveFile, RemoveFragment, SubUsage, SubStats, SaveRemoved, Candidates,
            CollectNext, CollectEnd, AfterFragment
    <3> QED BY <2>1, <3>1, <3>2, <3>3
  <2>6. ASSUME NEW t \in Task, Disconnect(t) PROVE CountedOrCounting'
    BY <2>6 DEF Disconnect
  <2>7. CASE LateFileOp \/ UNCHANGED vars
    BY <1>2, <2>7 DEF LateFileOp, vars, CountedOrCounting
  <2> QED BY <1>2, <2>2, <2>3, <2>4, <2>5, <2>6, <2>7 DEF Next
<1>3. CountedOrCounting => IdleMeansCounted
  BY DEF CountedOrCounting, IdleMeansCounted, AllIdle
<1> QED BY <1>1, <1>2, <1>3, TypeCorrect, PTL DEF Spec

-----------------------------------------------------------------------------
(* The bytes of a set of fragments.                                         *)

LEMMA BytesType ==
    ASSUME NEW S \in SUBSET Frag
    PROVE  /\ IsFiniteSet({ b \in S \X (1..MaxSize) : b[2] <= Size[b[1]] })
           /\ Bytes(S) \in Nat
<1>1. IsFiniteSet(S) BY FragAssumption, FS_Subset
<1>2. IsFiniteSet(1..MaxSize) BY SizeAssumption, FS_Interval
<1>3. IsFiniteSet(S \X (1..MaxSize)) BY <1>1, <1>2, FS_Product
<1>4. IsFiniteSet({ b \in S \X (1..MaxSize) : b[2] <= Size[b[1]] }) BY <1>3, FS_Subset
<1> QED BY <1>4, FS_CardinalityType DEF Bytes

LEMMA BytesOfNone == Bytes({}) = 0
<1>1. { b \in {} \X (1..MaxSize) : b[2] <= Size[b[1]] } = {} OBVIOUS
<1> QED BY <1>1, FS_EmptySet DEF Bytes

LEMMA BytesOfOne ==
    ASSUME NEW f \in Frag PROVE Bytes({f}) = Size[f]
<1> DEFINE B == { b \in {f} \X (1..MaxSize) : b[2] <= Size[b[1]] }
           g == [i \in 1..Size[f] |-> <<f, i>>]
<1>1. Size[f] \in 0..MaxSize /\ MaxSize \in Nat BY SizeAssumption
<1>2. \A i \in 1..Size[f] : <<f, i>> \in B BY <1>1
<1>3. \A b \in B : b[2] \in 1..Size[f] /\ b = <<f, b[2]>> BY <1>1
<1>4. g \in Bijection(1..Size[f], B)
  <2>1. g \in [1..Size[f] -> B] BY <1>2
  <2>2. \A i, j \in 1..Size[f] : g[i] = g[j] => i = j OBVIOUS
  <2>3. \A b \in B : \E i \in 1..Size[f] : g[i] = b
    <3> SUFFICES ASSUME NEW b \in B PROVE \E i \in 1..Size[f] : g[i] = b OBVIOUS
    <3>1. b[2] \in 1..Size[f] /\ g[b[2]] = b BY <1>3
    <3> QED BY <3>1
  <2> QED BY <2>1, <2>2, <2>3 DEF Bijection, Injection, Surjection, IsInjective
<1>5. Cardinality(B) = Size[f]
  BY <1>1, <1>4, FS_CountingElements DEF ExistsBijection
<1> QED BY <1>5 DEF Bytes

LEMMA BytesAdd ==
    ASSUME NEW S \in SUBSET Frag, NEW f \in Frag
    PROVE  Bytes(S \cup {f}) = IF f \in S THEN Bytes(S) ELSE Bytes(S) + Size[f]
<1>1. CASE f \in S
  <2>1. S \cup {f} = S BY <1>1
  <2> QED BY <1>1, <2>1
<1>2. CASE f \notin S
  <2> DEFINE B(T) == { b \in T \X (1..MaxSize) : b[2] <= Size[b[1]] }
  <2>1. B(S \cup {f}) = B(S) \cup B({f}) /\ B(S) \cap B({f}) = {} BY <1>2
  <2>2. IsFiniteSet(B(S)) /\ IsFiniteSet(B({f})) BY BytesType
  <2>3. Cardinality(B(S)) \in Nat /\ Cardinality(B({f})) = Size[f] /\ Size[f] \in Nat
    BY BytesType, BytesOfOne, SizeAssumption DEF Bytes
  <2>4. Cardinality(B(S) \cup B({f})) = Cardinality(B(S)) + Cardinality(B({f}))
    <3>1. Cardinality(B(S) \cap B({f})) = 0 BY <2>1, FS_EmptySet
    <3>2. Cardinality(B(S) \cup B({f}))
            = Cardinality(B(S)) + Cardinality(B({f})) - Cardinality(B(S) \cap B({f}))
      BY <2>2, FS_Union, Zenon
    <3> HIDE DEF B
    <3> QED BY <2>3, <3>1, <3>2
  <2> QED BY <1>2, <2>1, <2>3, <2>4 DEF Bytes
<1> QED BY <1>1, <1>2

LEMMA BytesRemove ==
    ASSUME NEW S \in SUBSET Frag, NEW f \in Frag
    PROVE  Bytes(S) = IF f \in S THEN Bytes(S \ {f}) + Size[f] ELSE Bytes(S \ {f})
<1>1. CASE f \in S
  <2>1. (S \ {f}) \cup {f} = S /\ f \notin S \ {f} BY <1>1
  <2> QED BY <1>1, <2>1, BytesAdd
<1>2. CASE f \notin S
  <2>1. S \ {f} = S BY <1>2
  <2> QED BY <1>2, <2>1
<1> QED BY <1>1, <1>2

-----------------------------------------------------------------------------
(* Types, with every fault and any number of crashes.                       *)

LEMMA TypeNext == TypeOK /\ [Next]_vars => TypeOK'
BY TasksType, MemoryType, DiskType DEF TypeOK

LEMMA LoadType ==
    ASSUME NEW d \in Snapshots, Load(d) PROVE MemoryOK'
<1>1. /\ d.fragments \in SUBSET Frag /\ d.pinnedFrags \subseteq d.fragments
      /\ d.content \in SUBSET Content /\ d.pinned \subseteq d.content
  BY DEF Snapshots
<1>2. Bytes(d.fragments) \in Nat BY <1>1, BytesType
<1>3. IsFiniteSet(d.fragments) /\ IsFiniteSet(d.content) /\ IsFiniteSet(d.pinned)
  BY <1>1, FragAssumption, ManifestAssumption, FS_Subset
<1>4. Cardinality(d.fragments) \in Nat /\ Cardinality(d.content) \in Nat /\ Cardinality(d.pinned) \in Nat
  BY <1>3, FS_CardinalityType
<1> QED BY <1>1, <1>2, <1>4 DEF Load, MemoryOK

LEMMA CrashType ==
    ASSUME TypeOK, Crash PROVE TypeOK'
<1>1. index' \in Snapshots BY BlankType DEF Crash, Torn, TypeOK, DiskOK
<1>2. MemoryOK' BY <1>1, LoadType DEF Crash
<1>3. DiskOK' BY <1>1 DEF Crash, TypeOK, DiskOK
<1>4. TasksOK' BY DEF Crash, TypeOK, TasksOK, locals, Steps
<1> QED BY <1>2, <1>3, <1>4 DEF TypeOK

LEMMA AcknowledgeType ==
    ASSUME TypeOK, TypeOK', acked \in SUBSET Content, ackedPins \in SUBSET Content, Acknowledge
    PROVE  acked' \in SUBSET content' /\ ackedPins' \in SUBSET pinned'
BY DEF Acknowledge

(* Through any number of crashes, with every fault, the state of the node   *)
(* and of its requests stays well formed; in particular an index that is    *)
(* loaded pins only what it lists.                                          *)
THEOREM CrashTypeCorrect == CrashSpec => []CrashTypeOK
<1>1. CrashInit => CrashTypeOK BY TypeInit, CrashAssumption DEF CrashInit, CrashTypeOK
<1>2. ASSUME CrashTypeOK, [CrashNext]_crashVars PROVE CrashTypeOK'
  <2> USE DEF CrashTypeOK
  <2>1. CASE Next /\ Acknowledge /\ UNCHANGED crashes
    <3>1. TypeOK' BY <1>2, <2>1, TypeNext
    <3>2. acked' \in SUBSET Content /\ ackedPins' \in SUBSET Content
      BY <1>2, <2>1, <3>1, AcknowledgeType DEF TypeOK, MemoryOK
    <3> QED BY <1>2, <2>1, <3>1, <3>2
  <2>2. CASE Crash
    <3>1. TypeOK' BY <1>2, <2>2, CrashType
    <3>2. crashes' \in 0..MaxCrashes BY <1>2, <2>2, CrashAssumption DEF Crash
    <3> QED BY <1>2, <2>2, <3>1, <3>2 DEF Crash
  <2>3. CASE UNCHANGED crashVars
    <3>1. TypeOK' BY <1>2, <2>3, TypeNext DEF crashVars
    <3> QED BY <1>2, <2>3, <3>1 DEF crashVars
  <2> QED BY <1>2, <2>1, <2>2, <2>3 DEF CrashNext
<1> QED BY <1>1, <1>2, PTL DEF CrashSpec

-----------------------------------------------------------------------------
(* What was answered with success survives.                                 *)

\* Without faults and disconnections the index is written whole, from the maps.
LEMMA IndexFollows ==
    ASSUME ~DiskFaults, ~Disconnects, late = {}, [Next]_vars
    PROVE  late' = {} /\ (index' = index \/ index' = Snapshot)
<1> USE DEF disk, memory
<1>1. ASSUME NEW t \in Task, Request(t) PROVE UNCHANGED <<index, late>>
  BY <1>1 DEF Request, Upload, Fetch, Replicate, Pin, Unpin, Delete, Collect, Begin
<1>2. ASSUME NEW t \in Task, Step(t) PROVE late' = late /\ (index' = index \/ index' = Snapshot)
  BY <1>2 DEF Step, StoreStep, PinStep, DeleteStep, HasFragment, CheckCapacity,
        WriteFile, InsertFragment, AddUsage, AddStats, SaveFragment, SavePut, Save,
        PutContent, CountPut, CountRemoved, CountContent,
        SetPinned, SetFragments, CountPinned, SavePinned, ReadContent, ReadSize,
        FindFile, RemoveFile, RemoveFragment, SubUsage, SubStats, RemoveContent, SaveRemoved,
        Candidates, CollectNext, CollectEnd
<1>3. ASSUME NEW t \in Task, Disconnect(t) PROVE FALSE BY <1>3 DEF Disconnect
<1>4. CASE LateFileOp BY <1>4 DEF LateFileOp
<1>5. CASE UNCHANGED vars BY <1>5 DEF vars
<1> QED BY <1>1, <1>2, <1>3, <1>4, <1>5 DEF Next

\* What was answered is in memory and in the index.
AckedSaved ==
    /\ late = {}
    /\ acked \subseteq content \cap index.content
    /\ ackedPins \subseteq pinned \cap index.pinned

(* If writes of the index neither fail nor are torn and no handler is       *)
(* dropped, what was answered with success survives every crash, however    *)
(* many other requests were in progress.                                    *)
THEOREM AckedIsKept ==
    ASSUME ~DiskFaults, ~Disconnects, ~TornWrites PROVE CrashSpec => []AckedSurvives
<1>1. CrashInit => AckedSaved BY DEF CrashInit, Init, AckedSaved
<1>2. ASSUME AckedSaved, [CrashNext]_crashVars PROVE AckedSaved'
  <2>1. CASE Next /\ Acknowledge /\ UNCHANGED crashes
    <3>1. late' = {} /\ (index' = index \/ index' = Snapshot)
      BY <1>2, <2>1, IndexFollows DEF AckedSaved
    <3>2. acked' \subseteq content' /\ ackedPins' \subseteq pinned'
      BY <2>1 DEF Acknowledge
    <3>3. CASE index' = Snapshot
      <4>1. index'.content = content /\ index'.pinned = pinned BY <3>3 DEF Snapshot
      <4>2. acked' \subseteq content /\ ackedPins' \subseteq pinned
        BY <1>2, <2>1 DEF AckedSaved, Acknowledge
      <4> QED BY <3>1, <3>2, <4>1, <4>2 DEF AckedSaved
    <3>4. CASE index' = index /\ index' # Snapshot
      <4>1. Finished("upload") = {} /\ Finished("pin") = {} BY <3>4 DEF Finished
      <4>2. acked' \subseteq acked /\ ackedPins' \subseteq ackedPins
        BY <2>1, <4>1 DEF Acknowledge
      <4> QED BY <1>2, <3>1, <3>2, <3>4, <4>2 DEF AckedSaved
    <3> QED BY <3>1, <3>3, <3>4
  <2>2. CASE Crash
    <3>1. index' = index /\ late' = {} /\ acked' = acked /\ ackedPins' = ackedPins
      BY <2>2 DEF Crash
    <3>2. content' = index.content /\ pinned' = index.pinned
      BY <2>2, <3>1 DEF Crash, Load
    <3> QED BY <1>2, <3>1, <3>2 DEF AckedSaved
  <2>3. CASE UNCHANGED crashVars
    BY <1>2, <2>3 DEF crashVars, vars, memory, disk, AckedSaved
  <2> QED BY <1>2, <2>1, <2>2, <2>3 DEF CrashNext
<1>3. AckedSaved => AckedSurvives BY DEF AckedSaved, AckedSurvives
<1> QED BY <1>1, <1>2, <1>3, PTL DEF CrashSpec

-----------------------------------------------------------------------------
(* One request at a time.                                                   *)

OneAtATime == \A t, u \in Task : t = u

LEMMA AccountedInit == Init => Accounted
BY BytesOfNone DEF Init, Accounted

\* A step that leaves the maps and the usage alone, outside the sections in which
\* they differ.
LEMMA QuietAccounted ==
    ASSUME OneAtATime, Accounted, NEW t \in Task, UNCHANGED <<fragments, usage>>,
           pc[t] \notin {"addUsage", "subUsage"},
           pc'[t] \notin {"addUsage", "subUsage", "findFile", "removeFile", "removeFragment"}
    PROVE  Accounted'
<1> SUFFICES ASSUME NEW u \in Task PROVE Bytes(fragments') <= usage' /\ u = t
  BY DEF Accounted
<1> QED BY DEF Accounted, OneAtATime

LEMMA AccountedNext ==
    ASSUME OneAtATime, ~Disconnects, TypeOK, Accounted, [Next]_vars
    PROVE  Accounted'
<1> USE DEF TypeOK, TasksOK, memory, locals
<1>0. fragments \in SUBSET Frag /\ usage \in Nat /\ Bytes(fragments) \in Nat
  BY BytesType DEF MemoryOK
<1>1. ASSUME NEW t \in Task, Request(t) PROVE Accounted'
  <2>1. /\ UNCHANGED <<fragments, usage>> /\ pc[t] = "idle"
        /\ pc'[t] \in {"capacity", "hasFragment", "setPinned", "readContent", "candidates"}
    BY <1>1 DEF Request, Upload, Fetch, Replicate, Pin, Unpin, Delete, Collect, Begin, Goto
  <2> QED BY <2>1, QuietAccounted
<1>2. ASSUME NEW t \in Task, StoreStep(t) PROVE Accounted'
  <2> DEFINE f == Current(t)
  <2>0. f \in Frag /\ Size[f] \in Nat BY CurrentType, SizeAssumption
  <2>1. CASE HasFragment(t) \/ CheckCapacity(t) \/ WriteFile(t) \/ AddStats(t)
             \/ SaveFragment(t) \/ PutContent(t) \/ CountPut(t) \/ SavePut(t)
    <3>1. /\ UNCHANGED <<fragments, usage>> /\ pc[t] \notin {"addUsage", "subUsage"}
          /\ pc'[t] \notin {"addUsage", "subUsage", "findFile", "removeFile", "removeFragment"}
      BY <2>1 DEF HasFragment, CheckCapacity, WriteFile, AddStats, SaveFragment, PutContent,
                  CountPut, CountContent, SavePut, Save, AfterFragment, Goto
    <3> QED BY <3>1, QuietAccounted
  <2>2. CASE InsertFragment(t)
    <3>1. pc[t] = "insert" /\ pc'[t] = "addUsage" /\ fragments' = fragments \cup {f}
          /\ UNCHANGED <<usage, cid, idx>>
      BY <2>2 DEF InsertFragment, Goto
    <3>2. Bytes(fragments) <= usage BY <3>1 DEF Accounted
    <3>3. Bytes(fragments \cup {f}) <= usage + Size[f]
      <4>1. Bytes(fragments \cup {f}) = IF f \in fragments THEN Bytes(fragments)
                                       ELSE Bytes(fragments) + Size[f]
        BY <1>0, <2>0, BytesAdd, Zenon
      <4> HIDE DEF f
      <4> QED BY <1>0, <2>0, <3>2, <4>1
    <3>4. Current(t)' = f BY <3>1 DEF Current
    <3> QED BY <3>1, <3>3, <3>4 DEF Accounted, OneAtATime
  <2>3. CASE AddUsage(t)
    <3>1. pc[t] = "addUsage" /\ pc'[t] = "addStats" /\ usage' = usage + Size[f]
          /\ UNCHANGED fragments
      BY <2>3 DEF AddUsage, Goto
    <3>2. Bytes(fragments) <= usage + Size[f] BY <3>1 DEF Accounted
    <3> QED BY <3>1, <3>2 DEF Accounted, OneAtATime
  <2> QED BY <1>2, <2>1, <2>2, <2>3 DEF StoreStep
<1>3. ASSUME NEW t \in Task, PinStep(t) PROVE Accounted'
  <2>1. /\ UNCHANGED <<fragments, usage>> /\ pc[t] \notin {"addUsage", "subUsage"}
        /\ pc'[t] \notin {"addUsage", "subUsage", "findFile", "removeFile", "removeFragment"}
    BY <1>3 DEF PinStep, SetPinned, SetFragments, CountPinned, SavePinned, Save, Goto
  <2> QED BY <2>1, QuietAccounted
<1>4. ASSUME NEW t \in Task, DeleteStep(t) PROVE Accounted'
  <2> DEFINE f == Current(t)
  <2>0. f \in Frag /\ Size[f] \in Nat /\ size[t] \in Nat BY CurrentType, SizeAssumption
  <2>1. CASE ReadContent(t) \/ SubStats(t) \/ RemoveContent(t) \/ CountRemoved(t)
             \/ SaveRemoved(t) \/ Candidates(t) \/ CollectNext(t) \/ CollectEnd(t)
    <3>1. /\ UNCHANGED <<fragments, usage>> /\ pc[t] \notin {"addUsage", "subUsage"}
          /\ pc'[t] \notin {"addUsage", "subUsage", "findFile", "removeFile", "removeFragment"}
      BY <2>1 DEF ReadContent, SubStats, RemoveContent, CountRemoved, CountContent,
                  SaveRemoved, Save, Candidates, CollectNext, CollectEnd, Caller,
                  AfterFragment, Goto
    <3> QED BY <3>1, QuietAccounted
  <2>2. CASE ReadSize(t)
    <3>1. /\ pc[t] = "readSize" /\ pc'[t] = "findFile" /\ UNCHANGED <<fragments, usage, cid, idx>>
          /\ size'[t] = IF f \in fragments THEN Size[f] ELSE 0
      BY <2>2 DEF ReadSize, Goto
    <3>2. Current(t)' = f BY <3>1 DEF Current
    <3> QED BY <3>1, <3>2 DEF Accounted, OneAtATime
  <2>3. CASE FindFile(t) \/ (RemoveFile(t) /\ pc'[t] = "removeFragment")
    <3>1. /\ pc[t] \in {"findFile", "removeFile"} /\ pc'[t] \in {"removeFile", "removeFragment"}
          /\ UNCHANGED <<fragments, usage, cid, idx, size>>
      BY <2>3 DEF FindFile, RemoveFile, AfterFragment, Goto
    <3>2. Current(t)' = f BY <3>1 DEF Current
    <3> QED BY <3>1, <3>2 DEF Accounted, OneAtATime
  <2>4. CASE RemoveFile(t) /\ pc'[t] # "removeFragment"
    <3>1. /\ UNCHANGED <<fragments, usage>> /\ pc[t] \notin {"addUsage", "subUsage"}
          /\ pc'[t] \notin {"addUsage", "subUsage", "findFile", "removeFile", "removeFragment"}
      BY <2>4 DEF RemoveFile, AfterFragment, Goto
    <3> QED BY <3>1, QuietAccounted
  <2>5. CASE RemoveFragment(t)
    <3>1. /\ pc[t] = "removeFragment" /\ pc'[t] = "subUsage" /\ fragments' = fragments \ {f}
          /\ UNCHANGED <<usage, size>>
      BY <2>5 DEF RemoveFragment, Goto
    <3>2. /\ Bytes(fragments) <= usage
          /\ size[t] = IF f \in fragments THEN Size[f] ELSE 0
      BY <3>1 DEF Accounted
    <3>3. Bytes(fragments \ {f}) \in Nat BY <1>0, BytesType
    <3>4. Bytes(fragments \ {f}) + size[t] <= usage
      <4>1. Bytes(fragments) = IF f \in fragments THEN Bytes(fragments \ {f}) + Size[f]
                               ELSE Bytes(fragments \ {f})
        BY <1>0, <2>0, BytesRemove, Zenon
      <4> HIDE DEF f
      <4> QED BY <1>0, <2>0, <3>2, <3>3, <4>1
    <3> QED BY <3>1, <3>4 DEF Accounted, OneAtATime
  <2>6. CASE SubUsage(t)
    <3>1. /\ pc[t] = "subUsage" /\ pc'[t] = "subStats" /\ UNCHANGED fragments
          /\ usage' = Monus(usage, size[t])
      BY <2>6 DEF SubUsage, Goto
    <3>2. Bytes(fragments) + size[t] <= usage BY <3>1 DEF Accounted
    <3>3. Bytes(fragments) <= usage' BY <1>0, <2>0, <3>1, <3>2 DEF Monus
    <3> QED BY <3>1, <3>3 DEF Accounted, OneAtATime
  <2> QED BY <1>4, <2>1, <2>2, <2>3, <2>4, <2>5, <2>6 DEF DeleteStep
<1>5. ASSUME NEW t \in Task, Disconnect(t) PROVE Accounted'
  BY <1>5 DEF Disconnect
<1>6. CASE LateFileOp \/ UNCHANGED vars
  <2>1. UNCHANGED <<fragments, usage, pc, cid, idx, size>> BY <1>6 DEF LateFileOp, vars
  <2>2. \A t \in Task : Current(t)' = Current(t) BY <2>1 DEF Current
  <2> QED BY <2>1, <2>2 DEF Accounted
<1> QED BY <1>1, <1>2, <1>3, <1>4, <1>5, <1>6 DEF Next, Step

(* If requests come one at a time and no handler is dropped, the usage is   *)
(* never below the bytes that are stored, so that the capacity check admits *)
(* no more than fits; through crashes, torn indexes and failing files.      *)
THEOREM NothingIsUndercounted ==
    ASSUME OneAtATime, ~Disconnects PROVE CrashSpec => []NeverUndercounts
<1>1. CrashInit => Accounted BY AccountedInit DEF CrashInit
<1>2. ASSUME CrashTypeOK, Accounted, [CrashNext]_crashVars PROVE Accounted'
  <2>1. CASE Crash
    <3>1. /\ usage' = Bytes(fragments')
          /\ \A t \in Task : pc'[t] = "idle"
      BY <2>1 DEF Crash, Load
    <3>2. TypeOK' BY <1>2, <2>1, CrashType DEF CrashTypeOK
    <3>3. Bytes(fragments') \in Nat BY <3>2, BytesType DEF TypeOK, MemoryOK
    <3> QED BY <3>1, <3>3 DEF Accounted
  <2>2. CASE [Next]_vars BY <1>2, <2>2, AccountedNext DEF CrashTypeOK
  <2> QED BY <1>2, <2>1, <2>2 DEF CrashNext, crashVars
<1>3. CrashTypeOK /\ Accounted => NeverUndercounts
  <2> SUFFICES ASSUME CrashTypeOK, Accounted, AllIdle PROVE usage >= Bytes(fragments)
    BY DEF NeverUndercounts
  <2>1. PICK t \in Task : TRUE BY TaskAssumption
  <2>2. Bytes(fragments) <= usage BY <2>1 DEF Accounted, AllIdle
  <2>3. usage \in Nat /\ Bytes(fragments) \in Nat
    BY BytesType DEF CrashTypeOK, TypeOK, MemoryOK
  <2> QED BY <2>2, <2>3
<1> QED BY <1>1, <1>2, <1>3, CrashTypeCorrect, PTL DEF CrashSpec

-----------------------------------------------------------------------------
(* One request at a time, the storage implements ContentStore.              *)

Reliable == ~DiskFaults /\ ~Disconnects /\ ~TornWrites
DisjointManifests == \A c, d \in Content : c # d => FragSet(c) \cap FragSet(d) = {}

Parses == index.parses = TRUE

CrashInv == CrashTypeOK /\ SavedOrSaving /\ Parses /\ DeletionOrdered

LEMMA RestIsSaved ==
    ASSUME OneAtATime, SavedOrSaving, NEW t \in Task, pc[t] \notin Unsaved
    PROVE  index = Snapshot
BY DEF OneAtATime, SavedOrSaving

\* A restart loads what the index holds.
LEMMA LoadedIsSaved ==
    ASSUME TypeOK, Reliable, Parses, Crash
    PROVE  index' = index /\ Snapshot' = index
<1>1. index' = index BY DEF Crash, Reliable
<1>2. index \in Snapshots BY DEF TypeOK, DiskOK
<1>3. index = [parses |-> TRUE, fragments |-> index.fragments,
               pinnedFrags |-> index.pinnedFrags, content |-> index.content,
               pinned |-> index.pinned]
  BY <1>2 DEF Snapshots, Parses
<1>4. /\ fragments' = index.fragments /\ pinnedFrags' = index.pinnedFrags
      /\ content' = index.content /\ pinned' = index.pinned
  BY <1>1 DEF Crash, Load
<1> QED BY <1>1, <1>3, <1>4 DEF Snapshot

Deleting == {"readSize", "findFile", "removeFile", "removeFragment",
             "subUsage", "subStats", "removeContent"}

LEMMA DeletionKept ==
    ASSUME OneAtATime, Reliable, CrashTypeOK, SavedOrSaving, DeletionOrdered, [Next]_vars
    PROVE  DeletionOrdered'
<1> USE DEF CrashTypeOK, TypeOK, TasksOK, memory, disk, locals
<1>1. ASSUME NEW t \in Task, pc'[t] \notin Deleting PROVE DeletionOrdered'
  BY <1>1 DEF DeletionOrdered, OneAtATime, Deleting
<1>2. ASSUME NEW t \in Task, Request(t) PROVE DeletionOrdered'
  <2>1. pc'[t] \notin Deleting
    BY <1>2 DEF Request, Upload, Fetch, Replicate, Pin, Unpin, Delete, Collect, Begin, Goto,
                Deleting
  <2> QED BY <1>1, <2>1
<1>3. ASSUME NEW t \in Task, StoreStep(t) \/ PinStep(t) PROVE DeletionOrdered'
  <2>1. pc'[t] \notin Deleting
    BY <1>3 DEF StoreStep, PinStep, HasFragment, CheckCapacity, WriteFile, InsertFragment,
                AddUsage, AddStats, SaveFragment, PutContent, CountPut, CountContent, SavePut,
                Save, SetPinned, SetFragments, CountPinned, SavePinned, AfterFragment, Goto,
                Deleting
  <2> QED BY <1>1, <2>1
<1>4. ASSUME NEW t \in Task, ReadContent(t) PROVE DeletionOrdered'
  <2>1. pc[t] = "readContent" /\ UNCHANGED <<memory, disk, locals>>
    BY <1>4 DEF ReadContent
  <2>2. index = Snapshot
    BY <2>1, RestIsSaved DEF Unsaved, StoreSteps, PinSteps, DeleteSteps
  <2>3. index.content = content /\ index.fragments = fragments BY <2>2 DEF Snapshot
  <2>4. CASE cid[t] \in content \ pinned
    <3>1. pc'[t] = "readSize" BY <1>4, <2>4 DEF ReadContent, Goto
    <3> QED BY <2>1, <2>3, <2>4, <3>1 DEF DeletionOrdered, OneAtATime
  <2>5. CASE cid[t] \notin content \ pinned
    <3>1. pc'[t] \notin Deleting BY <1>4, <2>5 DEF ReadContent, Goto, Caller, Deleting
    <3> QED BY <1>1, <3>1
  <2> QED BY <2>4, <2>5
<1>5. ASSUME NEW t \in Task,
             ReadSize(t) \/ FindFile(t) \/ RemoveFile(t) \/ RemoveFragment(t) \/ SubUsage(t)
             \/ SubStats(t)
      PROVE  DeletionOrdered'
  <2>1. /\ pc[t] \in Deleting /\ UNCHANGED <<content, pinned, index, cid>>
        /\ fragments' \in {fragments, fragments \ {Current(t)}}
        /\ files' \in {files, files \ {Current(t)}}
        /\ fragments' # fragments => pc[t] = "removeFragment"
    BY <1>5 DEF ReadSize, FindFile, RemoveFile, RemoveFragment, SubUsage, SubStats, Deleting
  <2>2. /\ cid[t] \notin pinned /\ index.content \subseteq content
        /\ index.fragments \cap files \subseteq fragments
        /\ pc[t] = "removeFragment" => Current(t) \notin files
    BY <2>1 DEF DeletionOrdered, Deleting
  <2>3. index'.fragments \cap files' \subseteq fragments' BY <2>1, <2>2
  <2>4. pc'[t] = "removeFragment" => Current(t)' \notin files'
    <3>1. CASE ReadSize(t) \/ RemoveFragment(t) \/ SubUsage(t) \/ SubStats(t)
      BY <3>1 DEF ReadSize, RemoveFragment, SubUsage, SubStats, AfterFragment, Goto
    <3>2. CASE FindFile(t)
      BY <3>2 DEF FindFile, Goto, Current
    <3>3. CASE RemoveFile(t)
      BY <3>3 DEF RemoveFile, AfterFragment, Goto, Current
    <3> QED BY <1>5, <3>1, <3>2, <3>3
  <2> QED BY <2>1, <2>2, <2>3, <2>4 DEF DeletionOrdered, OneAtATime
<1>6. ASSUME NEW t \in Task,
             RemoveContent(t) \/ CountRemoved(t) \/ SaveRemoved(t) \/ Candidates(t)
             \/ CollectNext(t) \/ CollectEnd(t)
      PROVE  DeletionOrdered'
  <2>1. pc'[t] \notin Deleting
    BY <1>6 DEF RemoveContent, CountRemoved, CountContent, SaveRemoved, Save, Candidates,
                CollectNext, CollectEnd, Caller, Goto, Deleting
  <2> QED BY <1>1, <2>1
<1>7. ASSUME NEW t \in Task, Disconnect(t) PROVE DeletionOrdered'
  BY <1>7 DEF Disconnect, Reliable
<1>8. CASE LateFileOp BY <1>8 DEF LateFileOp, SavedOrSaving
<1>9. CASE UNCHANGED vars
  <2>1. \A t \in Task : Current(t)' = Current(t) BY <1>9 DEF vars, Current
  <2> QED BY <1>9, <2>1 DEF vars, DeletionOrdered
<1> QED BY <1>2, <1>3, <1>4, <1>5, <1>6, <1>7, <1>8, <1>9 DEF Next, Step, DeleteStep

LEMMA CrashInvCorrect ==
    ASSUME OneAtATime, Reliable PROVE CrashSpec => []CrashInv
<1>1. CrashInit => SavedOrSaving /\ Parses /\ DeletionOrdered
  BY SavedInit DEF Parses, CrashInit, Init, Blank, DeletionOrdered
<1>2. ASSUME CrashTypeOK, SavedOrSaving, Parses, DeletionOrdered,
             [CrashNext]_crashVars
      PROVE  SavedOrSaving' /\ Parses' /\ DeletionOrdered'
  <2>1. CASE [Next]_vars
    <3>1. SavedOrSaving' BY <1>2, <2>1, SavedKept DEF Reliable, CrashTypeOK
    <3>2. index' = index \/ index' = Snapshot
      BY <1>2, <2>1, IndexFollows DEF Reliable, SavedOrSaving
    <3>3. Parses' BY <1>2, <3>2 DEF Parses, Snapshot
    <3> QED BY <1>2, <2>1, <3>1, <3>3, DeletionKept
  <2>2. CASE Crash
    <3>1. index' = index /\ Snapshot' = index
      BY <1>2, <2>2, LoadedIsSaved DEF CrashTypeOK, Parses
    <3>2. late' = {} /\ \A t \in Task : pc'[t] = "idle" BY <2>2 DEF Crash
    <3> QED BY <1>2, <3>1, <3>2 DEF SavedOrSaving, DeletionOrdered, Parses
  <2> QED BY <1>2, <2>1, <2>2 DEF CrashNext, crashVars
<1> QED BY <1>1, <1>2, CrashTypeCorrect, PTL DEF CrashSpec, CrashInv

\* What can be read of a snapshot when the set of files is F.
Read(C, S, F) == { c \in C : FragSet(c) \subseteq S \cap F }

LEMMA ReadableIs ==
    /\ Readable(Snapshot) = Read(content, fragments, files)
    /\ Readable(index) = Read(index.content, index.fragments, files)
BY DEF Readable, Snapshot, Read

LEMMA ReadableIsNext ==
    /\ Readable(Snapshot)' = Read(content', fragments', files')
    /\ Readable(index)' = Read(index'.content, index'.fragments, files')
BY DEF Readable, Snapshot, Read

\* A fragment belongs to one content: with it, at most that one can be read
\* which could not be read before (ReadMore); without it, that one cannot (ReadLess).
LEMMA ReadMore ==
    ASSUME DisjointManifests, NEW C \in SUBSET Content, NEW S, NEW F, NEW c \in Content,
           NEW f \in FragSet(c)
    PROVE  /\ Read(C, S, F \cup {f}) \in {Read(C, S, F), Read(C, S, F) \cup {c}}
           /\ Read(C, S \cup {f}, F) \in {Read(C, S, F), Read(C, S, F) \cup {c}}
<1>1. \A d \in C : d # c => f \notin FragSet(d) BY DEF DisjointManifests
<1>2. Read(C, S, F \cup {f}) \in {Read(C, S, F), Read(C, S, F) \cup {c}}
  <2>1. \A d \in C : d # c =>
           (FragSet(d) \subseteq S \cap (F \cup {f}) <=> FragSet(d) \subseteq S \cap F)
    BY <1>1
  <2>2. Read(C, S, F) \subseteq Read(C, S, F \cup {f}) BY DEF Read
  <2>3. Read(C, S, F \cup {f}) \subseteq Read(C, S, F) \cup {c} BY <2>1 DEF Read
  <2> QED BY <2>2, <2>3
<1>3. Read(C, S \cup {f}, F) \in {Read(C, S, F), Read(C, S, F) \cup {c}}
  <2>1. \A d \in C : d # c =>
           (FragSet(d) \subseteq (S \cup {f}) \cap F <=> FragSet(d) \subseteq S \cap F)
    BY <1>1
  <2>2. Read(C, S, F) \subseteq Read(C, S \cup {f}, F) BY DEF Read
  <2>3. Read(C, S \cup {f}, F) \subseteq Read(C, S, F) \cup {c} BY <2>1 DEF Read
  <2> QED BY <2>2, <2>3
<1> QED BY <1>2, <1>3

LEMMA ReadLess ==
    ASSUME DisjointManifests, NEW C \in SUBSET Content, NEW S, NEW F, NEW c \in Content,
           NEW f \in FragSet(c)
    PROVE  Read(C, S, F \ {f}) = Read(C, S, F) \ {c}
<1>1. \A d \in C : d # c => f \notin FragSet(d) BY DEF DisjointManifests
<1>2. \A d \in C : d # c =>
         (FragSet(d) \subseteq S \cap (F \ {f}) <=> FragSet(d) \subseteq S \cap F)
  BY <1>1
<1>3. ~(FragSet(c) \subseteq S \cap (F \ {f})) OBVIOUS
<1> QED BY <1>2, <1>3 DEF Read

LEMMA CurrentOfCid ==
    ASSUME TasksOK, NEW t \in Task
    PROVE  cid[t] \in Content /\ Current(t) \in FragSet(cid[t])
<1>1. cid[t] \in Content /\ FragsOf[cid[t]] \in Seq(Frag) /\ idx[t] \in 1..Len(FragsOf[cid[t]])
  BY ManifestAssumption DEF TasksOK
<1> QED BY <1>1 DEF Current, FragSet

LEMMA SameToAll ==
    ASSUME UNCHANGED <<fragments, content, pinned, files, index>>
    PROVE  UNCHANGED Store!vars
BY ReadableIs, ReadableIsNext DEF Store!vars

LEMMA SaveFlushes ==
    ASSUME index' = Snapshot, UNCHANGED <<memory, files>>
    PROVE  Store!Flush
<1>1. Readable(index)' = Readable(Snapshot) /\ Readable(Snapshot)' = Readable(Snapshot)
  BY ReadableIs, ReadableIsNext DEF Snapshot, memory
<1>2. index'.pinned = pinned /\ pinned' = pinned BY DEF Snapshot, memory
<1> QED BY <1>1, <1>2 DEF Store!Flush

LEMMA StoreImplements ==
    ASSUME OneAtATime, Reliable, DisjointManifests, CrashInv, NEW t \in Task, StoreStep(t)
    PROVE  [Store!Next]_Store!vars
<1> USE DEF CrashInv, CrashTypeOK, TypeOK, MemoryOK, memory, disk, locals
<1> DEFINE c == cid[t]
           f == Current(t)
<1>0. c \in Content /\ f \in FragSet(c) BY CurrentOfCid
<1>1. CASE HasFragment(t) \/ CheckCapacity(t) \/ AddUsage(t) \/ AddStats(t) \/ CountPut(t)
  BY <1>1, SameToAll DEF HasFragment, CheckCapacity, AddUsage, AddStats, CountPut, CountContent
<1>2. CASE WriteFile(t)
  <2>1. /\ pc[t] = "write" /\ files' = files \cup {f}
        /\ UNCHANGED <<fragments, content, pinned, index>>
    BY <1>2 DEF WriteFile, Reliable
  <2>2. index = Snapshot
    BY <2>1, RestIsSaved DEF Unsaved, StoreSteps, PinSteps, DeleteSteps
  <2>3. Readable(index) = Readable(Snapshot) /\ Readable(index)' = Readable(Snapshot)'
    BY <2>1, <2>2, ReadableIs, ReadableIsNext DEF Snapshot
  <2>4. Readable(Snapshot)' \in {Readable(Snapshot), Readable(Snapshot) \cup {c}}
    <3>1. Read(content, fragments, files \cup {f})
            \in {Read(content, fragments, files), Read(content, fragments, files) \cup {c}}
      BY <1>0, ReadMore
    <3> QED BY <2>1, <3>1, ReadableIs, ReadableIsNext, Zenon
  <2>5. CASE Readable(Snapshot)' = Readable(Snapshot)
    BY <2>1, <2>3, <2>5 DEF Store!vars
  <2>6. CASE Readable(Snapshot)' = Readable(Snapshot) \cup {c}
    <3>1. Store!Put(c) BY <2>1, <2>3, <2>6 DEF Store!Put
    <3> QED BY <1>0, <3>1 DEF Store!Next
  <2> QED BY <2>4, <2>5, <2>6
<1>3. CASE InsertFragment(t)
  <2>1. fragments' = fragments \cup {f} /\ UNCHANGED <<files, content, pinned, index>>
    BY <1>3 DEF InsertFragment
  <2>2. Readable(index)' = Readable(index) BY <2>1, ReadableIs, ReadableIsNext
  <2>3. Readable(Snapshot)' \in {Readable(Snapshot), Readable(Snapshot) \cup {c}}
    <3>1. Read(content, fragments \cup {f}, files)
            \in {Read(content, fragments, files), Read(content, fragments, files) \cup {c}}
      BY <1>0, ReadMore
    <3> QED BY <2>1, <3>1, ReadableIs, ReadableIsNext, Zenon
  <2>4. CASE Readable(Snapshot)' = Readable(Snapshot) BY <2>1, <2>2, <2>4 DEF Store!vars
  <2>5. CASE Readable(Snapshot)' = Readable(Snapshot) \cup {c}
    <3>1. Store!Put(c) BY <2>1, <2>2, <2>5 DEF Store!Put
    <3> QED BY <1>0, <3>1 DEF Store!Next
  <2> QED BY <2>3, <2>4, <2>5
<1>4. CASE SaveFragment(t) \/ SavePut(t)
  <2>1. index' = Snapshot /\ UNCHANGED <<memory, files>>
    BY <1>4 DEF SaveFragment, SavePut, Save, Reliable
  <2> QED BY <2>1, SaveFlushes DEF Store!Next
<1>5. CASE PutContent(t)
  <2>1. /\ content' = content \cup {c} /\ pinned' = pinned \ {c}
        /\ UNCHANGED <<fragments, files, index>>
    BY <1>5 DEF PutContent
  <2>2. Readable(index)' = Readable(index) BY <2>1, ReadableIs, ReadableIsNext
  <2>3. Readable(Snapshot)' = IF FragSet(c) \subseteq fragments \cap files
                              THEN Readable(Snapshot) \cup {c} ELSE Readable(Snapshot)
    BY <2>1, ReadableIs, ReadableIsNext DEF Read
  <2>4. Store!Put(c) \/ Store!Unpin(c)
    BY <2>1, <2>2, <2>3 DEF Store!Put, Store!Unpin
  <2> QED BY <1>0, <2>4 DEF Store!Next
<1> QED BY <1>1, <1>2, <1>3, <1>4, <1>5 DEF StoreStep

LEMMA PinImplements ==
    ASSUME Reliable, CrashInv, NEW t \in Task, PinStep(t)
    PROVE  [Store!Next]_Store!vars
<1> USE DEF CrashInv, CrashTypeOK, TypeOK, memory, disk
<1>0. cid[t] \in Content BY CurrentOfCid
<1>1. CASE SetFragments(t) \/ CountPinned(t)
  BY <1>1, SameToAll DEF SetFragments, CountPinned
<1>2. CASE SavePinned(t)
  <2>1. index' = Snapshot /\ UNCHANGED <<memory, files>>
    BY <1>2 DEF SavePinned, Save, Reliable
  <2> QED BY <2>1, SaveFlushes DEF Store!Next
<1>3. CASE SetPinned(t)
  <2>1. UNCHANGED <<fragments, content, files, index>> BY <1>3 DEF SetPinned
  <2>2. Readable(index)' = Readable(index) /\ Readable(Snapshot)' = Readable(Snapshot)
    BY <2>1, ReadableIs, ReadableIsNext
  <2>3. pinned' \in {pinned, pinned \ {cid[t]}, pinned \cup {cid[t]}} BY <1>3 DEF SetPinned
  <2>4. Store!Pin(cid[t]) \/ Store!Unpin(cid[t]) \/ UNCHANGED Store!vars
    BY <2>1, <2>2, <2>3 DEF Store!Pin, Store!Unpin, Store!vars
  <2> QED BY <1>0, <2>4 DEF Store!Next
<1> QED BY <1>1, <1>2, <1>3 DEF PinStep

LEMMA DeleteImplements ==
    ASSUME Reliable, DisjointManifests, CrashInv, NEW t \in Task, DeleteStep(t)
    PROVE  [Store!Next]_Store!vars
<1> USE DEF CrashInv, CrashTypeOK, TypeOK, MemoryOK, memory, disk
<1> DEFINE c == cid[t]
           f == Current(t)
<1>0. c \in Content /\ f \in FragSet(c) BY CurrentOfCid
<1>1. CASE ReadContent(t) \/ ReadSize(t) \/ FindFile(t) \/ SubUsage(t) \/ SubStats(t)
           \/ CountRemoved(t) \/ Candidates(t) \/ CollectNext(t) \/ CollectEnd(t)
  BY <1>1, SameToAll DEF ReadContent, ReadSize, FindFile, SubUsage, SubStats, CountRemoved,
                         CountContent, Candidates, CollectNext, CollectEnd
<1>2. CASE RemoveFile(t)
  <2>1. /\ UNCHANGED <<fragments, content, pinned, index>>
        /\ files' \in {files, files \ {f}}
        /\ c \notin pinned /\ index.content \subseteq content
        /\ index.fragments \cap files \subseteq fragments
    BY <1>2 DEF RemoveFile, DeletionOrdered
  <2>2. CASE files' = files BY <2>1, <2>2, SameToAll
  <2>3. CASE files' = files \ {f}
    <3>1. index.content \in SUBSET Content BY DEF DiskOK, Snapshots
    <3>2. /\ Readable(Snapshot)' = Readable(Snapshot) \ {c}
          /\ Readable(index)' = Readable(index) \ {c}
      <4>1. \A C \in SUBSET Content : \A S, F : Read(C, S, F \ {f}) = Read(C, S, F) \ {c}
        <5> TAKE C \in SUBSET Content
        <5> TAKE S, F
        <5> QED BY <1>0, ReadLess
      <4>2. content \in SUBSET Content OBVIOUS
      <4>3. Read(content, fragments, files \ {f}) = Read(content, fragments, files) \ {c}
        BY <4>1, <4>2, Zenon
      <4>4. Read(index.content, index.fragments, files \ {f})
              = Read(index.content, index.fragments, files) \ {c}
        BY <3>1, <4>1, Zenon
      <4> QED BY <2>1, <2>3, <4>3, <4>4, ReadableIs, ReadableIsNext, Zenon
    <3>3. Readable(index) \subseteq Readable(Snapshot) BY <2>1, ReadableIs DEF Read
    <3>4. CASE c \in Readable(Snapshot)
      <4>1. Store!Remove(c) BY <2>1, <3>2, <3>4 DEF Store!Remove
      <4> QED BY <1>0, <4>1 DEF Store!Next
    <3>5. CASE c \notin Readable(Snapshot)
      <4>1. Readable(Snapshot)' = Readable(Snapshot) /\ Readable(index)' = Readable(index)
        BY <3>2, <3>3, <3>5
      <4> QED BY <2>1, <4>1 DEF Store!vars
    <3> QED BY <3>4, <3>5
  <2> QED BY <2>1, <2>2, <2>3
<1>3. CASE RemoveFragment(t)
  <2>1. /\ fragments' = fragments \ {f} /\ f \notin files
        /\ UNCHANGED <<content, pinned, files, index>>
    BY <1>3 DEF RemoveFragment, DeletionOrdered
  <2>2. fragments' \cap files' = fragments \cap files BY <2>1
  <2>3. Readable(index)' = Readable(index) /\ Readable(Snapshot)' = Readable(Snapshot)
    BY <2>1, <2>2, ReadableIs, ReadableIsNext DEF Read
  <2> QED BY <2>1, <2>3 DEF Store!vars
<1>4. CASE RemoveContent(t)
  <2>1. /\ content' = content \ {c} /\ pinned' = pinned \ {c} /\ c \notin pinned
        /\ UNCHANGED <<fragments, files, index>>
    BY <1>4 DEF RemoveContent, DeletionOrdered
  <2>2. pinned' = pinned BY <2>1
  <2>3. Readable(index)' = Readable(index) /\ Readable(Snapshot)' = Readable(Snapshot) \ {c}
    BY <2>1, ReadableIs, ReadableIsNext DEF Read
  <2>4. CASE c \in Readable(Snapshot)
    <3>1. Store!Remove(c) BY <2>1, <2>2, <2>3, <2>4 DEF Store!Remove
    <3> QED BY <1>0, <3>1 DEF Store!Next
  <2>5. CASE c \notin Readable(Snapshot)
    <3>1. Readable(Snapshot)' = Readable(Snapshot) BY <2>3, <2>5
    <3> QED BY <2>1, <2>2, <2>3, <3>1 DEF Store!vars
  <2> QED BY <2>4, <2>5
<1>5. CASE SaveRemoved(t)
  <2>1. index' = Snapshot /\ UNCHANGED <<memory, files>>
    BY <1>5 DEF SaveRemoved, Save, Reliable
  <2> QED BY <2>1, SaveFlushes DEF Store!Next
<1> QED BY <1>1, <1>2, <1>3, <1>4, <1>5 DEF DeleteStep

LEMMA CrashRestarts ==
    ASSUME Reliable, CrashInv, Crash PROVE Store!Restart
<1>1. index' = index /\ Snapshot' = index
  BY LoadedIsSaved DEF CrashInv, CrashTypeOK
<1>2. files' = files BY DEF Crash
<1>3. Readable(Snapshot)' = Readable(index) /\ Readable(index)' = Readable(index)
  BY <1>1, <1>2, ReadableIs, ReadableIsNext DEF Snapshot
<1>4. pinned' = index.pinned BY <1>1 DEF Crash, Load
<1> QED BY <1>1, <1>3, <1>4 DEF Store!Restart

(* If requests come one at a time, nothing fails or is dropped and no two   *)
(* contents share a fragment, the storage implements ContentStore: content  *)
(* that can be read leaves only while it is not pinned, and a restart finds *)
(* what the last save or removal left.                                      *)
THEOREM StorageImplements ==
    ASSUME OneAtATime, Reliable, DisjointManifests PROVE CrashSpec => ImplementsContentStore
<1>1. CrashInit => Store!Init
  <2> SUFFICES ASSUME CrashInit PROVE Store!Init OBVIOUS
  <2>1. Readable(Snapshot) = {} /\ Readable(index) = {}
    BY ReadableIs DEF CrashInit, Init, Blank, Read
  <2> QED BY <2>1 DEF CrashInit, Init, Blank, Store!Init
<1>2. ASSUME CrashInv, [CrashNext]_crashVars PROVE [Store!Next]_Store!vars
  <2>1. CASE Crash BY <1>2, <2>1, CrashRestarts DEF Store!Next
  <2>2. ASSUME NEW t \in Task, Step(t) PROVE [Store!Next]_Store!vars
    BY <1>2, <2>2, StoreImplements, PinImplements, DeleteImplements DEF Step
  <2>3. ASSUME NEW t \in Task, Request(t) PROVE [Store!Next]_Store!vars
    BY <2>3, SameToAll DEF Request, Upload, Fetch, Replicate, Pin, Unpin, Delete, Collect,
                           Begin, memory, disk
  <2>4. ASSUME NEW t \in Task, Disconnect(t) PROVE FALSE BY <2>4 DEF Disconnect, Reliable
  <2>5. CASE LateFileOp BY <1>2, <2>5 DEF LateFileOp, CrashInv, SavedOrSaving
  <2>6. CASE UNCHANGED vars BY <2>6, SameToAll DEF vars, memory, disk
  <2> QED BY <1>2, <2>1, <2>2, <2>3, <2>4, <2>5, <2>6 DEF CrashNext, crashVars, Next
<1> QED BY <1>1, <1>2, CrashInvCorrect, PTL DEF CrashSpec, ImplementsContentStore, Store!Spec
=============================================================================
