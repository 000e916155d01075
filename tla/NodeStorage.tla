---------------------------- MODULE NodeStorage ----------------------------
(***************************************************************************)
(* The StorageManager of a node (node-runner/src/storage.rs) and the       *)
(* requests that change it: the HTTP handlers of node-runner/src/api.rs    *)
(* and the storing half of the replication cycle.  Every request runs as   *)
(* a task of its own; it holds a lock only inside one critical section, so *)
(* an action is one critical section or one file operation, and requests   *)
(* interleave between them.                                                *)
(*                                                                         *)
(* Abstracted: the bytes of a fragment (its hash names them), timestamps,  *)
(* names and MIME types.  Garbage collection visits its candidates in any  *)
(* order, because the order by last access depends on times only.          *)
(***************************************************************************)
EXTENDS Naturals, Sequences, FiniteSets

CONSTANTS
    Task,           \* requests that can be in progress at once
    Frag,           \* fragment hashes
    Content,        \* content identifiers (cid)
    FragsOf,        \* Content -> Seq(Frag): the manifest of each content
    Size,           \* Frag -> bytes
    DeclaredSize,   \* Content -> bytes: total_size, as its manifest states it
    MaxSize,        \* a bound on the size of a fragment
    Capacity,       \* max_capacity
    ScanBudget,     \* bytes from which a replication cycle is skipped
    GcTargets,      \* the target_free_bytes a client may ask for
    DiskFaults,     \* whether a file operation may fail
    Disconnects,    \* whether a client may go away, which drops its handler
    MaxRequests     \* bound: requests started in a behaviour

ASSUME SizeAssumption ==
    /\ MaxSize \in Nat
    /\ Size \in [Frag -> 0..MaxSize]
ASSUME CapacityAssumption == Capacity \in Nat
ASSUME TaskAssumption == IsFiniteSet(Task) /\ Task # {}
ASSUME ManifestAssumption ==
    /\ FragsOf \in [Content -> Seq(Frag)]
    /\ \A c \in Content : Len(FragsOf[c]) > 0
    /\ DeclaredSize \in [Content -> Nat]
    /\ IsFiniteSet(Content) /\ Content # {}
ASSUME TargetAssumption == GcTargets \subseteq Nat

VARIABLES
    fragments,      \* hashes with metadata
    pinnedFrags,    \* those whose metadata says pinned
    content,        \* cids with metadata
    pinned,         \* those whose metadata says pinned
    usage,          \* current_usage
    stats,          \* the counters of StorageStats
    files,          \* fragment files present under data_dir/fragments
    index,          \* data_dir/metadata/index.json
    late,           \* file operations of dropped handlers, still to happen
    pc,             \* the next step of each task, "idle" when it has none
    op,             \* the request a task serves
    cid,            \* the content it is about
    idx,            \* its position in the list of fragments
    size,           \* the size delete_fragment has read
    queue,          \* the candidates garbage_collect has collected
    need,           \* bytes it has still to free
    requests        \* requests started so far

memory == <<fragments, pinnedFrags, content, pinned, usage, stats>>
disk   == <<files, index, late>>
locals == <<op, cid, idx, size, queue, need>>
vars   == <<memory, disk, pc, locals, requests>>

Ops == {"upload", "fetch", "replicate", "pin", "unpin", "delete", "gc"}

StoreSteps  == {"hasFragment", "capacity", "write", "insert", "addUsage",
                "addStats", "saveFragment", "putContent", "countPut", "savePut"}
PinSteps    == {"setPinned", "setFragments", "countPinned", "savePinned"}
DeleteSteps == {"readContent", "readSize", "findFile", "removeFile",
                "removeFragment", "subUsage", "subStats", "removeContent",
                "countRemoved", "saveRemoved"}
Steps == {"idle", "candidates", "collect"} \cup StoreSteps \cup PinSteps \cup DeleteSteps

\* The steps at which save_metadata writes index.json.
SaveSteps == {"saveFragment", "savePut", "savePinned", "saveRemoved"}

Monus(a, b) == IF a >= b THEN a - b ELSE 0      \* saturating_sub

FragSet(c) == { FragsOf[c][i] : i \in DOMAIN FragsOf[c] }

\* Mutant: the pins of the content are not written.
SnapshotUnpinned ==
    [parses |-> TRUE, fragments |-> fragments, pinnedFrags |-> pinnedFrags,
     content |-> content, pinned |-> {}]

\* The two maps of the manager, as index.json holds them when it parses.
Snapshot == [parses |-> TRUE, fragments |-> fragments, pinnedFrags |-> pinnedFrags,
             content |-> content, pinned |-> pinned]
Blank(p) == [parses |-> p, fragments |-> {}, pinnedFrags |-> {},
             content |-> {}, pinned |-> {}]
Torn     == Blank(FALSE)

Snapshots ==
    { d \in [parses : BOOLEAN, fragments : SUBSET Frag, pinnedFrags : SUBSET Frag,
             content : SUBSET Content, pinned : SUBSET Content] :
        d.pinnedFrags \subseteq d.fragments /\ d.pinned \subseteq d.content }

FileOps == [do : {"write", "remove"}, frag : Frag]
SaveOps == [do : {"save"}, snapshot : Snapshots]

MemoryOK ==
    /\ fragments \in SUBSET Frag /\ pinnedFrags \in SUBSET fragments
    /\ content \in SUBSET Content /\ pinned \in SUBSET content
    /\ usage \in Nat
    /\ stats \in [bytes : Nat, frags : Nat, content : Nat, pinned : Nat]

DiskOK ==
    /\ files \in SUBSET Frag
    /\ index \in Snapshots
    /\ late \in SUBSET (FileOps \cup SaveOps)

TasksOK ==
    /\ pc \in [Task -> Steps]
    /\ op \in [Task -> Ops]
    /\ cid \in [Task -> Content]
    /\ idx \in [Task -> Nat]
    /\ \A t \in Task : idx[t] \in 1..Len(FragsOf[cid[t]])
    /\ size \in [Task -> Nat]
    /\ queue \in [Task -> SUBSET Content]
    /\ need \in [Task -> Nat]
    /\ requests \in Nat

TypeOK == MemoryOK /\ DiskOK /\ TasksOK

-----------------------------------------------------------------------------
(* Start-up and the steps every request shares.                            *)

\* StorageManager::new on an empty data directory.
Init ==
    /\ fragments = {} /\ pinnedFrags = {} /\ content = {} /\ pinned = {}
    /\ usage = 0
    /\ stats = [bytes |-> 0, frags |-> 0, content |-> 0, pinned |-> 0]
    /\ files = {} /\ index = Blank(TRUE) /\ late = {}
    /\ pc = [t \in Task |-> "idle"]
    /\ op = [t \in Task |-> "upload"]
    /\ cid = [t \in Task |-> CHOOSE c \in Content : TRUE]
    /\ idx = [t \in Task |-> 1]
    /\ size = [t \in Task |-> 0]
    /\ queue = [t \in Task |-> {}]
    /\ need = [t \in Task |-> 0]
    /\ requests = 0

Goto(t, step) == pc' = [pc EXCEPT ![t] = step]

\* A request arrives: task t serves request o for content c from step on.
Begin(t, o, c, step) ==
    /\ pc[t] = "idle" /\ requests < MaxRequests
    /\ requests' = requests + 1
    /\ op' = [op EXCEPT ![t] = o]
    /\ cid' = [cid EXCEPT ![t] = c]
    /\ idx' = [idx EXCEPT ![t] = 1]
    /\ Goto(t, step)
    /\ UNCHANGED <<memory, disk, size>>

\* save_metadata holds both maps for reading while it writes the file, so the
\* file gets one consistent snapshot of them.  A write that fails leaves the
\* old file or, as fs::write truncates first, an unreadable one; the request
\* then ends with the error.
Save(t, step, next) ==
    /\ pc[t] = step
    /\ \/ index' = Snapshot /\ Goto(t, next)
       \/ /\ DiskFaults /\ index' \in {index, Torn}
          /\ Goto(t, IF op[t] = "gc" THEN "collect" ELSE "idle")
    /\ UNCHANGED <<memory, files, late, requests>>

\* The fragment a task is working on.
Current(t) == FragsOf[cid[t]][idx[t]]

\* The step after the current fragment: the next one, or step `done`.
AfterFragment(t, again, done) ==
    IF idx[t] < Len(FragsOf[cid[t]])
    THEN Goto(t, again) /\ idx' = [idx EXCEPT ![t] = @ + 1]
    ELSE Goto(t, done) /\ UNCHANGED idx

-----------------------------------------------------------------------------
(* store_fragment, then store_content: upload_content, fetch_remote_content *)
(* and the storing half of scan_and_replicate.                              *)

\* upload_content: the hash of the data is its cid and its only fragment.
Upload(t, c) ==
    /\ Len(FragsOf[c]) = 1
    /\ Begin(t, "upload", c, "capacity")
    /\ UNCHANGED <<queue, need>>

\* fetch_remote_content, for content that is not here; everything has been
\* fetched and verified before the first fragment is stored.
Fetch(t, c) ==
    /\ c \notin content
    /\ Begin(t, "fetch", c, "capacity")
    /\ UNCHANGED <<queue, need>>

\* scan_and_replicate: below the storage budget, some content is here and c
\* is not.  The node runs one cycle at a time.
Replicate(t, c) ==
    /\ stats.bytes < ScanBudget
    /\ content # {} /\ c \notin content
    /\ \A u \in Task : pc[u] = "idle" \/ op[u] # "replicate"
    /\ Begin(t, "replicate", c, "hasFragment")
    /\ UNCHANGED <<queue, need>>

\* has_fragment: replication does not store again what is here.
HasFragment(t) ==
    /\ pc[t] = "hasFragment"
    /\ IF Current(t) \in fragments
       THEN AfterFragment(t, "hasFragment", "putContent")
       ELSE Goto(t, "capacity") /\ UNCHANGED idx
    /\ UNCHANGED <<memory, disk, op, cid, size, queue, need, requests>>

\* Mutant: no check.
CheckCapacityNever(t) ==
    /\ pc[t] = "capacity"
    /\ Goto(t, "write")
    /\ UNCHANGED <<memory, disk, locals, requests>>

\* The capacity check reads the usage and releases its lock; the usage grows
\* only after the file and the metadata are written.
CheckCapacity(t) ==
    /\ pc[t] = "capacity"
    /\ Goto(t, IF usage + Size[Current(t)] > Capacity THEN "idle" ELSE "write")
    /\ UNCHANGED <<memory, disk, locals, requests>>

WriteFile(t) ==
    /\ pc[t] = "write"
    /\ \/ files' = files \cup {Current(t)} /\ Goto(t, "insert")
       \/ DiskFaults /\ Goto(t, "idle") /\ UNCHANGED files
    /\ UNCHANGED <<memory, index, late, locals, requests>>

\* The new metadata replaces what the hash had, its pinned flag included.
InsertFragment(t) ==
    /\ pc[t] = "insert"
    /\ fragments' = fragments \cup {Current(t)}
    /\ pinnedFrags' = pinnedFrags \ {Current(t)}
    /\ Goto(t, "addUsage")
    /\ UNCHANGED <<content, pinned, usage, stats, disk, locals, requests>>

AddUsage(t) ==
    /\ pc[t] = "addUsage"
    /\ usage' = usage + Size[Current(t)]
    /\ Goto(t, "addStats")
    /\ UNCHANGED <<fragments, pinnedFrags, content, pinned, stats, disk, locals,
                   requests>>

AddStats(t) ==
    /\ pc[t] = "addStats"
    /\ stats' = [stats EXCEPT !.bytes = @ + Size[Current(t)], !.frags = @ + 1]
    /\ Goto(t, "saveFragment")
    /\ UNCHANGED <<fragments, pinnedFrags, content, pinned, usage, disk, locals,
                   requests>>

\* The end of store_fragment; the caller goes on with the next fragment.
SaveFragment(t) ==
    /\ pc[t] = "saveFragment"
    /\ \/ /\ index' = Snapshot
          /\ AfterFragment(t, IF op[t] = "replicate" THEN "hasFragment"
                                                     ELSE "capacity", "putContent")
       \/ /\ DiskFaults /\ index' \in {index, Torn}
          /\ Goto(t, "idle") /\ UNCHANGED idx
    /\ UNCHANGED <<memory, files, late, op, cid, size, queue, need, requests>>

\* store_content inserts metadata with pinned: false.
PutContent(t) ==
    /\ pc[t] = "putContent"
    /\ content' = content \cup {cid[t]}
    /\ pinned' = pinned \ {cid[t]}
    /\ Goto(t, "countPut")
    /\ UNCHANGED <<fragments, pinnedFrags, usage, stats, disk, locals, requests>>

\* Both store_content and delete count the content under the lock on stats.
CountContent(t, step, next) ==
    /\ pc[t] = step
    /\ stats' = [stats EXCEPT !.content = Cardinality(content)]
    /\ Goto(t, next)
    /\ UNCHANGED <<fragments, pinnedFrags, content, pinned, usage, disk, locals,
                   requests>>

CountPut(t) == CountContent(t, "countPut", "savePut")

\* Replication pins what it has stored.
SavePut(t) ==
    /\ Save(t, "savePut", IF op[t] = "replicate" THEN "setPinned" ELSE "idle")
    /\ UNCHANGED locals

-----------------------------------------------------------------------------
(* pin and unpin.                                                          *)

Pin(t, c) ==
    /\ Begin(t, "pin", c, "setPinned")
    /\ UNCHANGED <<queue, need>>

Unpin(t, c) ==
    /\ Begin(t, "unpin", c, "setPinned")
    /\ UNCHANGED <<queue, need>>

SetPinned(t) ==
    /\ pc[t] = "setPinned"
    /\ IF cid[t] \in content
       THEN /\ pinned' = IF op[t] = "unpin" THEN pinned \ {cid[t]}
                                            ELSE pinned \cup {cid[t]}
            /\ Goto(t, "setFragments")
       ELSE Goto(t, "idle") /\ UNCHANGED pinned        \* NotFound
    /\ UNCHANGED <<fragments, pinnedFrags, content, usage, stats, disk, locals,
                   requests>>

SetFragments(t) ==
    /\ pc[t] = "setFragments"
    /\ pinnedFrags' = IF op[t] = "unpin"
                       THEN pinnedFrags \ FragSet(cid[t])
                       ELSE pinnedFrags \cup (FragSet(cid[t]) \cap fragments)
    /\ Goto(t, "countPinned")
    /\ UNCHANGED <<fragments, content, pinned, usage, stats, disk, locals,
                   requests>>

\* Mutant: pin and unpin return without saving the metadata.
CountPinnedLast(t) ==
    /\ pc[t] = "countPinned"
    /\ stats' = [stats EXCEPT !.pinned = Cardinality(pinned)]
    /\ Goto(t, "idle")
    /\ UNCHANGED <<fragments, pinnedFrags, content, pinned, usage, disk, locals,
                   requests>>

CountPinned(t) ==
    /\ pc[t] = "countPinned"
    /\ stats' = [stats EXCEPT !.pinned = Cardinality(pinned)]
    /\ Goto(t, "savePinned")
    /\ UNCHANGED <<fragments, pinnedFrags, content, pinned, usage, disk, locals,
                   requests>>

SavePinned(t) == Save(t, "savePinned", "idle") /\ UNCHANGED locals

-----------------------------------------------------------------------------
(* delete and garbage_collect, which deletes one candidate after another.   *)

Delete(t, c) ==
    /\ Begin(t, "delete", c, "readContent")
    /\ UNCHANGED <<queue, need>>

\* Where a deletion returns to.
Caller(t) == IF op[t] = "gc" THEN "collect" ELSE "idle"

\* Mutant: pinned content can be deleted.
ReadContentPinned(t) ==
    /\ pc[t] = "readContent"
    /\ Goto(t, IF cid[t] \in content THEN "readSize" ELSE Caller(t))
    /\ UNCHANGED <<memory, disk, locals, requests>>

\* The only check of the pin: it is made on a copy of the metadata.
ReadContent(t) ==
    /\ pc[t] = "readContent"
    /\ Goto(t, IF cid[t] \in content \ pinned THEN "readSize" ELSE Caller(t))
    /\ UNCHANGED <<memory, disk, locals, requests>>

ReadSize(t) ==
    /\ pc[t] = "readSize"
    /\ size' = [size EXCEPT ![t] =
                    IF Current(t) \in fragments THEN Size[Current(t)] ELSE 0]
    /\ Goto(t, "findFile")
    /\ UNCHANGED <<memory, disk, op, cid, idx, queue, need, requests>>

\* A file that does not exist is not removed ...
FindFile(t) ==
    /\ pc[t] = "findFile"
    /\ Goto(t, IF Current(t) \in files THEN "removeFile" ELSE "removeFragment")
    /\ UNCHANGED <<memory, disk, locals, requests>>

\* ... and one that another deletion removes first is an error.  An error ends
\* delete_fragment before it touches the metadata, and delete ignores it.
RemoveFile(t) ==
    /\ pc[t] = "removeFile"
    /\ \/ /\ Current(t) \in files /\ files' = files \ {Current(t)}
          /\ Goto(t, "removeFragment") /\ UNCHANGED idx
       \/ /\ DiskFaults \/ Current(t) \notin files
          /\ AfterFragment(t, "readSize", "removeContent") /\ UNCHANGED files
    /\ UNCHANGED <<memory, index, late, op, cid, size, queue, need, requests>>

RemoveFragment(t) ==
    /\ pc[t] = "removeFragment"
    /\ fragments' = fragments \ {Current(t)}
    /\ pinnedFrags' = pinnedFrags \ {Current(t)}
    /\ Goto(t, "subUsage")
    /\ UNCHANGED <<content, pinned, usage, stats, disk, locals, requests>>

SubUsage(t) ==
    /\ pc[t] = "subUsage"
    /\ usage' = Monus(usage, size[t])
    /\ Goto(t, "subStats")
    /\ UNCHANGED <<fragments, pinnedFrags, content, pinned, stats, disk, locals,
                   requests>>

SubStats(t) ==
    /\ pc[t] = "subStats"
    /\ stats' = [stats EXCEPT !.bytes = Monus(@, size[t]), !.frags = Monus(@, 1)]
    /\ AfterFragment(t, "readSize", "removeContent")
    /\ UNCHANGED <<fragments, pinnedFrags, content, pinned, usage, disk, op, cid,
                   size, queue, need, requests>>

RemoveContent(t) ==
    /\ pc[t] = "removeContent"
    /\ content' = content \ {cid[t]}
    /\ pinned' = pinned \ {cid[t]}
    /\ Goto(t, "countRemoved")
    /\ UNCHANGED <<fragments, pinnedFrags, usage, stats, disk, locals, requests>>

CountRemoved(t) == CountContent(t, "countRemoved", "saveRemoved")

\* A deletion that succeeds counts the size its manifest declares as freed.
SaveRemoved(t) ==
    /\ Save(t, "saveRemoved", Caller(t))
    /\ need' = IF op[t] = "gc" /\ index' = Snapshot
               THEN [need EXCEPT ![t] = Monus(@, DeclaredSize[cid[t]])] ELSE need
    /\ UNCHANGED <<op, cid, idx, size, queue>>

\* garbage_collect does nothing when enough is free.
Collect(t, target) ==
    /\ Monus(Capacity, usage) < target
    /\ Begin(t, "gc", cid[t], "candidates")
    /\ need' = [need EXCEPT ![t] = target - Monus(Capacity, usage)]
    /\ UNCHANGED queue

Candidates(t) ==
    /\ pc[t] = "candidates"
    /\ queue' = [queue EXCEPT ![t] = content \ pinned]
    /\ Goto(t, "collect")
    /\ UNCHANGED <<memory, disk, op, cid, idx, size, need, requests>>

CollectNext(t) ==
    /\ pc[t] = "collect"
    /\ need[t] > 0
    /\ \E c \in queue[t] :
         /\ queue' = [queue EXCEPT ![t] = @ \ {c}]
         /\ cid' = [cid EXCEPT ![t] = c]
    /\ idx' = [idx EXCEPT ![t] = 1]
    /\ Goto(t, "readContent")
    /\ UNCHANGED <<memory, disk, op, size, need, requests>>

CollectEnd(t) ==
    /\ pc[t] = "collect"
    /\ need[t] = 0 \/ queue[t] = {}
    /\ Goto(t, "idle")
    /\ UNCHANGED <<memory, disk, locals, requests>>

-----------------------------------------------------------------------------

\* The file operation a task is at, as the blocking pool carries it out.
Pending(t) ==
    IF pc[t] \in SaveSteps THEN [do |-> "save", snapshot |-> Snapshot]
    ELSE [do |-> IF pc[t] = "write" THEN "write" ELSE "remove", frag |-> Current(t)]

\* The client closes its connection and the handler is dropped where it waits.
\* A file operation it has handed to the blocking pool still happens, at some
\* later time and without the locks the handler held.  The replication cycle is
\* not a handler.
Disconnect(t) ==
    /\ Disconnects
    /\ pc[t] # "idle" /\ op[t] # "replicate"
    /\ Goto(t, "idle")
    /\ \/ UNCHANGED late
       \/ /\ pc[t] \in SaveSteps \cup {"write", "removeFile"}
          /\ late' = late \cup {Pending(t)}
    /\ UNCHANGED <<memory, files, index, locals, requests>>

LateFileOp ==
    \E o \in late :
        /\ late' = late \ {o}
        /\ \/ o.do = "write" /\ files' = files \cup {o.frag} /\ UNCHANGED index
           \/ o.do = "remove" /\ files' = files \ {o.frag} /\ UNCHANGED index
           \/ o.do = "save" /\ index' = o.snapshot /\ UNCHANGED files
        /\ UNCHANGED <<memory, pc, locals, requests>>

Request(t) ==
    \/ \E c \in Content : \/ Upload(t, c) \/ Fetch(t, c) \/ Replicate(t, c)
                          \/ Pin(t, c) \/ Unpin(t, c) \/ Delete(t, c)
    \/ \E target \in GcTargets : Collect(t, target)

StoreStep(t) ==
    \/ HasFragment(t) \/ CheckCapacity(t) \/ WriteFile(t) \/ InsertFragment(t)
    \/ AddUsage(t) \/ AddStats(t) \/ SaveFragment(t)
    \/ PutContent(t) \/ CountPut(t) \/ SavePut(t)

PinStep(t) ==
    SetPinned(t) \/ SetFragments(t) \/ CountPinned(t) \/ SavePinned(t)

DeleteStep(t) ==
    \/ ReadContent(t) \/ ReadSize(t) \/ FindFile(t) \/ RemoveFile(t)
    \/ RemoveFragment(t) \/ SubUsage(t) \/ SubStats(t) \/ RemoveContent(t) \/ CountRemoved(t)
    \/ SaveRemoved(t)
    \/ Candidates(t) \/ CollectNext(t) \/ CollectEnd(t)

Step(t) == StoreStep(t) \/ PinStep(t) \/ DeleteStep(t)

Next ==
    \/ \E t \in Task : Request(t) \/ Step(t) \/ Disconnect(t)
    \/ LateFileOp

\* One lifetime of a node's process.
Spec == Init /\ [][Next]_vars

-----------------------------------------------------------------------------
(* Properties.                                                             *)

AllIdle == \A t \in Task : pc[t] = "idle"

\* Uploads that have passed the capacity check and not yet been accounted for.
InFlight == { t \in Task : pc[t] \in {"write", "insert", "addUsage"} }

(* store_fragment checks the capacity and adds to the usage in different    *)
(* critical sections, so requests that store at the same time can exceed    *)
(* the capacity together; whatever their number and interleaving, they      *)
(* exceed it by less than one fragment for each other request.              *)
Overshoot == (Cardinality(Task) - 1) * MaxSize

UsageBounded == usage <= Capacity + Overshoot

(* Why: of the uploads in flight, one read a usage that the others' sizes   *)
(* bound, so the usage and all that is in flight stay below the bound.      *)
UsageReserved ==
    IF InFlight = {} THEN UsageBounded
    ELSE \E t \in InFlight :
            usage + Size[Current(t)] + MaxSize * (Cardinality(InFlight) - 1)
                <= Capacity + Overshoot

(* Whenever no request is in progress, index.json describes what is in      *)
(* memory, in whatever order the requests that changed it saved: each       *)
(* request saves after its last change.                                     *)
IdleMeansSaved == AllIdle => index = Snapshot

\* Why: a request that has changed the maps is before its save, which nothing
\* but a fault or a disconnection keeps it from.
Unsaved == (StoreSteps \ {"hasFragment", "capacity", "write", "insert", "putContent"})
           \cup (PinSteps \ {"setPinned"}) \cup (DeleteSteps \ {"readContent"})

SavedOrSaving == late = {} /\ (index = Snapshot \/ \E t \in Task : pc[t] \in Unsaved)

(* Whenever no request is in progress, content_count is the number of       *)
(* content items: it is recounted under the lock on stats after each change. *)
IdleMeansCounted == AllIdle => stats.content = Cardinality(content)

CountedOrCounting ==
    \/ stats.content = Cardinality(content)
    \/ \E t \in Task : pc[t] \in {"countPut", "countRemoved"}

(* Content leaves the store only when it is not pinned ("Pin content        *)
(* (prevent garbage collection)", storage.rs).                              *)
PinProtects == [][\A c \in content \ content' : c \notin pinned]_vars
=============================================================================
