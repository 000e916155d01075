------------------------- MODULE NodeStorageCrash --------------------------
(***************************************************************************)
(* NodeStorage over several lifetimes of the process: a crash loses the    *)
(* maps and counters in memory and every request in progress, and the next *)
(* start loads index.json (node-runner/src/storage.rs, load_metadata).     *)
(***************************************************************************)
EXTENDS NodeStorage

CONSTANTS
    TornWrites,     \* whether a crash while index.json is written can leave
                    \* a file that does not parse
    MaxCrashes      \* bound: crashes in a behaviour

ASSUME FragAssumption == IsFiniteSet(Frag)
ASSUME CrashAssumption == MaxCrashes \in Nat

VARIABLES
    crashes,        \* crashes so far
    acked,          \* history: content whose upload the client knows to have
                    \* succeeded and that nothing has removed since
    ackedPins       \* history: content whose pin is known to have succeeded
                    \* and that nothing has unpinned or stored again since

crashVars == <<vars, crashes, acked, ackedPins>>

\* The bytes of the fragments in S, counted one by one.
Bytes(S) == Cardinality({ b \in S \X (1..MaxSize) : b[2] <= Size[b[1]] })

CrashInit == Init /\ crashes = 0 /\ acked = {} /\ ackedPins = {}

\* Mutants: the fragments are not loaded; the usage is not computed.
LoadContentOnly(d) ==
    /\ fragments' = {} /\ pinnedFrags' = d.pinnedFrags
    /\ content' = d.content /\ pinned' = d.pinned
    /\ usage' = 0
    /\ stats' = [bytes |-> 0, frags |-> 0, content |-> Cardinality(d.content),
                 pinned |-> Cardinality(d.pinned)]

LoadNoUsage(d) ==
    /\ fragments' = d.fragments /\ pinnedFrags' = d.pinnedFrags
    /\ content' = d.content /\ pinned' = d.pinned
    /\ usage' = 0
    /\ stats' = [bytes |-> Bytes(d.fragments), frags |-> Cardinality(d.fragments),
                 content |-> Cardinality(d.content),
                 pinned |-> Cardinality(d.pinned)]

\* load_metadata: an index that does not parse is passed over without an error
\* and leaves the maps empty; the counters are computed from what was loaded.
Load(d) ==
    /\ fragments' = d.fragments /\ pinnedFrags' = d.pinnedFrags
    /\ content' = d.content /\ pinned' = d.pinned
    /\ usage' = Bytes(d.fragments)
    /\ stats' = [bytes |-> Bytes(d.fragments), frags |-> Cardinality(d.fragments),
                 content |-> Cardinality(d.content),
                 pinned |-> Cardinality(d.pinned)]

Crash ==
    /\ crashes < MaxCrashes
    /\ crashes' = crashes + 1
    /\ \/ index' = index
       \/ /\ TornWrites
          /\ late # {} \/ \E t \in Task : pc[t] \in SaveSteps
          /\ index' = Torn
    /\ Load(index')
    /\ pc' = [t \in Task |-> "idle"]
    /\ late' = {}
    /\ UNCHANGED <<files, locals, requests, acked, ackedPins>>

\* The requests that end with success in this step.
Finished(o) ==
    { cid[t] : t \in { u \in Task : /\ op[u] = o /\ pc'[u] = "idle"
                                    /\ pc[u] \in SaveSteps /\ index' = Snapshot } }

Acknowledge ==
    /\ acked' = (acked \cup (Finished("upload") \cap content)) \cap content'
    /\ ackedPins' = (ackedPins \cup (Finished("pin") \cap pinned)) \cap pinned'

CrashNext ==
    \/ Next /\ Acknowledge /\ UNCHANGED crashes
    \/ Crash

CrashSpec == CrashInit /\ [][CrashNext]_crashVars

-----------------------------------------------------------------------------

CrashTypeOK ==
    /\ TypeOK /\ crashes \in 0..MaxCrashes
    /\ acked \in SUBSET Content /\ ackedPins \in SUBSET Content

(* An upload that was answered with success is still listed after a crash,  *)
(* and content whose pin was answered with success is still pinned,         *)
(* whatever other requests were in progress when the node stopped:          *)
(* store_content and pin persist the metadata before they return, and every *)
(* save writes what is in memory at that moment.                            *)
AckedSurvives == acked \subseteq content /\ ackedPins \subseteq pinned

(* The usage never falls below the bytes of the fragments that are here, or *)
(* the capacity check would admit more than fits ("Current storage usage",  *)
(* storage.rs).                                                             *)
NeverUndercounts == AllIdle => usage >= Bytes(fragments)

\* Why: a request adds the fragment it has listed, and takes off what it has
\* read of a fragment it no longer lists.
Accounted ==
    \A t \in Task :
        /\ IF pc[t] = "addUsage" THEN Bytes(fragments) <= usage + Size[Current(t)]
           ELSE IF pc[t] = "subUsage" THEN Bytes(fragments) + size[t] <= usage
           ELSE Bytes(fragments) <= usage
        /\ pc[t] \in {"findFile", "removeFile", "removeFragment"} =>
             size[t] = IF Current(t) \in fragments THEN Size[Current(t)] ELSE 0

(* StorageStats: "Total bytes stored" and "Number of fragments stored".     *)
StatsExact ==
    AllIdle => /\ stats.bytes = Bytes(fragments)
               /\ stats.frags = Cardinality(fragments)

(* max_storage_bytes: "Maximum disk usage".                                 *)
WithinCapacity == Bytes(files) <= Capacity

(* One request at a time, the storage implements ContentStore: content that *)
(* can be read leaves only while it is not pinned, and a restart finds what *)
(* the last save or removal left.                                           *)
Readable(d) == { c \in d.content : FragSet(c) \subseteq d.fragments \cap files }

Store == INSTANCE ContentStore WITH
    stored  <- Readable(Snapshot),
    kept    <- pinned,
    durable <- [stored |-> Readable(index), kept |-> index.pinned]

ImplementsContentStore == Store!Spec

\* Why: a deletion goes on for content that is not pinned, and what it has taken
\* out of the maps has no file; what the index still lists of it cannot be read.
DeletionOrdered ==
    \A t \in Task :
        /\ pc[t] \in {"readSize", "findFile", "removeFile", "removeFragment",
                      "subUsage", "subStats", "removeContent"} =>
             /\ cid[t] \notin pinned /\ index.content \subseteq content
             /\ index.fragments \cap files \subseteq fragments
        /\ pc[t] = "removeFragment" => Current(t) \notin files
=============================================================================
