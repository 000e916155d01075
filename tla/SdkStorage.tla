----------------------------- MODULE SdkStorage -----------------------------
(***************************************************************************)
(* ContentStorage of the JavaScript SDK (sdk/src/storage.ts) over one of   *)
(* its backends: calls that overlap at their awaits, each operation of the *)
(* backend being one step that may also fail and end the call.  A fragment *)
(* has size 1; manifests and metadata count for nothing.  Which content is *)
(* the oldest is left open: any order of eviction is explored.             *)
(***************************************************************************)
EXTENDS Integers, FiniteSetsExt

CONSTANTS Cid,
          Fragments,     \* the fragments that the manifest of each content names
          Caller,        \* calls that can be in progress at once
          GcAt,          \* maxSize * gcThreshold
          GcTo,          \* the target of a collection (maxSize * 0.7)
          MaxCalls,      \* bound on the calls of a behaviour
          Nil

VARIABLES manifests,     \* the contents whose manifest:<cid> the backend has
          fragments,     \* the fragments it has of each content
          pinned,        \* meta:<cid>: whether the content is pinned, or Nil
          known,         \* the map of manifests in memory
          work,          \* what each call is about to do
          begun,         \* how many calls have begun
          kept           \* history: contents that were pinned while no other call
                         \* worked on them, and neither unpinned nor stored since

storeVars == <<manifests, fragments, pinned, known, work, begun, kept>>
backend == <<manifests, fragments, pinned>>

NoTask == [op |-> "none", on |-> Nil, step |-> "none"]

StorageInit ==
    /\ manifests = {} /\ known = {} /\ kept = {}
    /\ fragments = [c \in Cid |-> {}]
    /\ pinned = [c \in Cid |-> Nil]
    /\ work = [t \in Caller |-> NoTask]
    /\ begun = 0

Bytes == MapThenSumSet(LAMBDA c : Cardinality(fragments[c]), Cid)

\* The calls that may work on content c; a call that stores may collect.
WorkOn(c) ==
    { t \in Caller : \/ work[t].op \in {"store", "collect"}
                     \/ work[t].op # "none" /\ work[t].on = c }

-----------------------------------------------------------------------------
Begin(t, op, c, step) ==
    /\ work[t] = NoTask /\ begun < MaxCalls /\ begun' = begun + 1
    /\ work' = [u \in Caller |->
           IF u = t
           THEN [op |-> op, on |-> c, step |-> step, todo |-> {}, copy |-> Nil,
                 tofree |-> 0, alone |-> op = "pin" /\ WorkOn(c) = {}]
           ELSE IF work[u].op = "pin" /\ (work[u].on = c \/ op \in {"store", "collect"})
           THEN [work[u] EXCEPT !.alone = FALSE] ELSE work[u]]
    /\ kept' = IF op \in {"store", "unpin"} THEN kept \ {c} ELSE kept
    /\ UNCHANGED <<backend, known>>

Proceed(t, step) == work' = [work EXCEPT ![t].step = step]
EndCall(t) == work' = [work EXCEPT ![t] = NoTask]

\* The calls of the interface that change something.
Call(t) ==
    \E c \in Cid :
        \/ Begin(t, "store", c, "manifest")
        \/ Begin(t, "get", c, "content")
        \/ Begin(t, "pin", c, "meta") \/ Begin(t, "unpin", c, "meta")
        \/ Begin(t, "delete", c, "ask")
        \/ Begin(t, "collect", c, "measure")

\* storeContent: the manifest, the fragments, the metadata of new content.
StoreManifest(t) ==
    LET c == work[t].on IN
    /\ work[t].step = "manifest"
    /\ manifests' = manifests \cup {c} /\ known' = known \cup {c}
    /\ work' = [work EXCEPT ![t].step = "fragments", ![t].todo = Fragments]
    /\ UNCHANGED <<fragments, pinned, begun, kept>>

StoreFragment(t) ==
    /\ work[t].step = "fragments"
    /\ \E f \in work[t].todo :
         /\ fragments' = [fragments EXCEPT ![work[t].on] = @ \cup {f}]
         /\ work' = [work EXCEPT ![t].todo = @ \ {f}]
    /\ UNCHANGED <<manifests, pinned, known, begun, kept>>

StoreMeta(t) ==
    /\ work[t].step = "fragments" /\ work[t].todo = {}
    /\ pinned' = [pinned EXCEPT ![work[t].on] = FALSE]
    /\ Proceed(t, "check")
    /\ UNCHANGED <<manifests, fragments, known, begun, kept>>

MaybeRunGC(t) ==
    /\ work[t].step = "check"
    /\ IF Bytes > GcAt THEN Proceed(t, "measure") ELSE EndCall(t)
    /\ UNCHANGED <<backend, known, begun, kept>>

-----------------------------------------------------------------------------
\* getContent reads the manifest and the fragments, and then the metadata.
GetContent(t) ==
    /\ work[t].step = "content"
    /\ IF work[t].on \in manifests THEN Proceed(t, "meta") ELSE EndCall(t)
    /\ UNCHANGED <<backend, known, begun, kept>>

\* pinContent, unpinContent and updateLastAccessed read the metadata and write
\* it back, changed.
ReadMeta(t) ==
    LET c == work[t].on IN
    /\ work[t].step = "meta"
    /\ IF pinned[c] = Nil THEN EndCall(t)
       ELSE work' = [work EXCEPT ![t].copy = pinned[c], ![t].step = "write"]
    /\ UNCHANGED <<backend, known, begun, kept>>

WriteMeta(t) ==
    LET c == work[t].on
        op == work[t].op
    IN  /\ work[t].step = "write" /\ EndCall(t)
        /\ pinned' = [pinned EXCEPT ![c] =
               (op = "pin" \/ (op = "get" /\ work[t].copy))]
        /\ kept' = IF work[t].alone THEN kept \cup {c} ELSE kept
        /\ UNCHANGED <<manifests, fragments, known, begun>>

-----------------------------------------------------------------------------
\* deleteContent is through with a content: the call ends, or the collection
\* takes what the content was to free for freed.
Leave(t) ==
    IF work[t].op = "delete" THEN EndCall(t)
    ELSE work' = [work EXCEPT ![t].step = "evict",
                              ![t].tofree = @ - Cardinality(Fragments)]

\* Mutant: deleteContent leaves it to its callers to look for a pin.
RefusesNever(c) == FALSE

Refuses(c) == pinned[c] = TRUE

\* getMetadata; then the manifest, which may be in memory.
AskMeta(t) ==
    LET c == work[t].on IN
    /\ work[t].step = "ask"
    /\ IF Refuses(c) THEN Leave(t)
       ELSE IF c \in known
       THEN work' = [work EXCEPT ![t].step = "delete", ![t].copy = Fragments]
       ELSE Proceed(t, "find")
    /\ UNCHANGED <<backend, known, begun, kept>>

Find(t) ==
    LET c == work[t].on IN
    /\ work[t].step = "find"
    /\ IF c \in manifests
       THEN /\ known' = known \cup {c}
            /\ work' = [work EXCEPT ![t].step = "delete", ![t].copy = Fragments]
       ELSE Leave(t) /\ UNCHANGED known
    /\ UNCHANGED <<backend, begun, kept>>

\* The fragments, the manifest and the metadata are deleted one by one.
DeleteFragment(t) ==
    /\ work[t].step = "delete"
    /\ \E f \in work[t].copy :
         /\ fragments' = [fragments EXCEPT ![work[t].on] = @ \ {f}]
         /\ work' = [work EXCEPT ![t].copy = @ \ {f}]
    /\ UNCHANGED <<manifests, pinned, known, begun, kept>>

DeleteManifest(t) ==
    /\ work[t].step = "delete" /\ work[t].copy = {}
    /\ manifests' = manifests \ {work[t].on}
    /\ work' = [work EXCEPT ![t].step = "forget", ![t].copy = Nil]
    /\ UNCHANGED <<fragments, pinned, known, begun, kept>>

DeleteMeta(t) ==
    LET c == work[t].on IN
    /\ work[t].step = "forget" /\ Leave(t)
    /\ pinned' = [pinned EXCEPT ![c] = Nil]
    /\ known' = known \ {c}
    /\ UNCHANGED <<manifests, fragments, begun, kept>>

-----------------------------------------------------------------------------
\* runGC: how much is to be freed, the contents listed.
Measure(t) ==
    /\ work[t].step = "measure"
    /\ IF Bytes <= GcTo THEN EndCall(t)
       ELSE work' = [work EXCEPT ![t].step = "list", ![t].tofree = Bytes - GcTo]
    /\ UNCHANGED <<backend, known, begun, kept>>

List(t) ==
    /\ work[t].step = "list"
    /\ work' = [work EXCEPT ![t].step = "look", ![t].copy = manifests]
    /\ UNCHANGED <<backend, known, begun, kept>>

\* The metadata and the manifest of one content after the other.
Look(t) ==
    /\ work[t].step = "look"
    /\ \E c \in work[t].copy :
         /\ work' = [work EXCEPT ![t].copy = @ \ {c}, ![t].todo =
                IF pinned[c] = FALSE /\ c \in known \cup manifests THEN @ \cup {c} ELSE @]
         /\ known' = IF c \in manifests THEN known \cup {c} ELSE known
    /\ UNCHANGED <<backend, begun, kept>>

Looked(t) ==
    /\ work[t].step = "look" /\ work[t].copy = {}
    /\ Proceed(t, "evict")
    /\ UNCHANGED <<backend, known, begun, kept>>

EvictNext(t) ==
    /\ work[t].step = "evict"
    /\ \/ work[t].tofree > 0 /\ \E c \in work[t].todo :
            work' = [work EXCEPT ![t].step = "ask", ![t].on = c, ![t].todo = @ \ {c}]
       \/ (work[t].tofree <= 0 \/ work[t].todo = {}) /\ EndCall(t)
    /\ UNCHANGED <<backend, known, begun, kept>>

\* An operation of the backend is rejected, and with it the call.
Throw(t) ==
    /\ work[t] # NoTask /\ EndCall(t)
    /\ UNCHANGED <<backend, known, begun, kept>>

StorageNext == \E t \in Caller :
    \/ Call(t) \/ StoreManifest(t) \/ StoreFragment(t) \/ StoreMeta(t) \/ MaybeRunGC(t)
    \/ GetContent(t) \/ ReadMeta(t) \/ WriteMeta(t)
    \/ AskMeta(t) \/ Find(t) \/ DeleteFragment(t) \/ DeleteManifest(t) \/ DeleteMeta(t)
    \/ Measure(t) \/ List(t) \/ Look(t) \/ Looked(t) \/ EvictNext(t) \/ Throw(t)

StorageSpec == StorageInit /\ [][StorageNext]_storeVars

-----------------------------------------------------------------------------
(* "Pin content to prevent GC" (storage.ts:386): content that was pinned     *)
(* while no other call worked on it loses nothing, whatever is read,        *)
(* deleted and collected at once after that, until it is unpinned or stored *)
(* again (which unpins it).                                                 *)
PinnedIsKept ==
    [][\A c \in kept \cap kept' :
           /\ pinned[c] = TRUE /\ pinned'[c] = TRUE
           /\ fragments[c] \subseteq fragments'[c]
           /\ c \in manifests => c \in manifests']_storeVars
=============================================================================
