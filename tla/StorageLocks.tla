---------------------------- MODULE StorageLocks ----------------------------
(***************************************************************************)
(* The read-write locks of the StorageManager (node-runner/src/storage.rs) *)
(* and the order in which its operations take them.  Every operation is a  *)
(* sequence of critical sections; a section takes its locks one after the  *)
(* other and releases them together.  tokio's RwLock serves its waiters in *)
(* the order they came, so a reader waits behind a writer that waits.      *)
(***************************************************************************)
EXTENDS Naturals, Sequences, FiniteSets

CONSTANTS
    Worker,         \* requests that can be in progress at once
    Op,             \* the operations they may ask for
    MaxCalls        \* bound: operations started in a behaviour

Lock == {"fragments", "content", "usage", "stats"}

Read(l)  == [lock |-> l, mode |-> "read"]
Write(l) == [lock |-> l, mode |-> "write"]

\* save_metadata holds both maps while it writes the file.
SaveMetadata == <<Read("fragments"), Read("content")>>

\* store_content and delete count the content while they hold the statistics;
\* pin and unpin hold the content while they write the statistics.
CountTotal == <<Write("stats"), Read("content")>>
CountPins  == <<Read("content"), Write("stats")>>

StoreFragment ==
    << <<Read("usage")>>, <<Write("fragments")>>, <<Write("usage")>>,
       <<Write("stats")>>, SaveMetadata >>

\* Mutant: the guard on content is kept while the statistics are updated.
StoreContentHolding ==
    << <<Write("content"), Write("stats")>>, SaveMetadata >>

StoreContent == << <<Write("content")>>, CountTotal, SaveMetadata >>

PinContent == << <<Write("content")>>, <<Write("fragments")>>, CountPins, SaveMetadata >>

DeleteFragment ==
    << <<Read("fragments")>>, <<Write("fragments")>>, <<Write("usage")>>,
       <<Write("stats")>> >>

DeleteContent ==
    << <<Read("content")>> >> \o DeleteFragment
        \o << <<Write("content")>>, CountTotal, SaveMetadata >>

CollectGarbage ==
    << <<Read("usage")>>, <<Read("content")>>, <<Read("fragments")>> >> \o DeleteContent
        \o << <<Write("stats")>> >>

\* download_content: get_content, then get_fragment, which notes the access.
Download == << <<Read("content")>>, <<Read("fragments")>>, <<Write("fragments")>> >>

Sections ==
    [storeFragment |-> StoreFragment, storeContent |-> StoreContent, pin |-> PinContent,
     delete |-> DeleteContent, collect |-> CollectGarbage, download |-> Download]

\* Where the code returns early: no capacity, content that is not there or is
\* pinned, enough space free, an empty list of candidates.
Returns ==
    [storeFragment |-> {1}, storeContent |-> {}, pin |-> {1}, delete |-> {1},
     collect |-> {1}, download |-> {1, 2}]

ASSUME LocksAssumption == Op \subseteq DOMAIN Sections /\ MaxCalls \in Nat

\* The section after section s of operation o, 0 for none.  garbage_collect
\* deletes candidates (sections 4 to 11) in a loop and ends with section 12.
After(o, s) ==
    (IF s < Len(Sections[o]) THEN {s + 1} ELSE {0})
        \cup (IF s \in Returns[o] THEN {0} ELSE {})
        \cup (IF o = "collect" /\ s \in {3, 4, 11} THEN {4, 12} ELSE {})

VARIABLES
    doing,      \* the operation of a task
    section,    \* the section it is in, 0 when it is idle
    taken,      \* how many locks of the section it holds
    waiters,    \* Lock -> the tasks that wait for it, first come first
    calls       \* operations started

lockVars == <<doing, section, taken, waiters, calls>>

LocksTypeOK ==
    /\ doing \in [Worker -> Op]
    /\ section \in [Worker -> Nat] /\ taken \in [Worker -> Nat]
    /\ \A t \in Worker :
          /\ section[t] \in 0..Len(Sections[doing[t]])
          /\ section[t] # 0 => taken[t] \in 0..Len(Sections[doing[t]][section[t]])
    /\ waiters \in [Lock -> Seq(Worker)]
    /\ calls \in 0..MaxCalls

LocksInit ==
    /\ doing \in [Worker -> Op]
    /\ section = [t \in Worker |-> 0]
    /\ taken = [t \in Worker |-> 0]
    /\ waiters = [l \in Lock |-> <<>>]
    /\ calls = 0

Busy(t) == section[t] # 0

Plan(t) == Sections[doing[t]][section[t]]

Holds(t, l, mode) ==
    Busy(t) /\ \E i \in 1..taken[t] : Plan(t)[i] = [lock |-> l, mode |-> mode]

\* The lock a task needs next in its section.
Wants(t) == Plan(t)[taken[t] + 1]

Waiting(t) == \E l \in Lock : \E i \in DOMAIN waiters[l] : waiters[l][i] = t

Start(t, o) ==
    /\ ~Busy(t) /\ calls < MaxCalls
    /\ calls' = calls + 1
    /\ doing' = [doing EXCEPT ![t] = o]
    /\ section' = [section EXCEPT ![t] = 1]
    /\ taken' = [taken EXCEPT ![t] = 0]
    /\ UNCHANGED waiters

Ask(t) ==
    /\ Busy(t) /\ taken[t] < Len(Plan(t)) /\ ~Waiting(t)
    /\ waiters' = [waiters EXCEPT ![Wants(t).lock] = Append(@, t)]
    /\ UNCHANGED <<doing, section, taken, calls>>

\* A writer needs every other task gone, a reader every writer.
Free(w) ==
    \A u \in Worker : /\ ~Holds(u, w.lock, "write")
                      /\ w.mode = "write" => ~Holds(u, w.lock, "read")

FirstInLine(t) == waiters[Wants(t).lock] # <<>> /\ Head(waiters[Wants(t).lock]) = t

Acquire(t) ==
    /\ Busy(t) /\ taken[t] < Len(Plan(t))
    /\ FirstInLine(t) /\ Free(Wants(t))
    /\ waiters' = [waiters EXCEPT ![Wants(t).lock] = Tail(@)]
    /\ taken' = [taken EXCEPT ![t] = @ + 1]
    /\ UNCHANGED <<doing, section, calls>>

\* The end of a section: its guards are dropped.
Release(t) ==
    /\ Busy(t) /\ taken[t] = Len(Plan(t))
    /\ \E s \in After(doing[t], section[t]) : section' = [section EXCEPT ![t] = s]
    /\ taken' = [taken EXCEPT ![t] = 0]
    /\ UNCHANGED <<doing, waiters, calls>>

LockStep(t) == Ask(t) \/ Acquire(t) \/ Release(t)

LocksNext == \E t \in Worker : (\E o \in Op : Start(t, o)) \/ LockStep(t)

\* The runtime polls every task that can move, and the list of candidates of a
\* collection is finite.
Fairness ==
    /\ \A t \in Worker : WF_lockVars(LockStep(t))
    /\ \A t \in Worker : SF_lockVars(Release(t) /\ section[t] \in {4, 11} /\ section'[t] = 12)

LocksSpec == LocksInit /\ [][LocksNext]_lockVars /\ Fairness

-----------------------------------------------------------------------------

Blocked(t) == Waiting(t) /\ ~(FirstInLine(t) /\ Free(Wants(t)))

AllBlocked == (\E t \in Worker : Busy(t)) /\ \A t \in Worker : Busy(t) => Blocked(t)

(* Every operation ends, whatever others run at the same time ("Max         *)
(* parallel requests": 100, docs/node-runner-guide.md).                     *)
Completes == \A t \in Worker : Busy(t) ~> ~Busy(t)

(* The only way for the operations to wait for each other for ever: one     *)
(* that pins holds the content and waits for the statistics, one that       *)
(* stores or deletes holds the statistics and waits for the content, and a  *)
(* third waits to write the content, before the second in the line.         *)
OnlyThreeWayDeadlock ==
    AllBlocked =>
        \E p, s, w \in Worker :
            /\ Holds(p, "content", "read") /\ Wants(p) = Write("stats")
            /\ Holds(s, "stats", "write") /\ Wants(s) = Read("content")
            /\ Wants(w) = Write("content") /\ waiters["content"][1] = w
=============================================================================
