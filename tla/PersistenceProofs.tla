-------------------------- MODULE PersistenceProofs -------------------------
(***************************************************************************)
(* However many operations of the storage manager run at once, the only    *)
(* way for all of them to wait for each other is the one that              *)
(* OnlyThreeWayDeadlock describes.  And however deploys, redeploys,        *)
(* webhooks and deletions of a gateway interleave, with calls of Redis     *)
(* that fail, clients that leave and restarts of the gateway: the last     *)
(* outcome of a deployment that a client was told lasts.                   *)
(***************************************************************************)
EXTENDS StorageLocks, Deployments, SequenceTheorems, TLAPS

-----------------------------------------------------------------------------
(* The locks of the storage manager.                                       *)

\* The kinds of critical sections there are.
SectionKind == { <<Read(l)>> : l \in Lock } \cup { <<Write(l)>> : l \in Lock }
                 \cup {SaveMetadata, CountTotal, CountPins}

\* The workers whose sections need a lock next.
Needing(l) ==
    { t \in Worker : Busy(t) /\ taken[t] < Len(Plan(t)) /\ Wants(t).lock = l }

\* Who waits for a lock is in a section that needs it next, and waits once.
Queued ==
    \A l \in Lock :
        /\ \A i \in DOMAIN waiters[l] : waiters[l][i] \in Needing(l)
        /\ \A i, j \in DOMAIN waiters[l] : waiters[l][i] = waiters[l][j] => i = j

LocksInv == LocksTypeOK /\ Queued

-----------------------------------------------------------------------------
(* The sections of the operations.                                         *)

(* A short list of elements of a set is a sequence over the set.            *)
LEMMA Lists ==
  ASSUME NEW S, NEW u \in S, NEW v \in S, NEW x \in S, NEW y \in S, NEW z \in S
  PROVE  /\ <<u>> \in Seq(S) /\ Len(<<u>>) = 1
         /\ <<u, v>> \in Seq(S) /\ Len(<<u, v>>) = 2
         /\ <<u, v, x>> \in Seq(S) /\ Len(<<u, v, x>>) = 3
         /\ <<u, v, x, y>> \in Seq(S) /\ Len(<<u, v, x, y>>) = 4
         /\ <<u, v, x, y, z>> \in Seq(S) /\ Len(<<u, v, x, y, z>>) = 5
  OBVIOUS

(* Three sequences over a set make one.                                     *)
LEMMA Joined ==
  ASSUME NEW S, NEW s \in Seq(S), NEW t \in Seq(S), NEW r \in Seq(S)
  PROVE  s \o t \o r \in Seq(S) /\ Len(s \o t \o r) = Len(s) + Len(t) + Len(r)
<1>1. s \o t \in Seq(S) /\ Len(s \o t) = Len(s) + Len(t)
  BY ConcatProperties
<1> QED  BY <1>1, ConcatProperties

(* Every operation is a sequence of critical sections of these kinds; a     *)
(* deletion has eight of them, and a collection, which deletes, has twelve. *)
LEMMA KindsOfSections ==
    /\ \A o \in DOMAIN Sections : Sections[o] \in Seq(SectionKind) /\ Len(Sections[o]) > 0
    /\ Len(Sections["collect"]) = 12
<1> DEFINE K == SectionKind
<1>1. /\ \A l \in Lock : <<Read(l)>> \in K /\ <<Write(l)>> \in K
      /\ SaveMetadata \in K /\ CountTotal \in K /\ CountPins \in K
  BY DEF SectionKind
<1>2. /\ "usage" \in Lock /\ "content" \in Lock /\ "stats" \in Lock
      /\ "fragments" \in Lock
  BY DEF Lock
<1> HIDE DEF K
<1>3. /\ StoreFragment \in Seq(K) /\ Len(StoreFragment) = 5
      /\ StoreContent \in Seq(K) /\ Len(StoreContent) = 3
      /\ PinContent \in Seq(K) /\ Len(PinContent) = 4
  <2>1. StoreFragment \in Seq(K) /\ Len(StoreFragment) = 5
    BY <1>1, <1>2, Lists DEF StoreFragment
  <2>2. StoreContent \in Seq(K) /\ Len(StoreContent) = 3
    BY <1>1, <1>2, Lists DEF StoreContent
  <2>3. PinContent \in Seq(K) /\ Len(PinContent) = 4
    BY <1>1, <1>2, Lists DEF PinContent
  <2> QED  BY <2>1, <2>2, <2>3
<1>4. /\ DeleteFragment \in Seq(K) /\ Len(DeleteFragment) = 4
      /\ Download \in Seq(K) /\ Len(Download) = 3
  <2>1. DeleteFragment \in Seq(K) /\ Len(DeleteFragment) = 4
    BY <1>1, <1>2, Lists DEF DeleteFragment
  <2>2. Download \in Seq(K) /\ Len(Download) = 3
    BY <1>1, <1>2, Lists DEF Download
  <2> QED  BY <2>1, <2>2
<1>5. DeleteContent \in Seq(K) /\ Len(DeleteContent) = 8
  <2>1. /\ << <<Read("content")>> >> \in Seq(K)
        /\ Len(<< <<Read("content")>> >>) = 1
        /\ << <<Write("content")>>, CountTotal, SaveMetadata >> \in Seq(K)
        /\ Len(<< <<Write("content")>>, CountTotal, SaveMetadata >>) = 3
    BY <1>1, <1>2, Lists
  <2>2. PICK s, r \in Seq(K) : /\ Len(s) = 1 /\ Len(r) = 3
                               /\ DeleteContent = s \o DeleteFragment \o r
    BY <2>1, Zenon DEF DeleteContent
  <2>3. DeleteFragment \in Seq(K)
    BY <1>4
  <2>4. /\ s \o DeleteFragment \o r \in Seq(K)
        /\ Len(s \o DeleteFragment \o r) = Len(s) + Len(DeleteFragment) + Len(r)
    BY <2>3, Joined
  <2> QED  BY <1>4, <2>2, <2>4
<1>6. CollectGarbage \in Seq(K) /\ Len(CollectGarbage) = 12
  <2>1. /\ << <<Read("usage")>>, <<Read("content")>>, <<Read("fragments")>> >> \in Seq(K)
        /\ Len(<< <<Read("usage")>>, <<Read("content")>>, <<Read("fragments")>> >>) = 3
        /\ << <<Write("stats")>> >> \in Seq(K) /\ Len(<< <<Write("stats")>> >>) = 1
    BY <1>1, <1>2, Lists
  <2>2. PICK s, r \in Seq(K) : /\ Len(s) = 3 /\ Len(r) = 1
                               /\ CollectGarbage = s \o DeleteContent \o r
    BY <2>1, Zenon DEF CollectGarbage
  <2>3. DeleteContent \in Seq(K)
    BY <1>5
  <2>4. /\ s \o DeleteContent \o r \in Seq(K)
        /\ Len(s \o DeleteContent \o r) = Len(s) + Len(DeleteContent) + Len(r)
    BY <2>3, Joined
  <2> QED  BY <1>5, <2>2, <2>4
<1>7. \A o \in DOMAIN Sections : Sections[o] \in Seq(K) /\ Len(Sections[o]) > 0
  <2>1. \A o \in DOMAIN Sections :
            Sections[o] \in {StoreFragment, StoreContent, PinContent, DeleteContent,
                            CollectGarbage, Download}
    BY DEF Sections
  <2>2. \A x \in {StoreFragment, StoreContent, PinContent, DeleteContent,
                  CollectGarbage, Download} : x \in Seq(K) /\ Len(x) > 0
    <3>1. 5 > 0 /\ 3 > 0 /\ 4 > 0 /\ 8 > 0 /\ 12 > 0
      OBVIOUS
    <3> QED  BY <1>3, <1>4, <1>5, <1>6, <3>1, Zenon
  <2> QED  BY <2>1, <2>2
<1> QED  BY <1>6, <1>7 DEF Sections, K
-----------------------------------------------------------------------------
(* The invariant.                                                          *)

(* The plan of a busy worker is a section of one of the kinds.              *)
LEMMA PlansAreKinds ==
  ASSUME LocksTypeOK, NEW t \in Worker, Busy(t)
  PROVE  /\ Plan(t) \in SectionKind
         /\ taken[t] \in 0..Len(Plan(t))
<1>1. Sections[doing[t]] \in Seq(SectionKind)
  BY LocksAssumption, KindsOfSections DEF LocksTypeOK
<1>2. section[t] \in 1..Len(Sections[doing[t]])
  BY <1>1 DEF LocksTypeOK, Busy
<1> QED  BY <1>1, <1>2 DEF LocksTypeOK, Busy, Plan

(* A section takes one lock or two, each in a mode.                         *)
LEMMA KindsOfLocks ==
  ASSUME NEW k \in SectionKind
  PROVE  /\ Len(k) \in {1, 2}
         /\ \A i \in 1..Len(k) : k[i].lock \in Lock
         /\ \A i \in 1..Len(k) : \E l \in Lock : k[i] = Read(l) \/ k[i] = Write(l)
         /\ Len(k) = 2 => k \in {SaveMetadata, CountTotal, CountPins}
<1>1. CASE \E l \in Lock : k = <<Read(l)>> \/ k = <<Write(l)>>
  <2>1. PICK l \in Lock : k = <<Read(l)>> \/ k = <<Write(l)>>
    BY <1>1
  <2>2. Len(k) = 1 /\ (k[1] = Read(l) \/ k[1] = Write(l))
    BY <2>1
  <2>3. k[1].lock = l
    BY <2>2 DEF Read, Write
  <2> QED  BY <2>2, <2>3
<1>2. CASE k \in {SaveMetadata, CountTotal, CountPins}
  BY <1>2 DEF SaveMetadata, CountTotal, CountPins, Read, Write, Lock
<1> QED  BY <1>1, <1>2 DEF SectionKind

(* What a request waits for is what Queued says; idle ones do not wait.     *)
LEMMA WaitersAreBusy ==
  ASSUME LocksInv, NEW l \in Lock, NEW i \in DOMAIN waiters[l]
  PROVE  /\ waiters[l][i] \in Worker /\ Busy(waiters[l][i])
         /\ waiters[l][i] \in Needing(l)
BY DEF LocksInv, LocksTypeOK, Queued, Needing

(* A step of one worker leaves the others' needs as they are.               *)
LEMMA OthersKeepNeeds ==
  ASSUME LocksTypeOK, NEW t \in Worker,
         \A u \in Worker \ {t} : /\ doing'[u] = doing[u] /\ section'[u] = section[u]
                                /\ taken'[u] = taken[u],
         NEW u \in Worker \ {t}, NEW l
  PROVE  u \in Needing(l)' <=> u \in Needing(l)
BY DEF Busy, Plan, Wants, Needing

(* A call begins holding nothing, before its first section.                 *)
LEMMA StartKeeps ==
  ASSUME LocksInv, NEW t \in Worker, NEW o \in Op, Start(t, o)
  PROVE  LocksInv'
<1>1. \A u \in Worker \ {t} : /\ doing'[u] = doing[u] /\ section'[u] = section[u]
                             /\ taken'[u] = taken[u]
  BY DEF LocksInv, LocksTypeOK, Start
<1>2. LocksTypeOK'
  <2>1. Sections[o] \in Seq(SectionKind) /\ Len(Sections[o]) > 0
    BY LocksAssumption, KindsOfSections
  <2>2. Len(Sections[o][1]) \in {1, 2}
    BY <2>1, KindsOfLocks
  <2>3. /\ doing' \in [Worker -> Op] /\ section' \in [Worker -> Nat]
        /\ taken' \in [Worker -> Nat] /\ waiters' \in [Lock -> Seq(Worker)]
        /\ calls' \in 0..MaxCalls
    BY LocksAssumption DEF LocksInv, LocksTypeOK, Start
  <2>4. doing'[t] = o /\ section'[t] = 1 /\ taken'[t] = 0
    BY DEF LocksInv, LocksTypeOK, Start
  <2>5. /\ section'[t] \in 0..Len(Sections[doing'[t]])
        /\ taken'[t] \in 0..Len(Sections[doing'[t]][section'[t]])
    BY <2>1, <2>2, <2>4
  <2> QED  BY <1>1, <2>3, <2>5 DEF LocksInv, LocksTypeOK
<1>3. Queued'
  <2>1. \A l \in Lock : \A i \in DOMAIN waiters[l] : waiters[l][i] \in Worker \ {t}
    BY WaitersAreBusy DEF Start
  <2> QED  BY <1>1, <2>1, OthersKeepNeeds DEF LocksInv, Queued, Start
<1> QED  BY <1>2, <1>3 DEF LocksInv

(* A worker that asks joins one line, at its end, for a lock that its       *)
(* section takes next.                                                      *)
LEMMA AskKeeps ==
  ASSUME LocksInv, NEW t \in Worker, Ask(t)
  PROVE  LocksInv'
<1> DEFINE n == Wants(t).lock
<1>1. n \in Lock
  <2>1. taken[t] + 1 \in 1..Len(Plan(t))
    BY PlansAreKinds DEF LocksInv, Ask
  <2> QED  BY <2>1, PlansAreKinds, KindsOfLocks DEF LocksInv, Ask, Wants
<1> HIDE DEF n
<1>2. /\ waiters' = [waiters EXCEPT ![n] = Append(waiters[n], t)]
      /\ UNCHANGED <<doing, section, taken, calls>>
  BY DEF Ask, n
<1>3. LocksTypeOK'
  BY <1>1, <1>2 DEF LocksInv, LocksTypeOK
<1>4. waiters[n] \in Seq(Worker) /\ \A i \in DOMAIN waiters[n] : waiters[n][i] # t
  BY <1>1 DEF LocksInv, LocksTypeOK, Ask, Waiting
<1>5. /\ waiters'[n] = Append(waiters[n], t)
      /\ \A l \in Lock \ {n} : waiters'[l] = waiters[l]
  BY <1>1, <1>2 DEF LocksInv, LocksTypeOK
<1>6. /\ DOMAIN waiters'[n] = 1..Len(waiters[n]) + 1
      /\ waiters'[n][Len(waiters[n]) + 1] = t
      /\ \A i \in 1..Len(waiters[n]) : waiters'[n][i] = waiters[n][i]
  BY <1>4, <1>5
<1>7. \A l : Needing(l)' = Needing(l)
  BY <1>2 DEF Busy, Plan, Wants, Needing
<1>8. t \in Needing(n)
  BY DEF Ask, Needing, n
<1>9. ASSUME NEW l \in Lock
      PROVE  /\ \A i \in DOMAIN waiters'[l] : waiters'[l][i] \in Needing(l)'
             /\ \A i, j \in DOMAIN waiters'[l] : waiters'[l][i] = waiters'[l][j] => i = j
  <2>1. CASE l # n
    BY <1>5, <1>7, <2>1, WaitersAreBusy DEF LocksInv, Queued
  <2>2. CASE l = n
    <3>1. \A i \in 1..Len(waiters[n]) : waiters[n][i] \in Worker /\ i \in DOMAIN waiters[n]
      BY <1>4
    <3> QED  BY <1>1, <1>4, <1>6, <1>7, <1>8, <2>2, <3>1, WaitersAreBusy DEF LocksInv, Queued
  <2> QED  BY <2>1, <2>2
<1> QED  BY <1>3, <1>9 DEF LocksInv, Queued

(* The worker that a lock is granted to was the first in its line, and      *)
(* leaves it.                                                               *)
LEMMA AcquireKeeps ==
  ASSUME LocksInv, NEW t \in Worker, Acquire(t)
  PROVE  LocksInv'
<1> DEFINE n == Wants(t).lock
<1>1. n \in Lock
  <2>1. taken[t] + 1 \in 1..Len(Plan(t))
    BY PlansAreKinds DEF LocksInv, Acquire
  <2> QED  BY <2>1, PlansAreKinds, KindsOfLocks DEF LocksInv, Acquire, Wants
<1> HIDE DEF n
<1>2. /\ waiters' = [waiters EXCEPT ![n] = Tail(waiters[n])]
      /\ taken' = [taken EXCEPT ![t] = taken[t] + 1]
      /\ UNCHANGED <<doing, section, calls>>
  BY DEF Acquire, n
<1>3. waiters[n] \in Seq(Worker) /\ waiters[n] # <<>> /\ waiters[n][1] = t
  BY <1>1 DEF LocksInv, LocksTypeOK, Acquire, FirstInLine, n
<1>4. /\ waiters'[n] = Tail(waiters[n]) /\ waiters'[n] \in Seq(Worker)
      /\ \A l \in Lock \ {n} : waiters'[l] = waiters[l]
  BY <1>1, <1>2, <1>3 DEF LocksInv, LocksTypeOK
<1>5. \A u \in Worker \ {t} : /\ doing'[u] = doing[u] /\ section'[u] = section[u]
                             /\ taken'[u] = taken[u]
  BY <1>2 DEF LocksInv, LocksTypeOK
<1>6. LocksTypeOK'
  <2>1. taken[t] + 1 \in 1..Len(Plan(t))
    BY PlansAreKinds DEF LocksInv, Acquire
  <2>2. /\ doing' \in [Worker -> Op] /\ section' \in [Worker -> Nat]
        /\ taken' \in [Worker -> Nat] /\ waiters' \in [Lock -> Seq(Worker)]
        /\ calls' \in 0..MaxCalls
    BY <1>1, <1>2, <1>3, <1>4 DEF LocksInv, LocksTypeOK
  <2>3. /\ section'[t] = section[t] /\ doing'[t] = doing[t] /\ taken'[t] = taken[t] + 1
        /\ Plan(t) = Sections[doing[t]][section[t]]
    BY <1>2 DEF LocksInv, LocksTypeOK, Plan
  <2>4. /\ section'[t] \in 0..Len(Sections[doing'[t]])
        /\ taken'[t] \in 0..Len(Sections[doing'[t]][section'[t]])
    BY <2>1, <2>3 DEF LocksInv, LocksTypeOK
  <2> QED  BY <1>5, <2>2, <2>4 DEF LocksInv, LocksTypeOK
<1>7. /\ DOMAIN waiters'[n] = 1..Len(waiters[n]) - 1
      /\ \A i \in 1..Len(waiters[n]) - 1 :
            waiters'[n][i] = waiters[n][i + 1] /\ i + 1 \in DOMAIN waiters[n]
  BY <1>3, <1>4
<1>8. \A l \in Lock : \A i \in DOMAIN waiters'[l] : waiters'[l][i] \in Worker \ {t}
  <2>1. 1 \in DOMAIN waiters[n]
    BY <1>3
  <2>2. ASSUME NEW l \in Lock \ {n}, NEW i \in DOMAIN waiters[l]
        PROVE  waiters[l][i] \in Worker \ {t}
    BY <2>2, WaitersAreBusy DEF n, Needing
  <2>3. \A i \in DOMAIN waiters'[n] : waiters'[n][i] \in Worker \ {t}
    BY <1>1, <1>3, <1>7, <2>1, WaitersAreBusy DEF LocksInv, Queued
  <2> QED  BY <1>4, <2>2, <2>3
<1>9. ASSUME NEW l \in Lock
      PROVE  /\ \A i \in DOMAIN waiters'[l] : waiters'[l][i] \in Needing(l)'
             /\ \A i, j \in DOMAIN waiters'[l] : waiters'[l][i] = waiters'[l][j] => i = j
  <2>1. CASE l # n
    BY <1>4, <1>5, <1>8, <2>1, OthersKeepNeeds, WaitersAreBusy DEF LocksInv, Queued
  <2>2. CASE l = n
    <3>1. \A i, j \in DOMAIN waiters'[l] : waiters'[l][i] = waiters'[l][j] => i = j
      <4>1. SUFFICES ASSUME NEW i \in DOMAIN waiters'[n], NEW j \in DOMAIN waiters'[n],
                            waiters'[n][i] = waiters'[n][j]
                     PROVE  i = j
        BY <2>2
      <4>2. /\ i \in Nat /\ j \in Nat /\ waiters[n][i + 1] = waiters[n][j + 1]
            /\ i + 1 \in DOMAIN waiters[n] /\ j + 1 \in DOMAIN waiters[n]
        BY <1>3, <1>7, <4>1
      <4>3. i + 1 = j + 1
        BY <1>1, <4>2 DEF LocksInv, Queued
      <4> QED  BY <4>2, <4>3
    <3>2. \A i \in DOMAIN waiters'[l] :
             waiters'[l][i] \in Needing(l)
      BY <1>1, <1>7, <2>2 DEF LocksInv, Queued
    <3> QED  BY <1>5, <1>8, <3>1, <3>2, OthersKeepNeeds DEF LocksInv
  <2> QED  BY <2>1, <2>2
<1> QED  BY <1>6, <1>9 DEF LocksInv, Queued

(* A section that ends gives back all it held, and the next one starts with *)
(* nothing.                                                                 *)
LEMMA ReleaseKeeps ==
  ASSUME LocksInv, NEW t \in Worker, Release(t)
  PROVE  LocksInv'
<1>1. \A u \in Worker \ {t} : /\ doing'[u] = doing[u] /\ section'[u] = section[u]
                             /\ taken'[u] = taken[u]
  BY DEF LocksInv, LocksTypeOK, Release
<1>2. PICK s \in After(doing[t], section[t]) : section' = [section EXCEPT ![t] = s]
  BY DEF Release
<1>3. s \in 0..Len(Sections[doing[t]])
  <2>1. doing[t] \in DOMAIN Sections /\ Sections[doing[t]] \in Seq(SectionKind)
    BY LocksAssumption, KindsOfSections DEF LocksInv, LocksTypeOK
  <2>2. section[t] \in Nat
    BY DEF LocksInv, LocksTypeOK
  <2>3. doing[t] = "collect" => Len(Sections[doing[t]]) = 12
    BY KindsOfSections
  <2> DEFINE m == Len(Sections[doing[t]])
  <2>4. m \in Nat
    BY <2>1
  <2>5. \/ s = section[t] + 1 /\ section[t] < m
        \/ s = 0
        \/ doing[t] = "collect" /\ s \in {4, 12}
    BY <1>2, Zenon DEF After
  <2>6. doing[t] = "collect" => m = 12
    BY <2>3
  <2> HIDE DEF m
  <2>7. s \in 0..m
    BY <2>2, <2>4, <2>5, <2>6
  <2> QED  BY <2>7 DEF m
<1>4. LocksTypeOK'
  <2>1. s \in Nat /\ (s # 0 => Sections[doing[t]][s] \in SectionKind)
    <3>1. Sections[doing[t]] \in Seq(SectionKind)
      BY LocksAssumption, KindsOfSections DEF LocksInv, LocksTypeOK
    <3> QED  BY <1>3, <3>1
  <2>2. s # 0 => 0 \in 0..Len(Sections[doing[t]][s])
    BY <2>1, KindsOfLocks
  <2>3. /\ doing' \in [Worker -> Op] /\ section' \in [Worker -> Nat]
        /\ taken' \in [Worker -> Nat] /\ waiters' \in [Lock -> Seq(Worker)]
        /\ calls' \in 0..MaxCalls
    BY <1>2, <2>1 DEF LocksInv, LocksTypeOK, Release
  <2>4. doing'[t] = doing[t] /\ section'[t] = s /\ taken'[t] = 0
    BY <1>2 DEF LocksInv, LocksTypeOK, Release
  <2> QED  BY <1>1, <1>3, <2>2, <2>3, <2>4 DEF LocksInv, LocksTypeOK
<1>5. Queued'
  <2>1. \A l \in Lock : \A i \in DOMAIN waiters[l] : waiters[l][i] \in Worker \ {t}
    <3>1. taken[t] \in Nat /\ ~(taken[t] < Len(Plan(t)))
      BY DEF LocksInv, LocksTypeOK, Release
    <3> QED  BY <3>1, WaitersAreBusy DEF Needing
  <2> QED  BY <1>1, <2>1, OthersKeepNeeds DEF LocksInv, Queued, Release
<1> QED  BY <1>4, <1>5 DEF LocksInv

(* Between its steps every worker leaves the locks to the rules above.      *)
LEMMA LocksKeep ==
  ASSUME LocksInv, [LocksNext]_lockVars
  PROVE  LocksInv'
<1>1. CASE UNCHANGED lockVars
  <2>1. \A l \in Lock : Needing(l)' = Needing(l)
    BY <1>1 DEF lockVars, Needing, Busy, Plan, Wants
  <2>2. LocksTypeOK'
    BY <1>1 DEF lockVars, LocksInv, LocksTypeOK
  <2>3. waiters' = waiters
    BY <1>1 DEF lockVars
  <2>4. Queued'
    BY <2>1, <2>3 DEF LocksInv, Queued
  <2> QED  BY <2>2, <2>4 DEF LocksInv
<1>2. ASSUME NEW t \in Worker, NEW o \in Op, Start(t, o)  PROVE LocksInv'
  BY <1>2, StartKeeps
<1>3. ASSUME NEW t \in Worker, LockStep(t)  PROVE LocksInv'
  BY <1>3, AskKeeps, AcquireKeeps, ReleaseKeeps DEF LockStep
<1> QED  BY <1>1, <1>2, <1>3 DEF LocksNext

(* At first nobody holds or waits.                                          *)
LEMMA LocksStart == LocksInit => LocksInv
<1> SUFFICES ASSUME LocksInit PROVE LocksInv
  OBVIOUS
<1>1. LocksTypeOK
  <2>1. \A o \in Op : Sections[o] \in Seq(SectionKind)
    BY LocksAssumption, KindsOfSections
  <2> QED  BY <2>1, LocksAssumption DEF LocksInit, LocksTypeOK
<1>2. Queued
  BY DEF LocksInit, Queued
<1> QED  BY <1>1, <1>2 DEF LocksInv

-----------------------------------------------------------------------------
(* Who waits for whom when nobody can go on.                               *)

(* The first in a line waits for somebody who holds the lock.               *)
LEMMA SomebodyHolds ==
  ASSUME LocksInv, AllBlocked, NEW l \in Lock, waiters[l] # <<>>
  PROVE  /\ waiters[l][1] \in Needing(l)
         /\ \E u \in Worker : \/ Holds(u, l, "write")
                            \/ /\ Wants(waiters[l][1]).mode = "write"
                               /\ Holds(u, l, "read")
<1> DEFINE w == waiters[l][1]
<1>1. waiters[l] \in Seq(Worker) /\ 1 \in DOMAIN waiters[l]
  BY DEF LocksInv, LocksTypeOK
<1>2. w \in Needing(l)
  BY <1>1 DEF LocksInv, Queued
<1>3. w \in Worker /\ Busy(w) /\ Wants(w).lock = l
  BY <1>2 DEF Needing
<1>4. FirstInLine(w)
  BY <1>1, <1>3 DEF FirstInLine
<1>5. ~Free(Wants(w))
  BY <1>3, <1>4 DEF AllBlocked, Blocked
<1> QED  BY <1>2, <1>3, <1>5 DEF Free

(* Who holds a lock while nobody can go on is between the two locks of its  *)
(* section, and waits for the second.                                       *)
LEMMA HoldersWait ==
  ASSUME LocksInv, AllBlocked, NEW u \in Worker, NEW l, NEW m, Holds(u, l, m)
  PROVE  /\ [lock |-> l, mode |-> m] = Plan(u)[1] /\ Wants(u) = Plan(u)[2]
         /\ Plan(u) \in {SaveMetadata, CountTotal, CountPins}
         /\ Wants(u).lock \in Lock /\ waiters[Wants(u).lock] # <<>>
<1>1. Busy(u) /\ \E i \in 1..taken[u] : Plan(u)[i] = [lock |-> l, mode |-> m]
  BY DEF Holds
<1>2. PICK n \in Lock : \E i \in DOMAIN waiters[n] : waiters[n][i] = u
  BY <1>1 DEF AllBlocked, Blocked, Waiting
<1>3. u \in Needing(n) /\ waiters[n] # <<>>
  BY <1>2 DEF LocksInv, Queued
<1>4. taken[u] < Len(Plan(u)) /\ Wants(u).lock = n
  BY <1>3 DEF Needing
<1>5. Plan(u) \in SectionKind /\ taken[u] \in 0..Len(Plan(u))
  BY <1>1, PlansAreKinds DEF LocksInv
<1>6. Len(Plan(u)) \in {1, 2}
      /\ (Len(Plan(u)) = 2 => Plan(u) \in {SaveMetadata, CountTotal, CountPins})
  BY <1>5, KindsOfLocks
<1>7. taken[u] = 1 /\ Len(Plan(u)) = 2
  <2> DEFINE n2 == Len(Plan(u))
  <2>1. taken[u] \in 0..n2 /\ taken[u] < n2 /\ n2 \in {1, 2}
    BY <1>4, <1>5, <1>6
  <2>2. taken[u] # 0
    BY <1>1
  <2> HIDE DEF n2
  <2>3. taken[u] = 1 /\ n2 = 2
    BY <2>1, <2>2
  <2> QED  BY <2>3 DEF n2
<1> QED  BY <1>1, <1>3, <1>4, <1>6, <1>7 DEF Wants

(* So it is one of three things: it saves the metadata, or it counts while  *)
(* it holds the statistics or while it holds the content.                   *)
LEMMA ThreeHolders ==
  ASSUME LocksInv, AllBlocked, NEW u \in Worker, NEW l, NEW m, Holds(u, l, m)
  PROVE  \/ l = "fragments" /\ m = "read" /\ Wants(u) = Read("content")
         \/ l = "stats" /\ m = "write" /\ Wants(u) = Read("content")
         \/ l = "content" /\ m = "read" /\ Wants(u) = Write("stats")
<1>1. [lock |-> l, mode |-> m] = Plan(u)[1] /\ Wants(u) = Plan(u)[2]
  BY HoldersWait
<1>2. CASE Plan(u) = SaveMetadata
  BY <1>1, <1>2 DEF SaveMetadata, Read
<1>3. CASE Plan(u) = CountTotal
  BY <1>1, <1>3 DEF CountTotal, Read, Write
<1>4. CASE Plan(u) = CountPins
  BY <1>1, <1>4 DEF CountPins, Read, Write
<1> QED  BY <1>2, <1>3, <1>4, HoldersWait

(* A way that all requests wait is the one OnlyThreeWayDeadlock describes:  *)
(* somebody waits for the content, hence somebody who pins has it, who      *)
(* waits for the statistics, which somebody has who waits for the content.  *)
LEMMA AllBlockedIsThreeWay == LocksInv => OnlyThreeWayDeadlock
<1> SUFFICES ASSUME LocksInv, AllBlocked
             PROVE  \E p, s, w \in Worker :
                       /\ Holds(p, "content", "read") /\ Wants(p) = Write("stats")
                       /\ Holds(s, "stats", "write") /\ Wants(s) = Read("content")
                       /\ Wants(w) = Write("content") /\ waiters["content"][1] = w
  BY DEF OnlyThreeWayDeadlock
<1>0. "content" \in Lock /\ "stats" \in Lock
  BY DEF Lock
<1>1. waiters["content"] # <<>>
  <2>1. PICK t \in Worker : Busy(t)
    BY DEF AllBlocked
  <2>2. PICK n \in Lock : waiters[n] # <<>>
    BY <2>1 DEF AllBlocked, Blocked, Waiting, LocksInv, LocksTypeOK
  <2>3. CASE n = "content"
    BY <2>2, <2>3
  <2>4. CASE n # "content"
    <3>1. PICK u \in Worker : Holds(u, n, "write") \/ Holds(u, n, "read")
      BY <2>2, SomebodyHolds
    <3>2. Wants(u) = Read("content")
      BY <2>4, <3>1, ThreeHolders
    <3>3. Wants(u).lock = "content"
      BY <3>2 DEF Read
    <3> QED  BY <3>1, <3>3, HoldersWait
  <2> QED  BY <2>3, <2>4
<1> DEFINE w == waiters["content"][1]
<1>2. w \in Needing("content")
  BY <1>0, <1>1, SomebodyHolds
<1>3. PICK p \in Worker : /\ Wants(w).mode = "write" /\ Holds(p, "content", "read")
                         /\ Wants(p) = Write("stats")
  <2>1. PICK p \in Worker : \/ Holds(p, "content", "write")
                           \/ /\ Wants(waiters["content"][1]).mode = "write"
                              /\ Holds(p, "content", "read")
    BY <1>0, <1>1, SomebodyHolds
  <2>2. ~Holds(p, "content", "write")
    BY ThreeHolders
  <2>3. Holds(p, "content", "read") => Wants(p) = Write("stats")
    BY ThreeHolders
  <2> QED  BY <2>1, <2>2, <2>3
<1>4. Wants(p).lock = "stats" /\ waiters["stats"] # <<>>
  <2>1. Wants(p).lock = "stats"
    BY <1>3 DEF Write
  <2> QED  BY <1>3, <2>1, HoldersWait
<1>5. PICK s \in Worker : Holds(s, "stats", "write") /\ Wants(s) = Read("content")
  <2>1. PICK s \in Worker : Holds(s, "stats", "write") \/ Holds(s, "stats", "read")
    BY <1>0, <1>4, SomebodyHolds
  <2> QED  BY <2>1, ThreeHolders
<1>6. w \in Worker /\ Wants(w) = Write("content")
  <2>1. w \in Worker /\ Busy(w) /\ taken[w] < Len(Plan(w)) /\ Wants(w).lock = "content"
    BY <1>2 DEF Needing
  <2>2. Plan(w) \in SectionKind /\ taken[w] + 1 \in 1..Len(Plan(w))
    BY <2>1, PlansAreKinds DEF LocksInv
  <2>3. \E l \in Lock : Wants(w) = Read(l) \/ Wants(w) = Write(l)
    BY <2>2, KindsOfLocks DEF Wants
  <2> QED  BY <1>3, <2>1, <2>3 DEF Read, Write
<1> QED  BY <1>3, <1>5, <1>6

(* The locks, the lines and the workers have their types: a lock is held by *)
(* sets of workers, and who waits for it is a list of workers.              *)
THEOREM LocksType == LocksSpec => []LocksTypeOK
<1>1. LocksInv => LocksTypeOK
  BY DEF LocksInv
<1> QED  BY <1>1, LocksStart, LocksKeep, PTL DEF LocksSpec

(* The only deadlock of the storage manager's locks, for any number of      *)
(* requests of any operations: one that pins, one that stores or deletes,   *)
(* and one that waits to write the content between them.  Without one of    *)
(* the three, somebody can always go on.                                    *)
THEOREM DeadlockIsThreeWay == LocksSpec => []OnlyThreeWayDeadlock
BY AllBlockedIsThreeWay, LocksStart, LocksKeep, PTL DEF LocksSpec

-----------------------------------------------------------------------------
(* The deployments of a gateway.                                           *)

\* The content is a deployment in memory and in Redis, or nowhere.
Up(c)   == listed[c] # None /\ json[c] # None /\ c \in order
Down(c) == listed[c] = None /\ json[c] = None /\ c \notin order

\* What a task has by the time of its step.
Equipped ==
    \A t \in Job :
        /\ at[t] = "download" => origin[t] \in Repo
        /\ at[t] \in BuildSteps \cup RedisSteps => origin[t] \in Origin
        /\ at[t] \in (BuildSteps \ {"download"}) \cup RedisSteps => new[t] \in Cid
        /\ at[t] \in RemoveSteps => old[t] \in Cid

\* What a task did is still there, as long as nobody undoes it.
Works(t) ==
    clean[t] =>
        /\ at[t] \in {"zadd", "insert"} => json[new[t]] # None
        /\ at[t] = "insert" => new[t] \in order
        /\ at[t] \in RemoveSteps /\ new[t] \notin {old[t], None} => Up(new[t])
        /\ at[t] \in {"del", "zrem"} => listed[old[t]] = None
        /\ at[t] = "zrem" => json[old[t]] = None
WorkHolds == \A t \in Job : Works(t)

\* Nobody is about to undo an outcome without taking it back first.
KeptHolds == \A c \in kept : Up(c) /\ \A u \in Job : ~HasRemoved(u, c)
GoneHolds == \A c \in gone : Down(c) /\ \A u \in Job : ~HasSaved(u, c)

DeployInv == DeployTypeOK /\ Equipped /\ WorkHolds /\ KeptHolds /\ GoneHolds

-----------------------------------------------------------------------------
(* Every action keeps the invariant.                                       *)

USE DEF BuildSteps, RedisSteps, RemoveSteps, Kinds, Origin, Move, store, task, history


(* A build of a repository begins.                                          *)
LEMMA DeployFromGithubKeeps ==
  ASSUME DeployInv, NEW t \in Job, NEW r \in Repo, DeployFromGithub(t, r)
  PROVE  DeployInv'
<1> USE DeployAssumption DEF DeployInv, DeployTypeOK, Equipped, DeployFromGithub, BeginJob
<1>1. DeployTypeOK'
  OBVIOUS
<1>2. Equipped'
  OBVIOUS
<1>3. ASSUME NEW u \in Job  PROVE Works(u)'
  BY DEF WorkHolds, Works, Up, HasSaved, HasRemoved
<1>4. KeptHolds'
  BY DEF WorkHolds, Works, KeptHolds, Up, HasSaved, HasRemoved
<1>5. GoneHolds'
  BY DEF WorkHolds, Works, GoneHolds, Down, HasSaved, HasRemoved
<1> QED  BY <1>1, <1>2, <1>3, <1>4, <1>5 DEF WorkHolds

(* An upload begins.                                                        *)
LEMMA DeployZipKeeps ==
  ASSUME DeployInv, NEW t \in Job, NEW c \in Cid, DeployZip(t, c)
  PROVE  DeployInv'
<1> USE DeployAssumption DEF DeployInv, DeployTypeOK, Equipped, DeployZip, BeginJob
<1>1. DeployTypeOK'
  OBVIOUS
<1>2. Equipped'
  OBVIOUS
<1>3. ASSUME NEW u \in Job  PROVE Works(u)'
  BY DEF WorkHolds, Works, Up, HasSaved, HasRemoved
<1>4. KeptHolds'
  BY DEF WorkHolds, Works, KeptHolds, Up, HasSaved, HasRemoved
<1>5. GoneHolds'
  BY DEF WorkHolds, Works, GoneHolds, Down, HasSaved, HasRemoved
<1> QED  BY <1>1, <1>2, <1>3, <1>4, <1>5 DEF WorkHolds

(* A redeploy begins: its deployment comes from a repository.               *)
LEMMA RedeployKeeps ==
  ASSUME DeployInv, NEW t \in Job, NEW c \in Cid, Redeploy(t, c)
  PROVE  DeployInv'
<1> USE DeployAssumption DEF DeployInv, DeployTypeOK, Equipped, Redeploy, BeginJob
<1>1. DeployTypeOK'
  OBVIOUS
<1>2. Equipped'
  OBVIOUS
<1>3. ASSUME NEW u \in Job  PROVE Works(u)'
  BY DEF WorkHolds, Works, Up, HasSaved, HasRemoved
<1>4. KeptHolds'
  BY DEF WorkHolds, Works, KeptHolds, Up, HasSaved, HasRemoved
<1>5. GoneHolds'
  BY DEF WorkHolds, Works, GoneHolds, Down, HasSaved, HasRemoved
<1> QED  BY <1>1, <1>2, <1>3, <1>4, <1>5 DEF WorkHolds

(* A webhook begins a build, of the repository it names.                    *)
LEMMA WebhookKeeps ==
  ASSUME DeployInv, NEW t \in Job, NEW r \in Repo, Webhook(t, r)
  PROVE  DeployInv'
<1> USE DeployAssumption DEF DeployInv, DeployTypeOK, Equipped, Webhook, BeginJob
<1>1. DeployTypeOK'
  <2>1. CASE \E c \in Cid : listed[c] = r /\ BeginJob(t, "webhook", r, None, c, "download")
    BY <2>1
  <2>2. CASE BeginJob(t, "webhook", r, None, None, "download")
    BY <2>2
  <2> QED  BY <2>1, <2>2
<1>2. Equipped'
  <2>1. CASE \E c \in Cid : listed[c] = r /\ BeginJob(t, "webhook", r, None, c, "download")
    BY <2>1
  <2>2. CASE BeginJob(t, "webhook", r, None, None, "download")
    BY <2>2
  <2> QED  BY <2>1, <2>2
<1>3. ASSUME NEW u \in Job  PROVE Works(u)'
  BY DEF WorkHolds, Works, Up, HasSaved, HasRemoved
<1>4. KeptHolds'
  BY DEF WorkHolds, Works, KeptHolds, Up, HasSaved, HasRemoved
<1>5. GoneHolds'
  BY DEF WorkHolds, Works, GoneHolds, Down, HasSaved, HasRemoved
<1> QED  BY <1>1, <1>2, <1>3, <1>4, <1>5 DEF WorkHolds

(* A deletion begins, with nothing new.                                     *)
LEMMA DeleteDeploymentKeeps ==
  ASSUME DeployInv, NEW t \in Job, NEW c \in Cid, DeleteDeployment(t, c)
  PROVE  DeployInv'
<1> USE DeployAssumption DEF DeployInv, DeployTypeOK, Equipped, DeleteDeployment, BeginJob
<1>1. DeployTypeOK'
  OBVIOUS
<1>2. Equipped'
  OBVIOUS
<1>3. ASSUME NEW u \in Job  PROVE Works(u)'
  BY DEF WorkHolds, Works, Up, HasSaved, HasRemoved
<1>4. KeptHolds'
  BY DEF WorkHolds, Works, KeptHolds, Up, HasSaved, HasRemoved
<1>5. GoneHolds'
  BY DEF WorkHolds, Works, GoneHolds, Down, HasSaved, HasRemoved
<1> QED  BY <1>1, <1>2, <1>3, <1>4, <1>5 DEF WorkHolds

(* A build knows its content from here on.                                  *)
LEMMA DownloadZipKeeps ==
  ASSUME DeployInv, NEW t \in Job, DownloadZip(t)
  PROVE  DeployInv'
<1> USE DeployAssumption DEF DeployInv, DeployTypeOK, Equipped, DownloadZip
<1>1. DeployTypeOK'
  OBVIOUS
<1>2. Equipped'
  OBVIOUS
<1>3. ASSUME NEW u \in Job  PROVE Works(u)'
  BY DEF WorkHolds, Works, Up, HasSaved, HasRemoved
<1>4. KeptHolds'
  BY DEF WorkHolds, Works, KeptHolds, Up, HasSaved, HasRemoved
<1>5. GoneHolds'
  BY DEF WorkHolds, Works, GoneHolds, Down, HasSaved, HasRemoved
<1> QED  BY <1>1, <1>2, <1>3, <1>4, <1>5 DEF WorkHolds

(* A build that is stored has its content.                                  *)
LEMMA StoreFilesKeeps ==
  ASSUME DeployInv, NEW t \in Job, StoreFiles(t)
  PROVE  DeployInv'
<1> USE DeployAssumption DEF DeployInv, DeployTypeOK, Equipped, StoreFiles
<1>1. DeployTypeOK'
  OBVIOUS
<1>2. Equipped'
  OBVIOUS
<1>3. ASSUME NEW u \in Job  PROVE Works(u)'
  BY DEF WorkHolds, Works, Up, HasSaved, HasRemoved
<1>4. KeptHolds'
  BY DEF WorkHolds, Works, KeptHolds, Up, HasSaved, HasRemoved
<1>5. GoneHolds'
  BY DEF WorkHolds, Works, GoneHolds, Down, HasSaved, HasRemoved
<1> QED  BY <1>1, <1>2, <1>3, <1>4, <1>5 DEF WorkHolds

(* A build that fails has saved nothing: it leaves no outcome.              *)
LEMMA BuildFailsKeeps ==
  ASSUME DeployInv, NEW t \in Job, BuildFails(t)
  PROVE  DeployInv'
<1> USE DeployAssumption DEF DeployInv, DeployTypeOK, Equipped, BuildFails, Rest
<1>1. DeployTypeOK'
  OBVIOUS
<1>2. Equipped'
  OBVIOUS
<1>3. ASSUME NEW u \in Job  PROVE Works(u)'
  BY DEF WorkHolds, Works, Up, HasSaved, HasRemoved
<1>4. KeptHolds'
  BY DEF WorkHolds, Works, KeptHolds, Up, HasSaved, HasRemoved
<1>5. GoneHolds'
  BY DEF WorkHolds, Works, GoneHolds, Down, HasSaved, HasRemoved
<1> QED  BY <1>1, <1>2, <1>3, <1>4, <1>5 DEF WorkHolds

(* Names have no part in what is listed.                                    *)
LEMMA AssignDomainKeeps ==
  ASSUME DeployInv, NEW t \in Job, AssignDomain(t)
  PROVE  DeployInv'
<1> USE DeployAssumption DEF DeployInv, DeployTypeOK, Equipped, AssignDomain
<1>1. DeployTypeOK'
  OBVIOUS
<1>2. Equipped'
  OBVIOUS
<1>3. ASSUME NEW u \in Job  PROVE Works(u)'
  BY DEF WorkHolds, Works, Up, HasSaved, HasRemoved
<1>4. KeptHolds'
  BY DEF WorkHolds, Works, KeptHolds, Up, HasSaved, HasRemoved
<1>5. GoneHolds'
  BY DEF WorkHolds, Works, GoneHolds, Down, HasSaved, HasRemoved
<1> QED  BY <1>1, <1>2, <1>3, <1>4, <1>5 DEF WorkHolds

(* Nor have processes and manifests.                                        *)
LEMMA ServeKeeps ==
  ASSUME DeployInv, NEW t \in Job, Serve(t)
  PROVE  DeployInv'
<1> USE DeployAssumption DEF DeployInv, DeployTypeOK, Equipped, Serve
<1>1. DeployTypeOK'
  OBVIOUS
<1>2. Equipped'
  OBVIOUS
<1>3. ASSUME NEW u \in Job  PROVE Works(u)'
  BY DEF WorkHolds, Works, Up, HasSaved, HasRemoved
<1>4. KeptHolds'
  BY DEF WorkHolds, Works, KeptHolds, Up, HasSaved, HasRemoved
<1>5. GoneHolds'
  BY DEF WorkHolds, Works, GoneHolds, Down, HasSaved, HasRemoved
<1> QED  BY <1>1, <1>2, <1>3, <1>4, <1>5 DEF WorkHolds

(* What SetJson writes is not gone, and others that had removed it see it   *)
(* undone.                                                                  *)
LEMMA SetJsonKeeps ==
  ASSUME DeployInv, NEW t \in Job, SetJson(t)
  PROVE  DeployInv'
<1> USE DeployAssumption DEF DeployInv, DeployTypeOK, Equipped, SetJson, Touch, Undone
<1>1. DeployTypeOK'
  OBVIOUS
<1>2. Equipped'
  OBVIOUS
<1>3. ASSUME NEW u \in Job  PROVE Works(u)'
  <2>1. CASE u = t
    BY <2>1 DEF WorkHolds, Works, Up
  <2>2. CASE u # t
    BY <2>2 DEF WorkHolds, Works, Up, HasSaved, HasRemoved
  <2> QED  BY <2>1, <2>2
<1>4. KeptHolds'
  BY DEF WorkHolds, Works, KeptHolds, Up, HasSaved, HasRemoved
<1>5. GoneHolds'
  BY DEF WorkHolds, Works, GoneHolds, Down, HasSaved, HasRemoved
<1> QED  BY <1>1, <1>2, <1>3, <1>4, <1>5 DEF WorkHolds

(* The second write keeps what the first one claimed.                       *)
LEMMA ZaddKeeps ==
  ASSUME DeployInv, NEW t \in Job, Zadd(t)
  PROVE  DeployInv'
<1> USE DeployAssumption DEF DeployInv, DeployTypeOK, Equipped, Zadd, Touch, Undone
<1>1. DeployTypeOK'
  OBVIOUS
<1>2. Equipped'
  OBVIOUS
<1>3. ASSUME NEW u \in Job  PROVE Works(u)'
  BY DEF WorkHolds, Works, Up, HasSaved, HasRemoved
<1>4. KeptHolds'
  BY DEF WorkHolds, Works, KeptHolds, Up, HasSaved, HasRemoved
<1>5. GoneHolds'
  BY DEF WorkHolds, Works, GoneHolds, Down, HasSaved, HasRemoved
<1> QED  BY <1>1, <1>2, <1>3, <1>4, <1>5 DEF WorkHolds

(* After a failed call of Redis nothing is promised for the task.           *)
LEMMA RedisFailsKeeps ==
  ASSUME DeployInv, NEW t \in Job, RedisFails(t)
  PROVE  DeployInv'
<1> USE DeployAssumption DEF DeployInv, DeployTypeOK, Equipped, RedisFails, Rest, Undone
<1>1. DeployTypeOK'
  OBVIOUS
<1>2. Equipped'
  OBVIOUS
<1>3. ASSUME NEW u \in Job  PROVE Works(u)'
  <2>1. CASE u = t
    BY <2>1 DEF WorkHolds, Works, Up
  <2>2. CASE u # t
    <3>1. at'[u] = at[u] /\ new'[u] = new[u] /\ old'[u] = old[u] /\ Works(u)
      BY <2>2 DEF WorkHolds
    <3>2. CASE at[t] \in {"setJson", "zadd"}
      <4>1. /\ clean'[u] => clean[u] /\ ~HasSaved(u, new[t]) /\ ~HasRemoved(u, new[t])
            /\ \A c \in Cid \ {new[t]} : json'[c] = json[c] /\ (c \in order' <=> c \in order)
            /\ listed' = listed
        BY <2>2, <3>2
      <4> QED  BY <3>1, <4>1, <3>2 DEF Works, Up, HasSaved, HasRemoved
    <3>3. CASE at[t] \in {"del", "zrem"}
      <4>1. /\ clean'[u] => clean[u] /\ ~HasSaved(u, old[t]) /\ ~HasRemoved(u, old[t])
            /\ \A c \in Cid \ {old[t]} : json'[c] = json[c] /\ (c \in order' <=> c \in order)
            /\ listed' = listed
        BY <2>2, <3>3
      <4> QED  BY <3>1, <4>1, <3>3 DEF Works, Up, HasSaved, HasRemoved
    <3> QED  BY <3>2, <3>3
  <2> QED  BY <2>1, <2>2
<1>4. KeptHolds'
  BY DEF WorkHolds, Works, KeptHolds, Up, HasSaved, HasRemoved
<1>5. GoneHolds'
  BY DEF WorkHolds, Works, GoneHolds, Down, HasSaved, HasRemoved
<1> QED  BY <1>1, <1>2, <1>3, <1>4, <1>5 DEF WorkHolds

(* With its third write a deployment is up, and is kept unless somebody is  *)
(* removing it.                                                             *)
LEMMA InsertKeeps ==
  ASSUME DeployInv, NEW t \in Job, Insert(t)
  PROVE  DeployInv'
<1> USE DeployAssumption DEF DeployInv, DeployTypeOK, Equipped, Insert, Rest, Touch, Undone, Succeeds
<1>1. DeployTypeOK'
  OBVIOUS
<1>2. Equipped'
  OBVIOUS
<1>3. ASSUME NEW u \in Job  PROVE Works(u)'
  <2>1. CASE u = t
    BY <2>1 DEF WorkHolds, Works, Up
  <2>2. CASE u # t
    <3>1. at'[u] = at[u] /\ new'[u] = new[u] /\ old'[u] = old[u] /\ Works(u)
      BY <2>2 DEF WorkHolds
    <3>2. clean'[u] =>
            /\ at[u] \in {"zadd", "insert"} => json'[new[u]] # None
            /\ at[u] = "insert" => new[u] \in order'
      BY <2>2, <3>1 DEF Works, HasSaved
    <3>3. clean'[u] =>
            (at[u] \in RemoveSteps /\ new[u] \notin {old[u], None} => Up(new[u])')
      BY <2>2, <3>1 DEF Works, Up, HasSaved
    <3>4. clean'[u] =>
            /\ at[u] \in {"del", "zrem"} => listed'[old[u]] = None
            /\ at[u] = "zrem" => json'[old[u]] = None
      BY <2>2, <3>1 DEF Works, HasRemoved
    <3> QED  BY <3>1, <3>2, <3>3, <3>4 DEF Works, Up
  <2> QED  BY <2>1, <2>2
<1>4. KeptHolds'
  BY DEF WorkHolds, Works, KeptHolds, Up, HasSaved, HasRemoved
<1>5. GoneHolds'
  BY DEF WorkHolds, Works, GoneHolds, Down, HasSaved, HasRemoved
<1> QED  BY <1>1, <1>2, <1>3, <1>4, <1>5 DEF WorkHolds

(* What a task begins to remove is no longer promised to anybody.           *)
LEMMA RemoveKeeps ==
  ASSUME DeployInv, NEW t \in Job, Remove(t)
  PROVE  DeployInv'
<1> USE DeployAssumption DEF DeployInv, DeployTypeOK, Equipped, Remove, Rest, Touch, Undone
<1>1. DeployTypeOK'
  OBVIOUS
<1>2. Equipped'
  OBVIOUS
<1>3. ASSUME NEW u \in Job  PROVE Works(u)'
  <2>1. CASE u = t
    BY <2>1 DEF WorkHolds, Works, Up
  <2>2. CASE u # t
    <3>1. at'[u] = at[u] /\ new'[u] = new[u] /\ old'[u] = old[u] /\ Works(u)
      BY <2>2 DEF WorkHolds
    <3>2. clean'[u] =>
            /\ at[u] \in {"zadd", "insert"} => json'[new[u]] # None
            /\ at[u] = "insert" => new[u] \in order'
      BY <2>2, <3>1 DEF Works, HasSaved
    <3>3. clean'[u] =>
            (at[u] \in RemoveSteps /\ new[u] \notin {old[u], None} => Up(new[u])')
      BY <2>2, <3>1 DEF Works, Up, HasSaved
    <3>4. clean'[u] =>
            /\ at[u] \in {"del", "zrem"} => listed'[old[u]] = None
            /\ at[u] = "zrem" => json'[old[u]] = None
      BY <2>2, <3>1 DEF Works, HasRemoved
    <3> QED  BY <3>1, <3>2, <3>3, <3>4 DEF Works, Up
  <2> QED  BY <2>1, <2>2
<1>4. KeptHolds'
  BY DEF WorkHolds, Works, KeptHolds, Up, HasSaved, HasRemoved
<1>5. GoneHolds'
  BY DEF WorkHolds, Works, GoneHolds, Down, HasSaved, HasRemoved
<1> QED  BY <1>1, <1>2, <1>3, <1>4, <1>5 DEF WorkHolds

(* The second removal is of a content that nobody was promised since the    *)
(* first.                                                                   *)
LEMMA DelKeeps ==
  ASSUME DeployInv, NEW t \in Job, Del(t)
  PROVE  DeployInv'
<1> USE DeployAssumption DEF DeployInv, DeployTypeOK, Equipped, Del, Touch, Undone
<1>1. DeployTypeOK'
  OBVIOUS
<1>2. Equipped'
  OBVIOUS
<1>3. ASSUME NEW u \in Job  PROVE Works(u)'
  BY DEF WorkHolds, Works, Up, HasSaved, HasRemoved
<1>4. KeptHolds'
  BY DEF WorkHolds, Works, KeptHolds, Up, HasSaved, HasRemoved
<1>5. GoneHolds'
  BY DEF WorkHolds, Works, GoneHolds, Down, HasSaved, HasRemoved
<1> QED  BY <1>1, <1>2, <1>3, <1>4, <1>5 DEF WorkHolds

(* With its third removal a deployment is down; the new one of the task is  *)
(* still up.                                                                *)
LEMMA ZremKeeps ==
  ASSUME DeployInv, NEW t \in Job, Zrem(t)
  PROVE  DeployInv'
<1> USE DeployAssumption DEF DeployInv, DeployTypeOK, Equipped, Zrem, Rest, Touch, Undone, Succeeds
<1>1. DeployTypeOK'
  OBVIOUS
<1>2. Equipped'
  OBVIOUS
<1>3. ASSUME NEW u \in Job  PROVE Works(u)'
  BY DEF WorkHolds, Works, Up, HasSaved, HasRemoved
<1>4. KeptHolds'
  BY DEF WorkHolds, Works, KeptHolds, Up, HasSaved, HasRemoved
<1>5. GoneHolds'
  BY DEF WorkHolds, Works, GoneHolds, Down, HasSaved, HasRemoved
<1> QED  BY <1>1, <1>2, <1>3, <1>4, <1>5 DEF WorkHolds

(* A client that leaves takes its task with it, between two calls.          *)
LEMMA ClientLeavesKeeps ==
  ASSUME DeployInv, NEW t \in Job, ClientLeaves(t)
  PROVE  DeployInv'
<1> USE DeployAssumption DEF DeployInv, DeployTypeOK, Equipped, ClientLeaves, Rest
<1>1. DeployTypeOK'
  OBVIOUS
<1>2. Equipped'
  OBVIOUS
<1>3. ASSUME NEW u \in Job  PROVE Works(u)'
  BY DEF WorkHolds, Works, Up, HasSaved, HasRemoved
<1>4. KeptHolds'
  BY DEF WorkHolds, Works, KeptHolds, Up, HasSaved, HasRemoved
<1>5. GoneHolds'
  BY DEF WorkHolds, Works, GoneHolds, Down, HasSaved, HasRemoved
<1> QED  BY <1>1, <1>2, <1>3, <1>4, <1>5 DEF WorkHolds

(* A restart ends all tasks, and lists what Redis has.                      *)
LEMMA RestartKeeps ==
  ASSUME DeployInv, Restart
  PROVE  DeployInv'
<1> USE DeployAssumption DEF DeployInv, DeployTypeOK, Equipped, Restart, Loaded
<1>1. DeployTypeOK'
  OBVIOUS
<1>2. Equipped' /\ WorkHolds'
  BY DEF WorkHolds, Works
<1>3. KeptHolds'
  BY DEF KeptHolds, Up, HasRemoved
<1>4. GoneHolds'
  BY DEF GoneHolds, Down, HasSaved
<1> QED  BY <1>1, <1>2, <1>3, <1>4

(* What a repository yields next changes no deployment.                     *)
LEMMA PushKeeps ==
  ASSUME DeployInv, NEW r \in Repo, NEW c \in Cid, Push(r, c)
  PROVE  DeployInv'
<1> USE DeployAssumption DEF DeployInv, DeployTypeOK, Equipped, Push
<1>1. DeployTypeOK' /\ Equipped'
  OBVIOUS
<1>2. WorkHolds' /\ KeptHolds' /\ GoneHolds'
  BY DEF WorkHolds, Works, KeptHolds, GoneHolds, Up, Down, HasSaved, HasRemoved
<1> QED  BY <1>1, <1>2

(* Every step keeps the invariant.                                          *)
LEMMA DeploysKeep ==
  ASSUME DeployInv, [DeployNext]_deployVars
  PROVE  DeployInv'
<1>1. CASE UNCHANGED deployVars
  <2>1. DeployTypeOK' /\ Equipped'
    BY <1>1 DEF deployVars, DeployInv, DeployTypeOK, Equipped
  <2>2. WorkHolds' /\ KeptHolds' /\ GoneHolds'
    BY <1>1 DEF deployVars, DeployInv, WorkHolds, Works, KeptHolds, GoneHolds, Up, Down,
                HasSaved, HasRemoved
  <2> QED  BY <2>1, <2>2 DEF DeployInv
<1>2. ASSUME NEW t \in Job, NewJob(t)  PROVE DeployInv'
  BY <1>2, DeployFromGithubKeeps, WebhookKeeps, DeployZipKeeps, RedeployKeeps,
     DeleteDeploymentKeeps DEF NewJob
<1>3. ASSUME NEW t \in Job, JobStep(t)  PROVE DeployInv'
  BY <1>3, DownloadZipKeeps, StoreFilesKeeps, BuildFailsKeeps, AssignDomainKeeps, ServeKeeps,
     SetJsonKeeps, ZaddKeeps, RedisFailsKeeps, InsertKeeps, RemoveKeeps, DelKeeps, ZremKeeps
     DEF JobStep
<1>4. ASSUME NEW t \in Job, ClientLeaves(t)  PROVE DeployInv'
  BY <1>4, ClientLeavesKeeps
<1>5. ASSUME NEW r \in Repo, NEW c \in Cid, Push(r, c)  PROVE DeployInv'
  BY <1>5, PushKeeps
<1> QED  BY <1>1, <1>2, <1>3, <1>4, <1>5, RestartKeeps DEF DeployNext

(* A gateway that starts has promised nothing.                              *)
LEMMA DeploysStart == DeployInit => DeployInv
BY DeployAssumption DEF DeployInit, DeployInv, DeployTypeOK, Equipped, WorkHolds, Works,
   KeptHolds, GoneHolds

-----------------------------------------------------------------------------
(* The theorems.                                                           *)

(* The variables of the deployments have their types, and a task has what   *)
(* its next step needs.                                                     *)
THEOREM DeployType == DeploySpec => [](DeployTypeOK /\ Equipped)
<1>1. DeployInv => DeployTypeOK /\ Equipped
  BY DEF DeployInv
<1> QED  BY <1>1, DeploysStart, DeploysKeep, PTL DEF DeploySpec

(* What a client was told last of a deployment holds, now and after a       *)
(* restart, for any number of tasks, contents and repositories, and with or *)
(* without failures of Redis (dashboard.rs:1289, 3421).                     *)
THEOREM OutcomesAreKept == DeploySpec => []OutcomesLast
<1>1. DeployInv => OutcomesLast
  <2> SUFFICES ASSUME DeployInv  PROVE OutcomesLast
    OBVIOUS
  <2>1. kept \in SUBSET Cid /\ gone \in SUBSET Cid
    BY DEF DeployInv, DeployTypeOK
  <2>2. KeptSurvives
    BY <2>1 DEF DeployInv, KeptHolds, Up, KeptSurvives, Loaded
  <2>3. GoneStaysGone
    BY <2>1 DEF DeployInv, GoneHolds, Down, GoneStaysGone, Loaded
  <2> QED  BY <2>2, <2>3 DEF OutcomesLast
<1> QED  BY <1>1, DeploysStart, DeploysKeep, PTL DEF DeploySpec
=============================================================================
