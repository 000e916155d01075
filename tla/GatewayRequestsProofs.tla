----------------------- MODULE GatewayRequestsProofs -----------------------
(* Theorems about BuildSessions, for any number of builds, of streams and   *)
(* of permits, and for every capacity of the channel; and about the cache   *)
(* of ContentPath, for any number of requests and keys and every capacity.  *)
EXTENDS BuildSessions, ContentPath, FiniteSetTheorems, SequenceTheorems, TLAPS

Event == {"log"} \cup Final

-----------------------------------------------------------------------------
(* The channel.                                                             *)

\* What Send leaves in the channel of a stream.
Sent(q, e) == IF Len(Append(q, e)) > Capacity THEN Tail(Append(q, e)) ELSE Append(q, e)

\* The event that is sent is in the channel, as its last, and what else is in
\* it was there before.
LEMMA SentType ==
    ASSUME NEW q \in Seq(Event), Len(q) <= Capacity, NEW e \in Event
    PROVE  /\ Sent(q, e) \in Seq(Event)
           /\ Len(Sent(q, e)) \in 1..Capacity
           /\ Sent(q, e)[Len(Sent(q, e))] = e
           /\ \A i \in 1..Len(Sent(q, e)) :
                 Sent(q, e)[i] = e \/ \E j \in 1..Len(q) : Sent(q, e)[i] = q[j]
<1>1. Capacity \in Nat /\ Capacity > 0 BY CapacityAssumption
<1> DEFINE a == Append(q, e)
<1>2. /\ a \in Seq(Event) /\ Len(a) = Len(q) + 1 /\ a[Len(a)] = e
      /\ \A i \in 1..Len(q) : a[i] = q[i]
  OBVIOUS
<1>3. CASE Len(a) > Capacity
  <2>1. Sent(q, e) = Tail(a) BY <1>3 DEF Sent
  <2>2. /\ Tail(a) \in Seq(Event) /\ Len(Tail(a)) = Len(q)
        /\ \A i \in 1..Len(q) : Tail(a)[i] = a[i + 1]
    BY <1>2
  <2>3. Len(q) \in Nat /\ Len(q) > 0 /\ Len(q) <= Capacity BY <1>1, <1>2, <1>3
  <2>4. Tail(a)[Len(q)] = e BY <1>2, <2>2, <2>3
  <2>5. ASSUME NEW i \in 1..Len(q)
        PROVE  Tail(a)[i] = e \/ \E j \in 1..Len(q) : Tail(a)[i] = q[j]
    <3>1. CASE i = Len(q) BY <2>4, <3>1
    <3>2. CASE i # Len(q)
      <4>1. i + 1 \in 1..Len(q) BY <2>3, <3>2
      <4> QED BY <1>2, <2>2, <4>1
    <3> QED BY <3>1, <3>2
  <2> QED BY <1>1, <2>1, <2>2, <2>3, <2>4, <2>5
<1>4. CASE ~(Len(a) > Capacity)
  <2>1. Sent(q, e) = a BY <1>4 DEF Sent
  <2>2. Len(a) \in 1..Capacity BY <1>1, <1>2, <1>4
  <2>3. ASSUME NEW i \in 1..Len(a)
        PROVE  a[i] = e \/ \E j \in 1..Len(q) : a[i] = q[j]
    <3>1. CASE i = Len(a) BY <1>2, <3>1
    <3>2. CASE i # Len(a)
      <4>1. i \in 1..Len(q) BY <1>2, <3>2
      <4> QED BY <1>2, <4>1
    <3> QED BY <3>1, <3>2
  <2> QED BY <1>2, <2>1, <2>2, <2>3
<1> QED BY <1>3, <1>4

\* A sequence of more than one event keeps its last when it loses its first.
LEMMA TailLast ==
    ASSUME NEW q \in Seq(Event), q # <<>>, Len(q) # 1
    PROVE  Tail(q) # <<>> /\ Tail(q)[Len(Tail(q))] = q[Len(q)]
<1>1. Len(q) \in Nat /\ Len(q) > 1 BY EmptySeq
<1>2. Tail(q) \in Seq(Event) /\ Len(Tail(q)) = Len(q) - 1 BY <1>1
<1>3. Len(q) - 1 \in 1..(Len(q) - 1) BY <1>1
<1>4. Tail(q)[Len(q) - 1] = q[Len(q)] BY <1>1, <1>3
<1>5. Tail(q) # <<>>
  <2>1. Len(<<>>) = 0 OBVIOUS
  <2>2. Len(Tail(q)) # 0 BY <1>1, <1>2
  <2> QED BY <2>1, <2>2, Zenon
<1> QED BY <1>2, <1>4, <1>5

Listens(w, b) == watched[w] = b /\ place[w] = "streaming"

LEMMA SendEffect ==
    ASSUME TypeOK, NEW b \in Build, NEW e \in Event, Send(b, e)
    PROVE  /\ queue' \in [Watcher -> Seq(Event)]
           /\ \A w \in Watcher : Len(queue'[w]) <= Capacity
           /\ \A w \in Watcher : Listens(w, b) => queue'[w] = Sent(queue[w], e)
           /\ \A w \in Watcher : ~Listens(w, b) => queue'[w] = queue[w]
<1>1. ASSUME NEW w \in Watcher
      PROVE  queue'[w] = IF Listens(w, b) THEN Sent(queue[w], e) ELSE queue[w]
  BY DEF Send, Sent, Listens
<1>2. ASSUME NEW w \in Watcher
      PROVE  queue[w] \in Seq(Event) /\ Len(queue[w]) <= Capacity
  BY DEF TypeOK, Event
<1>3. ASSUME NEW w \in Watcher
      PROVE  queue'[w] \in Seq(Event) /\ Len(queue'[w]) <= Capacity
  <2>1. CASE Listens(w, b)
    <3>1. Len(Sent(queue[w], e)) \in 1..Capacity /\ Sent(queue[w], e) \in Seq(Event)
      BY <1>2, SentType
    <3> QED BY <1>1, <2>1, <3>1, CapacityAssumption
  <2>2. CASE ~Listens(w, b) BY <1>1, <1>2, <2>2
  <2> QED BY <2>1, <2>2
<1>4. queue' \in [Watcher -> Seq(Event)]
  BY <1>3 DEF Send
<1> QED BY <1>1, <1>3, <1>4
-----------------------------------------------------------------------------
(* Types.                                                                   *)

LEMMA EndType ==
    ASSUME TypeOK, NEW w \in Watcher, NEW e \in Final \cup {"left", None}, End(w, e)
    PROVE  /\ place' \in [Watcher -> Place]
           /\ sawStatus' \in [Watcher -> {"building"} \cup Final]
           /\ sawResult' \in [Watcher -> Final \cup {None}]
           /\ queue' \in [Watcher -> Seq(Event)]
           /\ \A u \in Watcher : Len(queue'[u]) <= Capacity
           /\ told' \in [Watcher -> Final \cup {"notFound", "left", None}]
<1>1. <<>> \in Seq(Event) /\ Len(<<>>) <= Capacity BY CapacityAssumption
<1> QED BY <1>1 DEF TypeOK, End, Place, Event

LEMMA BuildTypes ==
    ASSUME TypeOK, Recorded, NEW b \in Build,
           Open(b) \/ Acquire(b) \/ PushLog(b) \/ BuildStep(b) \/ Expire(b) \/ Sweep(b)
    PROVE  TypeOK'
<1>1. CASE Open(b) \/ Acquire(b) \/ Expire(b) \/ Sweep(b)
  BY <1>1 DEF Open, Acquire, Expire, Sweep, TypeOK, Stage, stream
<1>2. CASE PushLog(b)
  <2>1. /\ queue' \in [Watcher -> Seq(Event)]
        /\ \A w \in Watcher : Len(queue'[w]) <= Capacity
    BY <1>2, SendEffect DEF PushLog, Event
  <2>2. lines' \in [Build -> 0..MaxLines]
    BY <1>2, LinesAssumption DEF PushLog, TypeOK
  <2> QED BY <1>2, <2>1, <2>2 DEF PushLog, TypeOK, Event
<1>3. CASE SetStatus(b) \/ SetResult(b)
  BY <1>3 DEF SetStatus, SetResult, TypeOK, Stage, stream
<1>4. CASE Notify(b)
  <2>1. ends[b] \in Event BY <1>4 DEF Notify, Recorded, Event
  <2>2. /\ queue' \in [Watcher -> Seq(Event)]
        /\ \A w \in Watcher : Len(queue'[w]) <= Capacity
    BY <1>4, <2>1, SendEffect DEF Notify
  <2> QED BY <1>4, <2>2 DEF Notify, TypeOK, Stage, Event
<1> QED BY <1>1, <1>2, <1>3, <1>4 DEF BuildStep

LEMMA StreamTypes ==
    ASSUME TypeOK, \A w \in Watcher : Follows(w), NEW w \in Watcher,
           (\E b \in Build : Find(w, b)) \/ StreamStep(w) \/ Leave(w)
    PROVE  TypeOK'
<1>0. /\ place[w] # "idle" => watched[w] \in Build
      /\ queue[w] \in Seq(Event) /\ Len(queue[w]) <= Capacity
  BY DEF Follows, TypeOK, Event
<1>1. ASSUME NEW b \in Build, Find(w, b) PROVE TypeOK'
  <2>1. /\ place' \in [Watcher -> Place] /\ watched' \in [Watcher -> Build \cup {None}]
        /\ told' \in [Watcher -> Final \cup {"notFound", "left", None}]
    BY <1>1 DEF Find, TypeOK, Place
  <2> QED BY <1>1, <2>1 DEF Find, TypeOK, build
<1>2. CASE ReadStatus(w)
  <2>1. status[watched[w]] \in {"building"} \cup Final BY <1>0, <1>2 DEF ReadStatus, TypeOK
  <2>2. /\ place' \in [Watcher -> Place] /\ sawStatus' \in [Watcher -> {"building"} \cup Final]
        /\ overtaken' \in [Watcher -> {"no", "maybe", "yes"}]
    BY <1>2, <2>1 DEF ReadStatus, TypeOK, Place
  <2> QED BY <1>2, <2>2 DEF ReadStatus, TypeOK, build
<1>3. CASE ReadResult(w)
  <2>1. result[watched[w]] \in Final \cup {None} BY <1>0, <1>3 DEF ReadResult, TypeOK
  <2>2. /\ place' \in [Watcher -> Place] /\ sawResult' \in [Watcher -> Final \cup {None}]
    BY <1>3, <2>1 DEF ReadResult, TypeOK, Place
  <2> QED BY <1>3, <2>2 DEF ReadResult, TypeOK, build
<1>4. ASSUME NEW e \in Final \cup {"left", None}, End(w, e),
             UNCHANGED <<build, watched>>, overtaken' \in [Watcher -> {"no", "maybe", "yes"}]
      PROVE  TypeOK'
  <2>1. /\ place' \in [Watcher -> Place]
        /\ sawStatus' \in [Watcher -> {"building"} \cup Final]
        /\ sawResult' \in [Watcher -> Final \cup {None}]
        /\ queue' \in [Watcher -> Seq(Event)]
        /\ \A u \in Watcher : Len(queue'[u]) <= Capacity
        /\ told' \in [Watcher -> Final \cup {"notFound", "left", None}]
    BY <1>4, EndType
  <2> QED BY <1>4, <2>1 DEF TypeOK, build, Event
<1>5. CASE Subscribe(w)
  <2>1. overtaken' \in [Watcher -> {"no", "maybe", "yes"}]
    BY <1>5 DEF Subscribe, TypeOK
  <2>2. CASE sawStatus[w] = "building"
    <3>1. place' \in [Watcher -> Place] BY <1>5, <2>2 DEF Subscribe, TypeOK, Place
    <3> QED BY <1>5, <2>1, <2>2, <3>1 DEF Subscribe, TypeOK, build
  <2>3. CASE sawStatus[w] # "building"
    <3> DEFINE e == IF sawResult[w] = None THEN None ELSE sawStatus[w]
    <3>1. e \in Final \cup {"left", None} BY <2>3 DEF TypeOK
    <3>2. End(w, e) /\ UNCHANGED <<build, watched>> BY <1>5, <2>3 DEF Subscribe
    <3> QED BY <1>4, <2>1, <3>1, <3>2
  <2> QED BY <2>2, <2>3
<1>6. CASE Receive(w)
  <2>1. overtaken' \in [Watcher -> {"no", "maybe", "yes"}] /\ UNCHANGED <<build, watched>>
    BY <1>6 DEF Receive, TypeOK
  <2>2. CASE Head(queue[w]) \in Final
    BY <1>4, <1>6, <2>1, <2>2 DEF Receive
  <2>3. CASE Head(queue[w]) \notin Final
    <3>1. /\ Tail(queue[w]) \in Seq(Event) /\ Len(Tail(queue[w])) <= Capacity
      <4>1. Tail(queue[w]) \in Seq(Event) /\ Len(Tail(queue[w])) = Len(queue[w]) - 1
        BY <1>0, <1>6 DEF Receive
      <4> QED BY <1>0, <4>1, CapacityAssumption
    <3>2. queue' = [queue EXCEPT ![w] = Tail(queue[w])] BY <1>6, <2>3 DEF Receive
    <3>3. queue' \in [Watcher -> Seq(Event)] /\ \A u \in Watcher : Len(queue'[u]) <= Capacity
      BY <3>1, <3>2 DEF TypeOK, Event
    <3> QED BY <1>6, <2>1, <2>3, <3>3 DEF Receive, TypeOK, build, Event
  <2> QED BY <2>2, <2>3
<1>7. CASE Closed(w)
  BY <1>4, <1>7 DEF Closed, TypeOK
<1>8. CASE Leave(w)
  BY <1>4, <1>8 DEF Leave, TypeOK
<1> QED BY <1>1, <1>2, <1>3, <1>5, <1>6, <1>7, <1>8 DEF StreamStep

-----------------------------------------------------------------------------
(* The session follows its build, and the streams the session.              *)

IInv == TypeOK /\ StreamsFollow /\ ToldUnlessOvertaken

LEMMA RecordedKept ==
    ASSUME TypeOK, Recorded, NEW b \in Build,
           Open(b) \/ Acquire(b) \/ PushLog(b) \/ BuildStep(b) \/ Expire(b) \/ Sweep(b)
    PROVE  Recorded'
<1> SUFFICES ASSUME NEW c \in Build
             PROVE  /\ IF stage'[c] \in {"none", "queued", "running"}
                       THEN ends'[c] = None /\ status'[c] = "building"
                       ELSE ends'[c] \in Final /\ status'[c] = ends'[c]
                    /\ result'[c] = IF stage'[c] \in {"result", "over"} THEN ends'[c] ELSE None
  BY DEF Recorded
<1>0. Recorded!(c) BY DEF Recorded
<1>1. CASE Open(b) BY <1>0, <1>1 DEF Open, TypeOK
<1>2. CASE Acquire(b) BY <1>0, <1>2 DEF Acquire, TypeOK
<1>3. CASE PushLog(b) BY <1>0, <1>3 DEF PushLog
<1>4. CASE SetStatus(b) BY <1>0, <1>4 DEF SetStatus, TypeOK
<1>5. CASE SetResult(b) BY <1>0, <1>5 DEF SetResult, TypeOK
<1>6. CASE Notify(b) BY <1>0, <1>6 DEF Notify, TypeOK
<1>7. CASE Expire(b) \/ Sweep(b) BY <1>0, <1>7 DEF Expire, Sweep
<1> QED BY <1>1, <1>2, <1>3, <1>4, <1>5, <1>6, <1>7 DEF BuildStep

\* A step of a build that sends nothing: what a stream has read, or is about to
\* be sent, still fits the build.
LEMMA SilentKeeps ==
    ASSUME IInv, NEW b \in Build,
           Open(b) \/ Acquire(b) \/ SetStatus(b) \/ SetResult(b) \/ Expire(b) \/ Sweep(b)
    PROVE  (\A w \in Watcher : Follows(w)') /\ ToldUnlessOvertaken'
<1>1. UNCHANGED stream
  BY DEF Open, Acquire, SetStatus, SetResult, Expire, Sweep
<1>2. ASSUME NEW c \in Build
      PROVE  /\ ends[c] # None => ends'[c] = ends[c]
             /\ stage[c] \in {"result", "over"} => stage'[c] \in {"result", "over"}
             /\ stage'[c] = "over" => stage[c] = "over"
  <2>1. CASE Open(b) BY <2>1 DEF Open, IInv, TypeOK
  <2>2. CASE Acquire(b) BY <2>2 DEF Acquire, IInv, TypeOK
  <2>3. CASE SetStatus(b)
    <3>1. stage[b] = "running" /\ ends[b] = None
      BY <2>3 DEF SetStatus, IInv, StreamsFollow, Recorded
    <3> QED BY <2>3, <3>1 DEF SetStatus, IInv, TypeOK
  <2>4. CASE SetResult(b) BY <2>4 DEF SetResult, IInv, TypeOK
  <2>5. CASE Expire(b) \/ Sweep(b) BY <2>5 DEF Expire, Sweep
  <2> QED BY <2>1, <2>2, <2>3, <2>4, <2>5
<1>3. ASSUME NEW w \in Watcher PROVE Follows(w)'
  <2>0. Follows(w) BY DEF IInv, StreamsFollow
  <2>1. (place'[w] # "idle" => watched'[w] \in Build) BY <1>1, <2>0 DEF Follows, stream
  <2>2. Reads(w)'
    <3> SUFFICES ASSUME place[w] \in {"looked", "read"} PROVE Reads(w)'
      BY <1>1 DEF Reads, stream
    <3>1. watched[w] \in Build BY <2>0 DEF Follows
    <3>2. sawStatus[w] # "building" => sawStatus[w] \in Final BY DEF IInv, TypeOK
    <3>3. None \notin Final BY NoneAssumption DEF Final
    <3> QED BY <1>1, <1>2, <2>0, <3>1, <3>2, <3>3 DEF Follows, Reads, stream
  <2>3. Listening(w)'
    <3>1. CASE place[w] # "streaming" BY <1>1, <2>0, <3>1 DEF Follows, Listening, stream
    <3>2. CASE place[w] = "streaming"
      <4>1. watched[w] \in Build BY <2>0, <3>2 DEF Follows
      <4>2. queue[w] \in Seq(Event) BY DEF IInv, TypeOK, Event
      <4>3. \A i \in 1..Len(queue[w]) : queue[w][i] \in {"log", ends'[watched[w]]}
        <5>1. SUFFICES ASSUME NEW i \in 1..Len(queue[w])
                       PROVE  queue[w][i] \in {"log", ends'[watched[w]]}
          OBVIOUS
        <5>2. queue[w][i] \in Event BY <4>2
        <5>3. None \notin Event BY NoneAssumption DEF Event, Final
        <5> QED BY <1>2, <2>0, <3>2, <4>1, <5>2, <5>3 DEF Follows, Listening
      <4>4. \/ overtaken[w] = "yes"
            \/ /\ overtaken[w] = "no"
               /\ stage'[watched[w]] = "over" =>
                    queue[w] # <<>> /\ queue[w][Len(queue[w])] = ends'[watched[w]]
        <5>1. stage[watched[w]] = "over" => ends[watched[w]] # None
          BY <4>1, NoneAssumption DEF IInv, StreamsFollow, Recorded, Final
        <5> QED BY <1>2, <2>0, <3>2, <4>1, <5>1 DEF Follows, Listening
      <4> QED BY <1>1, <3>2, <4>3, <4>4 DEF Listening, stream
    <3> QED BY <3>1, <3>2
  <2> QED BY <2>1, <2>2, <2>3 DEF Follows
<1>4. ToldUnlessOvertaken'
  <2>1. SUFFICES ASSUME NEW w \in Watcher, place[w] = "closed"
                 PROVE  \/ told[w] \in Final /\ ends'[watched[w]] = told[w]
                        \/ told[w] \in {"left", "notFound"}
                        \/ told[w] = None /\ overtaken[w] = "yes"
    BY <1>1 DEF ToldUnlessOvertaken, stream
  <2>2. watched[w] \in Build BY <2>1 DEF IInv, StreamsFollow, Follows
  <2>3. None \notin Final BY NoneAssumption DEF Final
  <2> QED BY <1>2, <2>1, <2>2, <2>3 DEF IInv, ToldUnlessOvertaken
<1> QED BY <1>3, <1>4

\* A step that sends an event: each stream that listens has it as its last.
LEMMA SendKeeps ==
    ASSUME IInv, NEW b \in Build, PushLog(b) \/ Notify(b)
    PROVE  (\A w \in Watcher : Follows(w)') /\ ToldUnlessOvertaken'
<1> DEFINE e == IF PushLog(b) THEN "log" ELSE ends[b]
<1>1. /\ UNCHANGED <<place, watched, sawStatus, sawResult, told, overtaken, ends>>
      /\ Send(b, e)
  BY DEF PushLog, Notify
<1>2. e \in Event /\ e \in {"log", ends[b]}
  BY DEF IInv, StreamsFollow, Recorded, Notify, Event
<1>3. /\ \A w \in Watcher : Listens(w, b) => queue'[w] = Sent(queue[w], e)
      /\ \A w \in Watcher : ~Listens(w, b) => queue'[w] = queue[w]
  BY <1>1, <1>2, SendEffect DEF IInv
<1>4. ASSUME NEW c \in Build
      PROVE  /\ stage[c] \in {"result", "over"} => stage'[c] \in {"result", "over"}
             /\ stage'[c] = "over" => stage[c] = "over" \/ (c = b /\ e = ends[b])
  BY DEF PushLog, Notify, IInv, TypeOK
<1>5. ASSUME NEW w \in Watcher PROVE Follows(w)'
  <2>0. Follows(w) BY DEF IInv, StreamsFollow
  <2>1. place'[w] # "idle" => watched'[w] \in Build BY <1>1, <2>0 DEF Follows
  <2>2. Reads(w)' BY <1>1, <1>4, <2>0 DEF Follows, Reads
  <2>3. Listening(w)'
    <3>1. CASE place[w] # "streaming" BY <1>1, <1>3, <2>0, <3>1 DEF Follows, Listening, Listens
    <3>2. CASE place[w] = "streaming" /\ watched[w] # b
      <4>1. queue'[w] = queue[w] /\ watched[w] \in Build
        BY <1>3, <2>0, <3>2 DEF Follows, Listens
      <4> QED BY <1>1, <1>4, <2>0, <3>2, <4>1 DEF Follows, Listening
    <3>3. CASE place[w] = "streaming" /\ watched[w] = b
      <4>1. queue'[w] = Sent(queue[w], e) BY <1>3, <3>3 DEF Listens
      <4>2. queue[w] \in Seq(Event) /\ Len(queue[w]) <= Capacity BY DEF IInv, TypeOK, Event
      <4>3. /\ queue'[w] \in Seq(Event) /\ Len(queue'[w]) \in 1..Capacity
            /\ queue'[w][Len(queue'[w])] = e
            /\ \A i \in 1..Len(queue'[w]) :
                  queue'[w][i] = e \/ \E j \in 1..Len(queue[w]) : queue'[w][i] = queue[w][j]
        <5> HIDE DEF e
        <5>1. e \in Event BY <1>2
        <5>2. \A q \in Seq(Event) : Len(q) <= Capacity =>
                /\ Sent(q, e) \in Seq(Event) /\ Len(Sent(q, e)) \in 1..Capacity
                /\ Sent(q, e)[Len(Sent(q, e))] = e
                /\ \A i \in 1..Len(Sent(q, e)) :
                      Sent(q, e)[i] = e \/ \E k \in 1..Len(q) : Sent(q, e)[i] = q[k]
          BY <5>1, SentType
        <5> QED BY <4>1, <4>2, <5>2
      <4>4. \A i \in 1..Len(queue'[w]) : queue'[w][i] \in {"log", ends'[b]}
        BY <1>1, <1>2, <2>0, <3>3, <4>3 DEF Follows, Listening
      <4>5. \/ overtaken[w] = "yes"
            \/ /\ overtaken[w] = "no"
               /\ stage'[b] = "over" =>
                    queue'[w] # <<>> /\ queue'[w][Len(queue'[w])] = ends'[b]
        <5>1. CASE PushLog(b)
          <6>1. stage'[b] # "over" BY <5>1 DEF PushLog
          <6> QED BY <2>0, <3>3, <6>1 DEF Follows, Listening
        <5>2. CASE ~PushLog(b)
          <6>1. queue'[w] # <<>> BY <4>3
          <6> QED BY <1>1, <2>0, <3>3, <4>3, <5>2, <6>1 DEF Follows, Listening
        <5> QED BY <5>1, <5>2
      <4> QED BY <1>1, <3>3, <4>4, <4>5 DEF Listening
    <3> QED BY <3>1, <3>2, <3>3
  <2> QED BY <2>1, <2>2, <2>3 DEF Follows
<1>6. ToldUnlessOvertaken' BY <1>1 DEF IInv, ToldUnlessOvertaken
<1> QED BY <1>5, <1>6

\* A step of a stream leaves the builds and the other streams as they are.
LEMMA StreamFrame ==
    ASSUME TypeOK, NEW w \in Watcher,
           (\E b \in Build : Find(w, b)) \/ StreamStep(w) \/ Leave(w)
    PROVE  /\ UNCHANGED build
           /\ \A u \in Watcher \ {w} :
                 /\ place'[u] = place[u] /\ watched'[u] = watched[u]
                 /\ sawStatus'[u] = sawStatus[u] /\ sawResult'[u] = sawResult[u]
                 /\ queue'[u] = queue[u] /\ told'[u] = told[u]
                 /\ overtaken'[u] = overtaken[u]
<1>1. CASE \E b \in Build : Find(w, b) BY <1>1 DEF Find, TypeOK
<1>2. CASE ReadStatus(w)
  <2>1. /\ UNCHANGED <<build, watched, sawResult, queue, told>>
        /\ \A u \in Watcher \ {w} : place'[u] = place[u] /\ sawStatus'[u] = sawStatus[u]
    BY <1>2 DEF ReadStatus, TypeOK
  <2>2. \A u \in Watcher \ {w} : overtaken'[u] = overtaken[u]
    BY <1>2 DEF ReadStatus, TypeOK
  <2> QED BY <2>1, <2>2
<1>3. CASE ReadResult(w) BY <1>3 DEF ReadResult, TypeOK
<1>4. CASE Subscribe(w) BY <1>4 DEF Subscribe, End, TypeOK
<1>5. CASE Receive(w) BY <1>5 DEF Receive, End, TypeOK
<1>6. CASE Closed(w) BY <1>6 DEF Closed, End, TypeOK
<1>7. CASE Leave(w) BY <1>7 DEF Leave, End, TypeOK
<1> QED BY <1>1, <1>2, <1>3, <1>4, <1>5, <1>6, <1>7 DEF StreamStep

\* What ToldUnlessOvertaken says of one stream.
Told(w) ==
    place[w] = "closed" =>
        \/ told[w] \in Final /\ ends[watched[w]] = told[w]
        \/ told[w] \in {"left", "notFound"}
        \/ told[w] = None /\ overtaken[w] = "yes"

LEMMA FindFollows ==
    ASSUME IInv, NEW w \in Watcher, NEW b \in Build, Find(w, b)
    PROVE  Follows(w)' /\ Told(w)'
<1>1. /\ place'[w] \in {"found", "closed"} /\ watched'[w] = b /\ queue' = queue
      /\ place'[w] = "closed" => told'[w] = "notFound"
  BY DEF Find, IInv, TypeOK
<1>2. queue[w] = <<>> BY DEF Find, IInv, StreamsFollow, Follows, Listening
<1> QED BY <1>1, <1>2 DEF Follows, Reads, Listening, Told

LEMMA ReadsFollow ==
    ASSUME IInv, NEW w \in Watcher, ReadStatus(w) \/ ReadResult(w)
    PROVE  Follows(w)' /\ Told(w)'
<1>0. Follows(w) /\ watched[w] \in Build
  BY DEF IInv, StreamsFollow, Follows, ReadStatus, ReadResult
<1>1. Recorded!(watched[w]) BY <1>0 DEF IInv, StreamsFollow, Recorded
<1>2. queue[w] = <<>> BY <1>0 DEF Follows, Listening, ReadStatus, ReadResult
<1>3. CASE ReadStatus(w)
  <2>1. /\ place'[w] = "looked" /\ UNCHANGED <<build, watched, queue>>
        /\ sawStatus'[w] = status[watched[w]]
    BY <1>3 DEF ReadStatus, IInv, TypeOK
  <2>2. /\ stage[watched[w]] = "status" => overtaken'[w] = "yes"
        /\ stage[watched[w]] \notin {"status", "over"} => overtaken'[w] = "maybe"
    BY <1>3 DEF ReadStatus, IInv, TypeOK
  <2>3. stage[watched[w]] \in Stage BY <1>0 DEF IInv, TypeOK
  <2>4. Reads(w)' BY <1>1, <2>1, <2>2, <2>3 DEF Reads, build, Stage, Final
  <2> QED BY <1>0, <1>2, <2>1, <2>4 DEF Follows, Listening, Told
<1>4. CASE ReadResult(w)
  <2>1. /\ place'[w] = "read" /\ UNCHANGED <<build, watched, queue, sawStatus, overtaken>>
        /\ sawResult'[w] = result[watched[w]]
    BY <1>4 DEF ReadResult, IInv, TypeOK
  <2>2. place[w] = "looked" BY <1>4 DEF ReadResult
  <2>3. Reads(w)'
    BY <1>0, <1>1, <2>1, <2>2, NoneAssumption DEF Follows, Reads, build, Final
  <2> QED BY <1>0, <1>2, <2>1, <2>3 DEF Follows, Listening, Told
<1> QED BY <1>3, <1>4

\* A stream that ends has nothing left to follow.
LEMMA EndFollows ==
    ASSUME IInv, NEW w \in Watcher, place[w] # "idle", NEW e, End(w, e),
           UNCHANGED <<build, watched>>,
           \/ e \in Final /\ ends[watched[w]] = e
           \/ e = "left"
           \/ e = None /\ overtaken'[w] = "yes"
    PROVE  Follows(w)' /\ Told(w)'
<1>1. /\ place'[w] = "closed" /\ told'[w] = e /\ queue'[w] = <<>>
      /\ watched' = watched /\ ends' = ends
  BY DEF End, IInv, TypeOK, build
<1>2. watched[w] \in Build BY DEF IInv, StreamsFollow, Follows
<1> QED BY <1>1, <1>2 DEF Follows, Reads, Listening, Told

LEMMA SubscribeFollows ==
    ASSUME IInv, NEW w \in Watcher, Subscribe(w)
    PROVE  Follows(w)' /\ Told(w)'
<1>0. Follows(w) /\ watched[w] \in Build /\ place[w] = "read"
  BY DEF IInv, StreamsFollow, Follows, Subscribe
<1>1. /\ UNCHANGED <<build, watched>>
      /\ overtaken[w] = "yes" => overtaken'[w] = "yes"
      /\ overtaken[w] = "maybe" =>
           overtaken'[w] = IF stage[watched[w]] = "over" THEN "yes" ELSE "no"
  BY DEF Subscribe, IInv, TypeOK
<1>2. CASE sawStatus[w] = "building"
  <2>1. place'[w] = "streaming" /\ queue' = queue BY <1>2 DEF Subscribe, IInv, TypeOK
  <2>2. queue[w] = <<>> BY <1>0 DEF Follows, Listening
  <2>3. overtaken[w] = "maybe" BY <1>0, <1>2 DEF Follows, Reads
  <2> QED BY <1>0, <1>1, <2>1, <2>2, <2>3 DEF Follows, Reads, Listening, Told, build
<1>3. CASE sawStatus[w] # "building"
  <2> DEFINE e == IF sawResult[w] = None THEN None ELSE sawStatus[w]
  <2>1. End(w, e) BY <1>3 DEF Subscribe
  <2>2. sawStatus[w] \in Final /\ sawStatus[w] = ends[watched[w]]
    BY <1>0, <1>3 DEF Follows, Reads, IInv, TypeOK
  <2>3. overtaken[w] = "yes" \/ sawResult[w] # None BY <1>0, <1>3 DEF Follows, Reads
  <2>4. (e \in Final /\ ends[watched[w]] = e) \/ (e = None /\ overtaken'[w] = "yes")
    BY <1>1, <2>2, <2>3
  <2> HIDE DEF e
  <2> QED BY <1>0, <1>1, <2>1, <2>4, EndFollows
<1> QED BY <1>2, <1>3

LEMMA ReceiveFollows ==
    ASSUME IInv, NEW w \in Watcher, Receive(w)
    PROVE  Follows(w)' /\ Told(w)'
<1>0. /\ Follows(w) /\ watched[w] \in Build /\ place[w] = "streaming" /\ queue[w] # <<>>
      /\ UNCHANGED <<build, watched, overtaken>> /\ queue[w] \in Seq(Event)
  BY DEF IInv, TypeOK, StreamsFollow, Follows, Receive, Event
<1>1. Head(queue[w]) \in {"log", ends[watched[w]]}
  <2>1. 1 \in 1..Len(queue[w]) /\ Head(queue[w]) = queue[w][1] BY <1>0
  <2> QED BY <1>0, <2>1 DEF Follows, Listening
<1>2. CASE Head(queue[w]) \in Final
  <2>1. ends[watched[w]] = Head(queue[w]) BY <1>1, <1>2 DEF Final
  <2>2. End(w, Head(queue[w])) BY <1>2 DEF Receive
  <2> QED BY <1>0, <1>2, <2>1, <2>2, EndFollows
<1>3. CASE Head(queue[w]) \notin Final
  <2>1. place'[w] = "streaming" /\ queue'[w] = Tail(queue[w])
    BY <1>0, <1>3 DEF Receive, IInv, TypeOK
  <2>2. /\ Tail(queue[w]) \in Seq(Event) /\ Len(Tail(queue[w])) = Len(queue[w]) - 1
        /\ \A i \in 1..(Len(queue[w]) - 1) :
              i + 1 \in 1..Len(queue[w]) /\ Tail(queue[w])[i] = queue[w][i + 1]
    BY <1>0
  <2>3. \A i \in 1..Len(Tail(queue[w])) : Tail(queue[w])[i] \in {"log", ends[watched[w]]}
    BY <1>0, <2>2 DEF Follows, Listening
  <2>4. ASSUME overtaken[w] = "no", stage[watched[w]] = "over"
        PROVE  /\ Tail(queue[w]) # <<>>
               /\ Tail(queue[w])[Len(Tail(queue[w]))] = ends[watched[w]]
    <3>1. queue[w][Len(queue[w])] = ends[watched[w]] BY <1>0, <2>4 DEF Follows, Listening
    <3>2. ends[watched[w]] \in Final BY <1>0, <2>4 DEF IInv, StreamsFollow, Recorded
    <3>3. Len(queue[w]) # 1 BY <1>0, <1>3, <3>1, <3>2
    <3> QED BY <1>0, <3>1, <3>3, TailLast
  <2>5. Listening(w)' BY <1>0, <2>1, <2>3, <2>4 DEF Follows, Listening, build
  <2> QED BY <1>0, <2>1, <2>5 DEF Follows, Reads, Told
<1> QED BY <1>2, <1>3

LEMMA ClosedFollows ==
    ASSUME IInv, NEW w \in Watcher, Closed(w) \/ Leave(w)
    PROVE  Follows(w)' /\ Told(w)'
<1>1. CASE Closed(w)
  <2>1. overtaken[w] = "yes" BY <1>1 DEF Closed, IInv, StreamsFollow, Follows, Listening
  <2> QED BY <1>1, <2>1, EndFollows DEF Closed
<1>2. CASE Leave(w) BY <1>2, EndFollows DEF Leave
<1> QED BY <1>1, <1>2

-----------------------------------------------------------------------------

LEMMA IInvInit == Init => IInv
<1> SUFFICES ASSUME Init PROVE IInv OBVIOUS
<1>1. TypeOK
  <2>1. <<>> \in Seq({"log"} \cup Final) /\ Len(<<>>) <= Capacity BY CapacityAssumption
  <2>2. 0 \in 0..MaxLines BY LinesAssumption
  <2> QED BY <2>1, <2>2 DEF Init, TypeOK, Stage, Place
<1>2. StreamsFollow BY DEF Init, StreamsFollow, Recorded, Follows, Reads, Listening
<1>3. ToldUnlessOvertaken BY DEF Init, ToldUnlessOvertaken
<1> QED BY <1>1, <1>2, <1>3 DEF IInv

LEMMA IInvNext == IInv /\ [Next]_vars => IInv'
<1> SUFFICES ASSUME IInv, [Next]_vars PROVE IInv' OBVIOUS
<1>1. ASSUME NEW b \in Build,
             Open(b) \/ Acquire(b) \/ PushLog(b) \/ BuildStep(b) \/ Expire(b) \/ Sweep(b)
      PROVE  IInv'
  <2>1. TypeOK' BY <1>1, BuildTypes DEF IInv, StreamsFollow
  <2>2. Recorded' BY <1>1, RecordedKept DEF IInv, StreamsFollow
  <2>3. (\A w \in Watcher : Follows(w)') /\ ToldUnlessOvertaken'
    <3>1. CASE PushLog(b) \/ Notify(b) BY <3>1, SendKeeps
    <3>2. CASE ~(PushLog(b) \/ Notify(b)) BY <1>1, <3>2, SilentKeeps DEF BuildStep
    <3> QED BY <3>1, <3>2
  <2> QED BY <2>1, <2>2, <2>3 DEF IInv, StreamsFollow
<1>2. ASSUME NEW w \in Watcher, (\E b \in Build : Find(w, b)) \/ StreamStep(w) \/ Leave(w)
      PROVE  IInv'
  <2>1. TypeOK' BY <1>2, StreamTypes DEF IInv, StreamsFollow
  <2>2. /\ UNCHANGED build
        /\ \A u \in Watcher \ {w} :
              /\ place'[u] = place[u] /\ watched'[u] = watched[u]
              /\ sawStatus'[u] = sawStatus[u] /\ sawResult'[u] = sawResult[u]
              /\ queue'[u] = queue[u] /\ told'[u] = told[u]
              /\ overtaken'[u] = overtaken[u]
    BY <1>2, StreamFrame DEF IInv
  <2>3. Recorded' BY <2>2 DEF IInv, StreamsFollow, Recorded, build
  <2>4. Follows(w)' /\ Told(w)'
    BY <1>2, FindFollows, ReadsFollow, SubscribeFollows, ReceiveFollows, ClosedFollows
       DEF StreamStep
  <2>5. ASSUME NEW u \in Watcher, u # w PROVE Follows(u)' /\ Told(u)'
    <3>1. Follows(u) /\ Told(u) BY DEF IInv, StreamsFollow, ToldUnlessOvertaken, Told
    <3> QED BY <2>2, <2>5, <3>1 DEF Follows, Reads, Listening, Told, build
  <2>6. ToldUnlessOvertaken' BY <2>4, <2>5 DEF ToldUnlessOvertaken, Told
  <2> QED BY <2>1, <2>3, <2>4, <2>5, <2>6 DEF IInv, StreamsFollow
<1>3. CASE UNCHANGED vars
  BY <1>3 DEF vars, build, stream, IInv, TypeOK, StreamsFollow, Recorded, Follows, Reads,
              Listening, ToldUnlessOvertaken
<1> QED BY <1>1, <1>2, <1>3 DEF Next

(* Whatever the number of builds and of streams and the capacity of the     *)
(* channel: a stream tells how the build really ended, and is silent only   *)
(* when the end came between its reads and its subscription.                *)
THEOREM ToldCorrect == Spec => []ToldUnlessOvertaken
<1>1. IInv => ToldUnlessOvertaken BY DEF IInv
<1> QED BY <1>1, IInvInit, IInvNext, PTL DEF Spec


-----------------------------------------------------------------------------
(* The cache of content: what has been used lately is kept.                *)

\* Every entry was used, and an entry that was used after another was used
\* since that one was.
CacheInv ==
    /\ IsFiniteSet(DOMAIN since) /\ DOMAIN entries \subseteq DOMAIN since
    /\ \A k \in DOMAIN since : since[k] \subseteq DOMAIN since
    /\ DOMAIN used = DOMAIN entries
    /\ \A k \in DOMAIN entries : used[k] \subseteq since[k]
    /\ RecentlyUsedKept

LEMMA CacheStarts == CInit => CacheInv
<1> SUFFICES ASSUME CInit PROVE CacheInv
  OBVIOUS
<1>1. entries = <<>> /\ used = <<>> /\ since = <<>> /\ DOMAIN <<>> = {}
  BY DEF CInit
<1> QED  BY <1>1, FS_EmptySet DEF CacheInv, RecentlyUsedKept

\* A use of key k: it is the last one, and each other key has been used since
\* fewer others than before at the least.
LEMMA UseKeeps ==
  ASSUME CacheInv, NEW k, NEW kept, kept \subseteq DOMAIN entries,
         since' = Newest(since, k), DOMAIN entries' = kept \cup {k},
         DOMAIN used' = kept \cup {k}, used'[k] = {},
         \A x \in kept \ {k} : used'[x] \subseteq used[x] \cup {k},
         \A x \in DOMAIN entries \ kept :
             x = k \/ x \in stale' \/ ~(Cardinality(since[x]) < MaxEntries - 1),
         stale \ {k} \subseteq stale'
  PROVE  CacheInv'
<1>1. /\ DOMAIN since' = DOMAIN since \cup {k} /\ since'[k] = {}
      /\ \A x \in DOMAIN since \ {k} : since'[x] = since[x] \cup {k}
  BY DEF Newest
<1>2. IsFiniteSet(DOMAIN since') /\ DOMAIN entries' \subseteq DOMAIN since'
  BY <1>1, FS_AddElement DEF CacheInv
<1>3. ASSUME NEW x \in DOMAIN since' PROVE since'[x] \subseteq DOMAIN since'
  BY <1>1, <1>3 DEF CacheInv
<1>4. DOMAIN used' = DOMAIN entries'
  OBVIOUS
<1>5. ASSUME NEW x \in DOMAIN entries' PROVE used'[x] \subseteq since'[x]
  <2>1. CASE x = k
    BY <2>1
  <2>2. CASE x # k
    <3>1. x \in kept \ {k} /\ used'[x] \subseteq used[x] \cup {k}
      BY <1>5, <2>2
    <3>2. used[x] \subseteq since[x] /\ since'[x] = since[x] \cup {k}
      BY <1>1, <2>2, <3>1 DEF CacheInv
    <3> QED  BY <3>1, <3>2
  <2> QED  BY <2>1, <2>2
<1>6. ASSUME NEW x \in DOMAIN since' \ stale', Cardinality(since'[x]) < MaxEntries - 1
      PROVE  x \in DOMAIN entries'
  <2>1. CASE x = k
    BY <2>1
  <2>2. CASE x # k
    <3>1. x \in DOMAIN since \ stale /\ since[x] \subseteq since'[x]
      BY <1>1, <1>6, <2>2
    <3>2. IsFiniteSet(since[x]) /\ IsFiniteSet(since'[x])
      BY <1>2, <1>3, <1>6, <3>1, FS_Subset DEF CacheInv
    <3>3. Cardinality(since[x]) <= Cardinality(since'[x])
      BY <3>1, <3>2, FS_Subset
    <3>4. Cardinality(since[x]) \in Nat /\ Cardinality(since'[x]) \in Nat
      BY <3>2, FS_CardinalityType
    <3>5. Cardinality(since[x]) < MaxEntries - 1
      BY <1>6, <3>3, <3>4, EntriesAssumption
    <3>6. x \in DOMAIN entries
      BY <3>1, <3>5 DEF CacheInv, RecentlyUsedKept
    <3> QED  BY <1>6, <2>2, <3>5, <3>6
  <2> QED  BY <2>1, <2>2
<1> QED  BY <1>2, <1>3, <1>4, <1>5, <1>6 DEF CacheInv, RecentlyUsedKept

LEMMA TouchKeeps ==
  ASSUME CacheInv, NEW k \in DOMAIN entries, Touch(k), since' = Newest(since, k),
         UNCHANGED <<entries, stale>>
  PROVE  CacheInv'
<1>1. /\ DOMAIN used' = DOMAIN entries \cup {k} /\ used'[k] = {}
      /\ \A x \in DOMAIN entries \ {k} : used'[x] \subseteq used[x] \cup {k}
  BY DEF Touch, Newest, CacheInv
<1>2. DOMAIN entries' = DOMAIN entries \cup {k}
  OBVIOUS
<1> QED  BY <1>1, <1>2, UseKeeps

\* The entry that is evicted is one that all others were used after, and the
\* cache is full of them.
LEMMA SetKeeps ==
  ASSUME CacheInv, NEW k, NEW body, Set(k, body)
  PROVE  CacheInv'
<1> DEFINE fresh == IF Cardinality(DOMAIN entries) >= MaxEntries
                      THEN DOMAIN entries \ stale ELSE DOMAIN entries
           kept  == IF Cardinality(fresh) >= MaxEntries
                      THEN { x \in fresh : ~(fresh \ {x} \subseteq used[x]) }
                      ELSE fresh
<1>1. /\ entries' = [x \in kept \cup {k} |-> IF x = k THEN body ELSE entries[x]]
      /\ stale' = stale \ {k} /\ since' = Newest(since, k)
      /\ used' = Newest([x \in kept |-> used[x] \cap kept], k)
  BY DEF Set
<1>2. fresh \subseteq DOMAIN entries /\ DOMAIN entries \ stale \subseteq fresh
      /\ kept \subseteq fresh
  OBVIOUS
<1>3. /\ DOMAIN used' = kept \cup {k} /\ used'[k] = {}
      /\ \A x \in kept \ {k} : used'[x] \subseteq used[x] \cup {k}
  <2> HIDE DEF kept
  <2> QED  BY <1>1 DEF Newest
<1>4. ASSUME NEW x \in DOMAIN entries \ kept, x # k, x \notin stale'
      PROVE  ~(Cardinality(since[x]) < MaxEntries - 1)
  <2>1. x \in fresh /\ Cardinality(fresh) >= MaxEntries /\ fresh \ {x} \subseteq used[x]
    BY <1>1, <1>2, <1>4
  <2> HIDE DEF fresh, kept
  <2>2. fresh \ {x} \subseteq since[x] /\ IsFiniteSet(since[x])
    BY <1>2, <2>1, FS_Subset DEF CacheInv
  <2>3. IsFiniteSet(fresh)
    BY <1>2, FS_Subset DEF CacheInv
  <2>4. Cardinality(fresh \ {x}) = Cardinality(fresh) - 1 /\ Cardinality(fresh) \in Nat
    BY <2>1, <2>3, FS_RemoveElement, FS_CardinalityType
  <2>5. Cardinality(fresh \ {x}) <= Cardinality(since[x]) /\ Cardinality(since[x]) \in Nat
    BY <2>2, FS_Subset, FS_CardinalityType
  <2> QED  BY <2>1, <2>4, <2>5, EntriesAssumption
<1>5. kept \subseteq DOMAIN entries /\ DOMAIN entries' = kept \cup {k}
  <2> HIDE DEF kept
  <2> QED  BY <1>1, <1>2
<1>6. \A x \in DOMAIN entries \ kept :
         x = k \/ x \in stale' \/ ~(Cardinality(since[x]) < MaxEntries - 1)
  BY <1>4
<1>7. since' = Newest(since, k) /\ stale \ {k} \subseteq stale'
  BY <1>1
<1> HIDE DEF kept
<1> QED  BY <1>3, <1>5, <1>6, <1>7, UseKeeps

LEMMA CacheKeeps == CacheInv /\ [CNext]_cvars => CacheInv'
<1> SUFFICES ASSUME CacheInv, [CNext]_cvars PROVE CacheInv'
  OBVIOUS
<1>1. ASSUME UNCHANGED cache PROVE CacheInv'
  BY <1>1 DEF CacheInv, RecentlyUsedKept, cache
<1>2. ASSUME NEW q \in Request, Lookup(q) PROVE CacheInv'
  <2>1. PICK k : k = req[q].key
    OBVIOUS
  <2>2. CASE k \in DOMAIN entries \ stale
    BY <1>2, <2>1, <2>2, TouchKeeps DEF Lookup
  <2>3. CASE k \notin DOMAIN entries \ stale
    BY <1>1, <1>2, <2>1, <2>3 DEF Lookup
  <2> QED  BY <2>2, <2>3
<1>3. ASSUME NEW q \in Request, NEW body, Serve(q, body) PROVE CacheInv'
  <2>1. PICK k : k = req[q].key
    OBVIOUS
  <2> QED  BY <1>3, <2>1, SetKeeps DEF Serve
<1>4. ASSUME NEW q \in Request, Serving(q) PROVE CacheInv'
  <2>1. CASE Resolve(q)
    BY <1>1, <2>1 DEF Resolve
  <2>2. CASE AskPeers(q)
    BY <1>1, <1>3, <2>2 DEF AskPeers, cache
  <2>3. CASE AskNodes(q)
    BY <1>1, <1>3, <2>3 DEF AskNodes, NodeAnswers, cache
  <2>4. CASE AskBreaker(q)
    BY <1>1, <2>4 DEF AskBreaker
  <2>5. CASE Cat(q)
    BY <1>3, <2>5 DEF Cat
  <2>6. CASE CatFails(q)
    BY <1>1, <2>6 DEF CatFails
  <2> QED  BY <1>2, <1>4, <2>1, <2>2, <2>3, <2>4, <2>5, <2>6 DEF Serving
<1>5. ASSUME NEW q \in Request, Start(q) PROVE CacheInv'
  BY <1>1, <1>5 DEF Start
<1>6. ASSUME NEW k \in DOMAIN entries, PeerGets(k) PROVE CacheInv'
  BY <1>6, TouchKeeps DEF PeerGets
<1>7. CASE Age
  BY <1>7 DEF Age, CacheInv, RecentlyUsedKept
<1>8. CASE UNCHANGED cvars
  BY <1>1, <1>8 DEF cvars
<1> QED  BY <1>4, <1>5, <1>6, <1>7, <1>8 DEF CNext

(* An entry within its time to live is not evicted before MaxEntries - 1   *)
(* other keys were used (ContentCache::set_with_ttl), however many         *)
(* requests there are, whatever they ask for, and whichever entries expire.*)
THEOREM UsedIsKept == CSpec => []RecentlyUsedKept
<1>1. CacheInv => RecentlyUsedKept
  BY DEF CacheInv
<1> QED  BY <1>1, CacheStarts, CacheKeeps, PTL DEF CSpec
=============================================================================
