-------------------------- MODULE NodeNetworkProofs --------------------------
(***************************************************************************)
(* Proofs about a node and the network.                                    *)
(*                                                                         *)
(* PeerRequests: its type invariant, and that nobody waits for an answer   *)
(* that nothing will bring, for every number of requests and contents and  *)
(* every capacity of the channel.                                          *)
(*                                                                         *)
(* Mesh: that a node which lists a content has its fragment, whatever the  *)
(* network loses and whoever stops, unless a deletion raced with a store.  *)
(***************************************************************************)
EXTENDS PeerRequests, Mesh, TLAPS

(* A request that is put into the channel is in it, and so is every other   *)
(* that was.                                                                *)
LEMMA SendKeeps ==
    ASSUME NEW x \in Request, commands \in Seq(Request),
           commands' = Append(commands, x)
    PROVE  /\ commands' \in Seq(Request)
           /\ Len(commands') = Len(commands) + 1
           /\ InChannel(x)'
           /\ \A r \in Request : InChannel(r) => InChannel(r)'
<1>1. commands' \in Seq(Request) /\ Len(commands') = Len(commands) + 1
  OBVIOUS
<1>2. commands'[Len(commands')] = x /\ Len(commands') \in DOMAIN commands'
  BY <1>1
<1>3. \A i \in DOMAIN commands : i \in DOMAIN commands' /\ commands'[i] = commands[i]
  BY <1>1
<1> QED
  BY <1>1, <1>2, <1>3 DEF InChannel

(* Receiving takes only the first request out of the channel.               *)
LEMMA ReceiveKeeps ==
    ASSUME commands \in Seq(Request), commands # <<>>,
           commands' = Tail(commands)
    PROVE  /\ Head(commands) \in Request
           /\ commands' \in Seq(Request)
           /\ Len(commands') = Len(commands) - 1
           /\ \A r \in Request \ {Head(commands)} : InChannel(r) => InChannel(r)'
<1>1. Head(commands) \in Request /\ commands' \in Seq(Request)
      /\ Len(commands') = Len(commands) - 1
  OBVIOUS
<1>2. ASSUME NEW r \in Request \ {Head(commands)},
             NEW i \in DOMAIN commands, commands[i] = r
      PROVE  i - 1 \in DOMAIN commands' /\ commands'[i - 1] = r
  <2>1. i # 1
    BY <1>2
  <2>2. i \in 2..Len(commands)
    BY <2>1
  <2> QED
    BY <2>2, <1>1, <1>2
<1> QED
  BY <1>1, <1>2 DEF InChannel

(* Tell gives an answer to those who wait among S, and to nobody else.      *)
LEMMA TellEffect ==
    ASSUME TypeOK, NEW S, NEW a \in Answers
    PROVE  /\ Tell(S, a) \in [Request -> {"idle", "left"} \cup Waits \cup Answers]
           /\ \A r \in Request :
                /\ Tell(S, a)[r] = "sent" => phase[r] = "sent"
                /\ Tell(S, a)[r] = "waiting" => phase[r] = "waiting" /\ r \notin S
  BY DEF Tell, TypeOK, Answers, Waits

-----------------------------------------------------------------------------

Inv == TypeOK /\ Tracked

LEMMA InitInv == Init => Inv
  BY NoneAssumption, CidAssumption, ChannelAssumption
  DEF Init, Inv, TypeOK, Tracked, Awaited, Waiting, Kinds, Waits, Answers, Message

(* The steps of the callers.                                                *)
LEMMA CallerSteps ==
    ASSUME Inv, NEW r \in Request,
           \/ \E k \in Kinds, c \in Cid : Ask(r, k, c)
           \/ AskTooLate(r)
           \/ Leave(r)
    PROVE  Inv'
<1>1. ASSUME NEW k \in Kinds, NEW c \in Cid, Ask(r, k, c) PROVE Inv'
  <2>1. /\ commands' \in Seq(Request) /\ Len(commands') <= ChannelCap
        /\ InChannel(r)' /\ \A q \in Request : InChannel(q) => InChannel(q)'
    BY <1>1, SendKeeps, ChannelAssumption DEF Ask, Inv, TypeOK
  <2>2. TypeOK'
    BY <1>1, <2>1 DEF Ask, Inv, TypeOK, Waits, Kinds, loop, network
  <2>3. Tracked'
    BY <1>1, <2>1 DEF Ask, Inv, TypeOK, Tracked, Awaited, Waiting, Waits, Kinds,
                      loop, network
  <2> QED  BY <2>2, <2>3 DEF Inv
<1>2. ASSUME AskTooLate(r) PROVE Inv'
  BY <1>2 DEF AskTooLate, Inv, TypeOK, Tracked, Awaited, Waiting, Waits, Answers,
              InChannel, callers, loop, network
<1>3. ASSUME Leave(r) PROVE Inv'
  BY <1>3 DEF Leave, Inv, TypeOK, Tracked, Awaited, Waiting, Waits,
              InChannel, callers, loop, network
<1> QED  BY <1>1, <1>2, <1>3

(* What every command handler leaves to the requests it does not handle.    *)
LEMMA ReceiveEffect ==
    ASSUME Inv, NEW r, NEW k, Receive(r, k)
    PROVE  /\ r \in Request /\ kind[r] = k /\ running
           /\ commands' \in Seq(Request) /\ Len(commands') <= ChannelCap
           /\ \A q \in Request \ {r} : InChannel(q) => InChannel(q)'
           /\ UNCHANGED <<kind, cid, running>>
  BY ReceiveKeeps, ChannelAssumption DEF Receive, Inv, TypeOK, callers

LEMMA NowWaitingEffect ==
    ASSUME TypeOK, NEW r \in Request, NEW S, NEW a \in Answers,
           NowWaiting(r, S, a)
    PROVE  /\ phase' \in [Request -> {"idle", "left"} \cup Waits \cup Answers]
           /\ phase'[r] # "sent"
           /\ phase'[r] = "waiting" => phase[r] \in Waits
           /\ \A q \in Request \ {r} :
                /\ phase'[q] = "sent" => phase[q] = "sent"
                /\ phase'[q] = "waiting" => phase[q] = "waiting" /\ q \notin S
  BY DEF NowWaiting, Tell, TypeOK, Answers, Waits

LEMMA HandlerSteps ==
    ASSUME Inv, NEW r \in Request, Handle(r)
    PROVE  Inv'
<1>1. CASE HandleFetch(r)
  <2>1. Receive(r, "fetch") /\ NowWaiting(r, {}, "ok")
    BY <1>1 DEF HandleFetch
  <2> QED
    BY <1>1, <2>1, ReceiveEffect, NowWaitingEffect
    DEF HandleFetch, Inv, TypeOK, Tracked, Awaited, Waiting, Waits, Answers, Message
<1>2. CASE HandleFind(r)
  <2>1. Receive(r, "find") /\ NowWaiting(r, {dht[cid[r]]}, "closed")
    BY <1>2 DEF HandleFind
  <2>2. TypeOK'
    BY <1>2, <2>1, ReceiveEffect, NowWaitingEffect
    DEF HandleFind, Inv, TypeOK, Waits, Answers
  <2>3. ASSUME NEW q \in Request PROVE Awaited(q)'
    <3>1. CASE q = r
      BY <1>2, <2>1, <3>1, ReceiveEffect, NowWaitingEffect
      DEF HandleFind, Inv, TypeOK, Tracked, Awaited, Waiting, Waits, Answers
    <3>2. CASE q # r
      BY <1>2, <2>1, <3>2, ReceiveEffect, NowWaitingEffect
      DEF HandleFind, Inv, TypeOK, Tracked, Awaited, Waiting, Waits, Answers
    <3> QED  BY <3>1, <3>2
  <2> QED  BY <2>2, <2>3 DEF Inv, Tracked
<1>3. CASE HandleBuild(r)
  <2>1. Receive(r, "build") /\ NowWaiting(r, {}, "ok")
    BY <1>3 DEF HandleBuild
  <2> QED
    BY <1>3, <2>1, ReceiveEffect, NowWaitingEffect
    DEF HandleBuild, Inv, TypeOK, Tracked, Awaited, Waiting, Waits, Answers, Message
<1>4. CASE RefuseBuild(r)
  <2>1. Receive(r, "build")
    BY <1>4 DEF RefuseBuild
  <2> QED
    BY <1>4, <2>1, ReceiveEffect
    DEF RefuseBuild, Inv, TypeOK, Tracked, Awaited, Waiting, Waits, Answers, network
<1> QED  BY <1>1, <1>2, <1>3, <1>4 DEF Handle

(* What the network settles.                                                *)
LEMMA SettledSteps ==
    ASSUME Inv, NEW r \in Request, Settled(r)
    PROVE  Inv'
<1> USE DEF Inv, TypeOK, Tracked, Awaited, Waiting, Waits, Answers, Message,
            InChannel, callers
<1>1. CASE FetchResponse(r)
  <2>1. PICK a \in Answers : phase' = Tell({r}, a)
    BY <1>1 DEF FetchResponse
  <2> QED  BY <1>1, <2>1, TellEffect DEF FetchResponse, Settle
<1>2. CASE FetchFailure(r)
  BY <1>2, TellEffect DEF FetchFailure, Settle
<1>3. CASE Created(r)
  <2>1. <<r, "extend">> \in Message
    OBVIOUS
  <2>2. TypeOK'
    BY <1>3, <2>1 DEF Created, Settle
  <2>3. ASSUME NEW q \in Request PROVE Awaited(q)'
    <3>1. q # r => <<q, "first">> # <<r, "first">>
      OBVIOUS
    <3>2. q \in pending' => <<q, "first">> \in wire'
      BY <1>3, <3>1 DEF Created, Settle
    <3>3. UNCHANGED <<phase, kind, cid, commands, dht, lookups, found, builds, running>>
      BY <1>3 DEF Created, Settle
    <3> QED  BY <1>3, <3>2, <3>3 DEF Created, Settle
  <2> QED  BY <2>2, <2>3
<1>4. CASE InvalidCell(r)
  BY <1>4, TellEffect DEF InvalidCell, Settle
<1>5. CASE RelayFailure(r)
  BY <1>5 DEF RelayFailure, Settle
<1>6. ASSUME NEW n \in {"first", "extend"}, Ignore(<<r, n>>) PROVE Inv'
  BY <1>6 DEF Ignore, loop
<1> QED  BY <1>1, <1>2, <1>3, <1>4, <1>5, <1>6 DEF Settled

(* What a query reports, with records that parse and name their own content. *)
LEMMA QuerySteps ==
    ASSUME Inv, ~ForeignRecords, NEW r \in Request, QueryFound(r) \/ QueryEnd(r)
    PROVE  Inv'
<1> USE DEF Inv, TypeOK, Tracked, Awaited, Waiting, Waits, Answers,
            InChannel, callers
<1>1. CASE QueryFound(r)
  <2>1. /\ phase' = Tell({dht[cid[r]]}, "ok")
        /\ dht' = [dht EXCEPT ![cid[r]] = None]
    BY <1>1, NoneAssumption DEF QueryFound, Names
  <2>2. TypeOK'
    BY <1>1, <2>1, TellEffect DEF QueryFound
  <2>3. ASSUME NEW q \in Request PROVE Awaited(q)'
    BY <1>1, <2>1, TellEffect DEF QueryFound
  <2> QED  BY <2>2, <2>3
<1>2. CASE QueryFinished(r)
  BY <1>2 DEF QueryFinished, loop
<1>3. CASE QueryError(r)
  BY <1>3, TellEffect DEF QueryError
<1> QED  BY <1>1, <1>2, <1>3 DEF QueryEnd

(* Only those who have left are forgotten, until the loop ends.             *)
LEMMA LoopSteps ==
    ASSUME Inv, Cleanup \/ Shutdown
    PROVE  Inv'
<1>1. CASE Cleanup
  BY <1>1 DEF Cleanup, Closed, Inv, TypeOK, Tracked, Awaited, Waiting, Waits,
              InChannel, callers, network
<1>2. CASE Shutdown
  <2>1. commands' \in Seq(Request) /\ Len(commands') <= ChannelCap
    <3>1. commands' \in Seq(Request) /\ Len(commands') = 0
      BY <1>2 DEF Shutdown
    <3> QED  BY <3>1, ChannelAssumption
  <2>2. phase' \in [Request -> {"idle", "left"} \cup Waits \cup Answers]
        /\ dht' \in [Cid -> Request \cup {None}]
    BY <1>2 DEF Shutdown, Inv, TypeOK, Answers
  <2>5. TypeOK'
    BY <1>2, <2>1, <2>2 DEF Shutdown, Inv, TypeOK, callers
  <2>3. \A r \in Request : phase'[r] \notin Waits
    BY <1>2 DEF Shutdown, Waits
  <2>4. Tracked'
    BY <1>2, <2>3 DEF Shutdown, Tracked, Awaited, Waiting, Waits
  <2> QED  BY <2>4, <2>5 DEF Inv
<1> QED  BY <1>1, <1>2

(* With DHT records that parse and name their own content, whoever waits is *)
(* where the answer is looked up, and the network still owes that answer.   *)
THEOREM NobodyIsLost ==
    ASSUME ~ForeignRecords
    PROVE  Spec => [](TypeOK /\ Tracked)
<1>1. Inv /\ [Next]_vars => Inv'
  <2> SUFFICES ASSUME Inv, [Next]_vars PROVE Inv'
    OBVIOUS
  <2>1. ASSUME NEW r \in Request,
               \/ \E k \in Kinds, c \in Cid : Ask(r, k, c)
               \/ AskTooLate(r)
               \/ Leave(r)
        PROVE  Inv'
    BY <2>1, CallerSteps
  <2>2. ASSUME NEW r \in Request, Handle(r) PROVE Inv'
    BY <2>2, HandlerSteps
  <2>3. ASSUME NEW r \in Request, Settled(r) PROVE Inv'
    BY <2>3, SettledSteps
  <2>4. ASSUME NEW r \in Request, QueryFound(r) \/ QueryEnd(r) PROVE Inv'
    BY <2>4, QuerySteps
  <2>5. CASE Cleanup \/ Shutdown
    BY <2>5, LoopSteps
  <2>6. CASE UNCHANGED vars
    BY <2>6 DEF vars, callers, loop, network, Inv, TypeOK, Tracked, Awaited,
                Waiting, InChannel
  <2> QED  BY <2>1, <2>2, <2>3, <2>4, <2>5, <2>6 DEF Next
<1> QED  BY InitInv, <1>1, PTL DEF Spec, Inv

-----------------------------------------------------------------------------

(* The disks of several nodes.  Whoever is about to list a content has its  *)
(* fragment, or a deletion has removed it since.                            *)

Steps == {"idle", "list", "announce", "remove", "unlist", "manifest", "fragment", "listFetched"}
Stages == {"none", "providers", "manifest", "fragment", "pulled", "list", "pin", "announce", "failed"}
Ops == {"none", "upload", "delete", "fetch"}

RequestRecord == [op : Ops, cid : Content \cup {Nothing}, step : Steps,
                  from : Node \cup {Nothing}]

DiskTypeOK ==
    /\ files \in [Node -> SUBSET Content] /\ listed \in [Node -> SUBSET Content]
    /\ raced \in [Node -> SUBSET Content] /\ up \subseteq Node
    /\ request \in [Node -> RequestRecord]
    /\ \A n \in Node : request[n].step # "idle" => request[n].cid \in Content
    /\ pull \in [Node -> [Content -> Stages]]

\* The two halves of WholeUnlessRaced and what it needs, for one content.
WholeAt(n, c) ==
    /\ c \in listed[n] => \/ c \in files[n] \cup raced[n]
                          \/ request[n].step = "unlist" /\ request[n].cid = c
    /\ Storing(n, c) => c \in files[n] \cup raced[n]

MeshInv == DiskTypeOK /\ \A n \in Node, c \in Content : WholeAt(n, c)

LEMMA MeshStarts == MInit => MeshInv
<1> SUFFICES ASSUME MInit PROVE MeshInv
  OBVIOUS
<1>1. DiskTypeOK
  BY MeshAssumption DEF MInit, DiskTypeOK, RequestRecord, NoRequest, Ops, Steps, Stages
<1>2. \A n \in Node, c \in Content : WholeAt(n, c)
  BY MeshAssumption DEF MInit, WholeAt, Storing, NoRequest
<1> QED  BY <1>1, <1>2 DEF MeshInv

(* What may change about a content: whoever begins to store it has its      *)
(* fragment; who lists it was storing it; who loses the fragment unlists.   *)
LEMMA WholeKeeps ==
  ASSUME MeshInv, DiskTypeOK', NEW n \in Node, NEW c \in Content,
         c \in files[n] => c \in files'[n] \cup raced'[n],
         c \in raced[n] => c \in files'[n] \cup raced'[n],
         c \in listed'[n] => \/ Storing(n, c)
                             \/ c \in listed[n] /\ ~(request[n].step = "unlist" /\ request[n].cid = c)
                             \/ c \in files'[n] \cup raced'[n]
                             \/ request'[n].step = "unlist" /\ request'[n].cid = c,
         Storing(n, c)' => Storing(n, c) \/ c \in files'[n] \cup raced'[n]
  PROVE  WholeAt(n, c)'
<1>1. WholeAt(n, c)
  BY DEF MeshInv
<1> QED  BY <1>1 DEF WholeAt

(* The step of a request, or of the end of one.                             *)
LEMMA RequestFacts ==
  ASSUME DiskTypeOK, NEW n \in Node
  PROVE  /\ \A s \in Steps : Step(n, s) /\ (s # "idle" => request[n].cid \in Content) =>
               /\ request' \in [Node -> RequestRecord]
               /\ \A m \in Node : request'[m].step # "idle" => request'[m].cid \in Content
               /\ request'[n].step = s /\ request'[n].cid = request[n].cid
               /\ \A m \in Node \ {n} : request'[m] = request[m]
         /\ End(n) =>
               /\ request' \in [Node -> RequestRecord]
               /\ \A m \in Node : request'[m].step # "idle" => request'[m].cid \in Content
               /\ request'[n].step = "idle"
               /\ \A m \in Node \ {n} : request'[m] = request[m]
<1>1. ASSUME NEW s \in Steps, Step(n, s), s # "idle" => request[n].cid \in Content
      PROVE  /\ request' \in [Node -> RequestRecord]
             /\ \A m \in Node : request'[m].step # "idle" => request'[m].cid \in Content
             /\ request'[n].step = s /\ request'[n].cid = request[n].cid
             /\ \A m \in Node \ {n} : request'[m] = request[m]
  <2>1. [request[n] EXCEPT !.step = s] \in RequestRecord
        /\ [request[n] EXCEPT !.step = s].step = s
        /\ [request[n] EXCEPT !.step = s].cid = request[n].cid
    BY DEF DiskTypeOK, RequestRecord
  <2>2. request' = [request EXCEPT ![n] = [request[n] EXCEPT !.step = s]]
    BY <1>1 DEF Step, DiskTypeOK
  <2> QED  BY <1>1, <2>1, <2>2 DEF DiskTypeOK
<1>2. ASSUME End(n)
      PROVE  /\ request' \in [Node -> RequestRecord]
             /\ \A m \in Node : request'[m].step # "idle" => request'[m].cid \in Content
             /\ request'[n].step = "idle"
             /\ \A m \in Node \ {n} : request'[m] = request[m]
  <2>1. NoRequest \in RequestRecord /\ NoRequest.step = "idle"
    BY DEF NoRequest, RequestRecord, Ops, Steps
  <2> QED  BY <1>2, <2>1 DEF End, DiskTypeOK
<1> QED  BY <1>1, <1>2

LEMMA BeginFacts ==
  ASSUME DiskTypeOK, NEW n \in Node, NEW c \in Content, NEW what \in Ops, NEW s \in Steps,
         Begin(n, what, c, s)
  PROVE  /\ request' \in [Node -> RequestRecord]
         /\ \A m \in Node : request'[m].step # "idle" => request'[m].cid \in Content
         /\ request[n].step = "idle" /\ request'[n].step = s /\ request'[n].cid = c
         /\ \A m \in Node \ {n} : request'[m] = request[m]
<1> DEFINE new == [op |-> what, cid |-> c, step |-> s, from |-> Nothing]
<1>1. new \in RequestRecord /\ new.step = s /\ new.cid = c
  BY DEF RequestRecord
<1>2. request' = [request EXCEPT ![n] = new] /\ request[n] = NoRequest
  BY DEF Begin
<1>3. NoRequest.step = "idle"
  BY DEF NoRequest
<1> HIDE DEF new
<1> QED  BY <1>1, <1>2, <1>3 DEF DiskTypeOK

(* Steps that leave the disks and the pulls alone.                          *)
LEMMA QuietKeeps ==
  ASSUME MeshInv, UNCHANGED <<files, listed, raced, pull>>, up' \subseteq Node,
         request' \in [Node -> RequestRecord],
         \A m \in Node : request'[m].step # "idle" => request'[m].cid \in Content,
         \A m \in Node : \/ request'[m] = request[m]
                         \/ /\ request'[m].step \notin {"list", "listFetched"}
                            /\ request[m].step # "unlist"
  PROVE  MeshInv'
<1>1. DiskTypeOK'
  BY DEF MeshInv, DiskTypeOK
<1>2. ASSUME NEW n \in Node, NEW c \in Content PROVE WholeAt(n, c)'
  <2>1. Storing(n, c)' => Storing(n, c)
    BY DEF Storing
  <2>2. WholeAt(n, c)
    BY DEF MeshInv
  <2>3. request[n].step = "unlist" /\ request[n].cid = c =>
            request'[n].step = "unlist" /\ request'[n].cid = c
    OBVIOUS
  <2> QED  BY <2>1, <2>2, <2>3 DEF WholeAt
<1> QED  BY <1>1, <1>2 DEF MeshInv

(* What clients begin.                                                      *)
LEMMA ClientKeeps ==
  ASSUME MeshInv, NEW n \in Node, NEW c \in Content, Upload(n, c) \/ Delete(n, c) \/ Fetch(n, c)
  PROVE  MeshInv'
<1>1. DiskTypeOK
  BY DEF MeshInv
<1>2. CASE Delete(n, c) \/ Fetch(n, c)
  <2>1. PICK what \in {"delete", "fetch"}, s \in {"remove", "manifest"} : Begin(n, what, c, s)
    BY <1>2 DEF Delete, Fetch
  <2>2. UNCHANGED <<files, listed, raced, pull, up>>
    BY <1>2 DEF Delete, Fetch, disk, cycling
  <2>3. up' \subseteq Node
    BY <1>1, <2>2 DEF DiskTypeOK
  <2>4. what \in Ops /\ s \in Steps /\ s \notin {"list", "listFetched"}
    BY <2>1 DEF Ops, Steps
  <2>5. /\ request' \in [Node -> RequestRecord]
        /\ \A m \in Node : request'[m].step # "idle" => request'[m].cid \in Content
        /\ request[n].step = "idle" /\ request'[n].step = s
        /\ \A m \in Node \ {n} : request'[m] = request[m]
    BY <1>1, <2>1, <2>4, BeginFacts
  <2> QED  BY <2>2, <2>3, <2>4, <2>5, QuietKeeps
<1>3. CASE Upload(n, c)
  <2>1. /\ Begin(n, "upload", c, "list") /\ files' = [files EXCEPT ![n] = @ \cup {c}]
        /\ raced' = [raced EXCEPT ![n] = @ \ {c}] /\ UNCHANGED <<listed, pull, up>>
    BY <1>3 DEF Upload, cycling
  <2>2. /\ request' \in [Node -> RequestRecord]
        /\ \A m \in Node : request'[m].step # "idle" => request'[m].cid \in Content
        /\ request[n].step = "idle" /\ request'[n].step = "list" /\ request'[n].cid = c
        /\ \A m \in Node \ {n} : request'[m] = request[m]
    BY <1>1, <2>1, BeginFacts DEF Ops, Steps
  <2>3. DiskTypeOK' /\ files'[n] = files[n] \cup {c} /\ raced'[n] = raced[n] \ {c}
        /\ \A m \in Node \ {n} : files'[m] = files[m] /\ raced'[m] = raced[m]
    BY <1>1, <2>1, <2>2 DEF DiskTypeOK
  <2>4. ASSUME NEW m \in Node, NEW d \in Content PROVE WholeAt(m, d)'
    <3>1. CASE m # n
      <4>1. Storing(m, d)' => Storing(m, d)
        BY <2>1, <2>2, <3>1 DEF Storing
      <4>2. WholeAt(m, d)
        BY DEF MeshInv
      <4> QED  BY <2>1, <2>2, <2>3, <3>1, <4>1, <4>2 DEF WholeAt
    <3>2. CASE m = n
      <4>1. Storing(n, d)' => Storing(n, d) \/ d = c
        BY <2>1, <2>2 DEF Storing
      <4> QED  BY <2>1, <2>2, <2>3, <3>2, <4>1, WholeKeeps
    <3> QED  BY <3>1, <3>2
  <2> QED  BY <2>3, <2>4 DEF MeshInv
<1> QED  BY <1>2, <1>3

(* A step of the request of n that changes the disk of n, or nothing.       *)
LEMMA OneNodeKeeps ==
  ASSUME MeshInv, DiskTypeOK', NEW n \in Node,
         \A m \in Node \ {n} : /\ files'[m] = files[m] /\ listed'[m] = listed[m]
                               /\ raced'[m] = raced[m] /\ request'[m] = request[m]
                               /\ pull'[m] = pull[m],
         \A c \in Content : WholeAt(n, c)'
  PROVE  MeshInv'
<1>1. ASSUME NEW m \in Node, NEW c \in Content, m # n PROVE WholeAt(m, c)'
  <2>1. WholeAt(m, c)
    BY DEF MeshInv
  <2> QED  BY <1>1, <2>1 DEF WholeAt, Storing
<1> QED  BY <1>1 DEF MeshInv

(* An upload or fetch lists what it stored.                                 *)
LEMMA ListKeeps ==
  ASSUME MeshInv, NEW n \in Node, ListUpload(n) \/ ListFetched(n)
  PROVE  MeshInv'
<1>1. DiskTypeOK
  BY DEF MeshInv
<1>2. /\ request[n].step \in {"list", "listFetched"}
      /\ listed' = [listed EXCEPT ![n] = @ \cup {request[n].cid}]
      /\ Step(n, "announce") \/ End(n)
      /\ UNCHANGED <<files, raced, pull, up>>
  BY DEF ListUpload, ListFetched, cycling, life
<1>3. request[n].cid \in Content
  BY <1>1, <1>2 DEF DiskTypeOK
<1>4. /\ request' \in [Node -> RequestRecord]
      /\ \A m \in Node : request'[m].step # "idle" => request'[m].cid \in Content
      /\ request'[n].step \in {"announce", "idle"}
      /\ \A m \in Node \ {n} : request'[m] = request[m]
  BY <1>1, <1>2, <1>3, RequestFacts DEF Steps
<1>5. DiskTypeOK' /\ listed'[n] = listed[n] \cup {request[n].cid}
      /\ \A m \in Node \ {n} : listed'[m] = listed[m]
  BY <1>1, <1>2, <1>3, <1>4 DEF DiskTypeOK
<1>6. ASSUME NEW c \in Content PROVE WholeAt(n, c)'
  <2>1. WholeAt(n, c)
    BY DEF MeshInv
  <2>2. Storing(n, c)' => Storing(n, c)
    BY <1>2, <1>4 DEF Storing
  <2>3. c \in listed'[n] => c \in listed[n] \/ Storing(n, c)
    BY <1>2, <1>5 DEF Storing
  <2> QED  BY <1>2, <2>1, <2>2, <2>3 DEF WholeAt
<1> QED  BY <1>2, <1>4, <1>5, <1>6, OneNodeKeeps

(* A deletion removes the fragment, then the listing.                       *)
LEMMA RemovalKeeps ==
  ASSUME MeshInv, NEW n \in Node, RemoveFile(n) \/ Unlist(n)
  PROVE  MeshInv'
<1> DEFINE d == request[n].cid
<1>1. DiskTypeOK
  BY DEF MeshInv
<1>2. CASE RemoveFile(n)
  <2>1. /\ request[n].step = "remove" /\ files' = [files EXCEPT ![n] = @ \ {d}]
        /\ raced' = IF Storing(n, d) THEN [raced EXCEPT ![n] = @ \cup {d}] ELSE raced
        /\ Step(n, "unlist") /\ UNCHANGED <<listed, pull, up>>
    BY <1>2 DEF RemoveFile, cycling, life
  <2>2. d \in Content
    BY <1>1, <2>1 DEF DiskTypeOK
  <2>3. /\ request' \in [Node -> RequestRecord]
        /\ \A m \in Node : request'[m].step # "idle" => request'[m].cid \in Content
        /\ request'[n].step = "unlist" /\ request'[n].cid = d
        /\ \A m \in Node \ {n} : request'[m] = request[m]
    BY <1>1, <2>1, <2>2, RequestFacts DEF Steps
  <2>4. /\ raced' \in [Node -> SUBSET Content] /\ raced[n] \subseteq raced'[n]
        /\ Storing(n, d) => d \in raced'[n]
        /\ \A m \in Node \ {n} : raced'[m] = raced[m]
    BY <1>1, <2>1, <2>2 DEF DiskTypeOK
  <2>5. DiskTypeOK' /\ files'[n] = files[n] \ {d}
        /\ \A m \in Node \ {n} : files'[m] = files[m]
    BY <1>1, <2>1, <2>3, <2>4 DEF DiskTypeOK
  <2>6. ASSUME NEW c \in Content PROVE WholeAt(n, c)'
    <3>1. WholeAt(n, c)
      BY DEF MeshInv
    <3>2. Storing(n, c)' => Storing(n, c)
      BY <2>1, <2>3 DEF Storing
    <3>3. c # d => (c \in files[n] \cup raced[n] => c \in files'[n] \cup raced'[n])
      BY <2>4, <2>5
    <3>4. ~(request[n].step = "unlist")
      BY <2>1
    <3>5. CASE c = d
      BY <2>3, <2>4, <3>2, <3>5 DEF WholeAt
    <3>6. CASE c # d
      BY <2>1, <3>1, <3>2, <3>3, <3>4, <3>6 DEF WholeAt
    <3> QED  BY <3>5, <3>6
  <2> QED  BY <2>1, <2>3, <2>4, <2>5, <2>6, OneNodeKeeps
<1>3. CASE Unlist(n)
  <2>1. /\ request[n].step = "unlist" /\ listed' = [listed EXCEPT ![n] = @ \ {d}]
        /\ raced' = IF Storing(n, d) THEN raced ELSE [raced EXCEPT ![n] = @ \ {d}]
        /\ End(n) /\ UNCHANGED <<files, pull, up>>
    BY <1>3 DEF Unlist, cycling, life
  <2>2. /\ request' \in [Node -> RequestRecord]
        /\ \A m \in Node : request'[m].step # "idle" => request'[m].cid \in Content
        /\ request'[n].step = "idle"
        /\ \A m \in Node \ {n} : request'[m] = request[m]
    BY <1>1, <2>1, RequestFacts
  <2>3. /\ raced' \in [Node -> SUBSET Content]
        /\ \A c \in Content : c \in raced[n] /\ (c # d \/ Storing(n, d)) => c \in raced'[n]
        /\ \A m \in Node \ {n} : raced'[m] = raced[m]
    BY <1>1, <2>1 DEF DiskTypeOK
  <2>4. DiskTypeOK' /\ listed'[n] = listed[n] \ {d}
        /\ \A m \in Node \ {n} : listed'[m] = listed[m]
    BY <1>1, <2>1, <2>2, <2>3 DEF DiskTypeOK
  <2>5. ASSUME NEW c \in Content PROVE WholeAt(n, c)'
    <3>1. WholeAt(n, c)
      BY DEF MeshInv
    <3>2. Storing(n, c)' => Storing(n, c)
      BY <2>1, <2>2 DEF Storing
    <3>3. CASE c = d
      BY <2>1, <2>3, <2>4, <3>1, <3>2, <3>3 DEF WholeAt
    <3>4. CASE c # d
      BY <2>1, <2>3, <2>4, <3>1, <3>2, <3>4 DEF WholeAt
    <3> QED  BY <3>3, <3>4
  <2> QED  BY <2>1, <2>2, <2>3, <2>4, <2>5, OneNodeKeeps
<1> QED  BY <1>2, <1>3

(* A fetch or an announcement goes on, and a fetch stores the fragment.     *)
LEMMA FetchKeeps ==
  ASSUME MeshInv, NEW n \in Node, AnnounceUpload(n) \/ FetchManifest(n) \/ FetchFragment(n)
  PROVE  MeshInv'
<1>1. DiskTypeOK
  BY DEF MeshInv
<1>2. CASE End(n) /\ UNCHANGED <<files, raced>>
  <2>1. UNCHANGED <<files, listed, raced, pull, up>> /\ request[n].step # "unlist"
    BY <1>2 DEF AnnounceUpload, FetchManifest, FetchFragment, cycling, life, disk
  <2>2. up' \subseteq Node
    BY <1>1, <2>1 DEF DiskTypeOK
  <2> QED  BY <1>1, <1>2, <2>1, <2>2, RequestFacts, QuietKeeps
<1>3. CASE FetchManifest(n) /\ ~End(n)
  <2>1. PICK p : /\ HasManifest(p, request[n].cid) /\ request[n].step = "manifest"
                 /\ request' = [request EXCEPT ![n].step = "fragment", ![n].from = p]
    BY <1>3 DEF FetchManifest
  <2>2. UNCHANGED <<files, listed, raced, pull, up>>
    BY <1>3 DEF FetchManifest, cycling, life, disk
  <2>3. p \in Node /\ request[n].cid \in Content
    BY <1>1, <2>1 DEF HasManifest, DiskTypeOK
  <2>4. [request[n] EXCEPT !.step = "fragment", !.from = p] \in RequestRecord
        /\ [request[n] EXCEPT !.step = "fragment", !.from = p].cid = request[n].cid
        /\ [request[n] EXCEPT !.step = "fragment", !.from = p].step = "fragment"
    BY <1>1, <2>3 DEF DiskTypeOK, RequestRecord, Steps
  <2>5. request' = [request EXCEPT ![n] = [request[n] EXCEPT !.step = "fragment", !.from = p]]
    BY <1>1, <2>1 DEF DiskTypeOK
  <2>6. /\ request' \in [Node -> RequestRecord]
        /\ \A m \in Node : request'[m].step # "idle" => request'[m].cid \in Content
        /\ request'[n].step = "fragment"
        /\ \A m \in Node \ {n} : request'[m] = request[m]
    BY <1>1, <2>3, <2>4, <2>5 DEF DiskTypeOK
  <2>7. up' \subseteq Node
    BY <1>1, <2>2 DEF DiskTypeOK
  <2> QED  BY <2>1, <2>2, <2>6, <2>7, QuietKeeps
<1>4. CASE FetchFragment(n) /\ ~(End(n) /\ UNCHANGED <<files, raced>>)
  <2> DEFINE d == request[n].cid
  <2>1. /\ request[n].step = "fragment" /\ files' = [files EXCEPT ![n] = @ \cup {d}]
        /\ raced' = [raced EXCEPT ![n] = @ \ {d}] /\ Step(n, "listFetched")
        /\ UNCHANGED <<listed, pull, up>>
    BY <1>4 DEF FetchFragment, cycling, life
  <2>2. d \in Content
    BY <1>1, <2>1 DEF DiskTypeOK
  <2>3. /\ request' \in [Node -> RequestRecord]
        /\ \A m \in Node : request'[m].step # "idle" => request'[m].cid \in Content
        /\ request'[n].step = "listFetched" /\ request'[n].cid = d
        /\ \A m \in Node \ {n} : request'[m] = request[m]
    BY <1>1, <2>1, <2>2, RequestFacts DEF Steps
  <2>4. DiskTypeOK' /\ files'[n] = files[n] \cup {d} /\ raced'[n] = raced[n] \ {d}
        /\ \A m \in Node \ {n} : files'[m] = files[m] /\ raced'[m] = raced[m]
    BY <1>1, <2>1, <2>2, <2>3 DEF DiskTypeOK
  <2>5. ASSUME NEW c \in Content PROVE WholeAt(n, c)'
    <3>1. Storing(n, c)' => Storing(n, c) \/ c = d
      BY <2>1, <2>3 DEF Storing
    <3> QED  BY <2>1, <2>3, <2>4, <3>1, WholeKeeps
  <2> QED  BY <2>1, <2>3, <2>4, <2>5, OneNodeKeeps
<1>5. AnnounceUpload(n) => End(n) /\ UNCHANGED <<files, raced>>
  BY DEF AnnounceUpload, disk
<1>6. FetchManifest(n) /\ End(n) => UNCHANGED <<files, raced>>
  BY DEF FetchManifest, disk
<1> QED  BY <1>2, <1>3, <1>4, <1>5, <1>6

(* A pull goes on: the disk changes when it stores and when it lists.       *)
LEMMA PullFacts ==
  ASSUME DiskTypeOK, NEW n \in Node, NEW c \in Content, NEW from \in Stages, NEW to \in Stages,
         Pulls(n, c, from, to)
  PROVE  /\ pull' \in [Node -> [Content -> Stages]]
         /\ pull[n][c] = from /\ pull'[n][c] = to
         /\ \A e \in Content \ {c} : pull'[n][e] = pull[n][e]
         /\ \A m \in Node \ {n} : pull'[m] = pull[m]
BY DEF Pulls, DiskTypeOK

LEMMA QuietPullKeeps ==
  ASSUME MeshInv, NEW n \in Node, UNCHANGED <<files, listed, raced, request, up>>,
         pull' \in [Node -> [Content -> Stages]],
         \A m \in Node \ {n} : pull'[m] = pull[m],
         \A c \in Content : pull'[n][c] \in {"list", "pin"} => pull[n][c] \in {"list", "pin"}
  PROVE  MeshInv'
<1>1. DiskTypeOK'
  BY DEF MeshInv, DiskTypeOK
<1>2. ASSUME NEW c \in Content PROVE WholeAt(n, c)'
  <2>1. WholeAt(n, c)
    BY DEF MeshInv
  <2>2. Storing(n, c)' => Storing(n, c)
    BY DEF Storing
  <2> QED  BY <2>1, <2>2 DEF WholeAt
<1> QED  BY <1>1, <1>2, OneNodeKeeps

LEMMA PullKeeps ==
  ASSUME MeshInv, NEW n \in Node, NEW c \in Content,
         \/ PullProviders(n, c) \/ PullManifest(n, c) \/ PullFragment(n, c)
         \/ StorePulled(n, c) \/ ListPulled(n, c) \/ PinPulled(n, c)
         \/ AnnouncePulled(n, c) \/ PullFailed(n, c)
  PROVE  MeshInv'
<1>1. DiskTypeOK
  BY DEF MeshInv
<1>2. CASE \/ PullProviders(n, c) \/ PullManifest(n, c) \/ PullFragment(n, c)
           \/ PinPulled(n, c) \/ AnnouncePulled(n, c) \/ PullFailed(n, c)
  <2>1. UNCHANGED <<files, listed, raced, request, up>>
    BY <1>2 DEF PullProviders, PullManifest, PullFragment, PullFrom, PinPulled,
                AnnouncePulled, PullFailed, disk, life
  <2>2. PICK from \in Stages, to \in {"manifest", "failed", "fragment", "pulled", "announce", "none"} :
            Pulls(n, c, from, to)
    <3>1. CASE PullProviders(n, c)
      BY <3>1 DEF PullProviders, Stages
    <3>2. CASE PullManifest(n, c) \/ PullFragment(n, c)
      BY <3>2 DEF PullManifest, PullFragment, PullFrom, Stages
    <3>3. CASE PinPulled(n, c) \/ AnnouncePulled(n, c) \/ PullFailed(n, c)
      BY <3>3 DEF PinPulled, AnnouncePulled, PullFailed, Stages
    <3> QED  BY <1>2, <3>1, <3>2, <3>3
  <2>3. to \in Stages /\ to \notin {"list", "pin"}
    BY <2>2 DEF Stages
  <2>4. /\ pull' \in [Node -> [Content -> Stages]] /\ pull'[n][c] = to
        /\ \A e \in Content \ {c} : pull'[n][e] = pull[n][e]
        /\ \A m \in Node \ {n} : pull'[m] = pull[m]
    BY <1>1, <2>2, <2>3, PullFacts
  <2>5. \A e \in Content : pull'[n][e] \in {"list", "pin"} => pull[n][e] \in {"list", "pin"}
    BY <2>3, <2>4
  <2> QED  BY <2>1, <2>4, <2>5, QuietPullKeeps
<1>3. CASE StorePulled(n, c)
  <2>1. /\ Pulls(n, c, "pulled", "list") /\ files' = [files EXCEPT ![n] = @ \cup {c}]
        /\ raced' = [raced EXCEPT ![n] = IF c \in files[n] THEN @ ELSE @ \ {c}]
        /\ UNCHANGED <<listed, request, up>>
    BY <1>3 DEF StorePulled, life
  <2>2. /\ pull' \in [Node -> [Content -> Stages]] /\ pull'[n][c] = "list"
        /\ \A e \in Content \ {c} : pull'[n][e] = pull[n][e]
        /\ \A m \in Node \ {n} : pull'[m] = pull[m]
    BY <1>1, <2>1, PullFacts DEF Stages
  <2>3. DiskTypeOK' /\ files'[n] = files[n] \cup {c}
        /\ (\A e \in Content \ {c} : e \in raced[n] => e \in raced'[n])
        /\ \A m \in Node \ {n} : files'[m] = files[m] /\ raced'[m] = raced[m]
    BY <1>1, <2>1, <2>2 DEF DiskTypeOK
  <2>4. ASSUME NEW e \in Content PROVE WholeAt(n, e)'
    <3>1. WholeAt(n, e)
      BY DEF MeshInv
    <3>2. Storing(n, e)' => Storing(n, e) \/ e = c
      BY <2>1, <2>2 DEF Storing
    <3> QED  BY <2>1, <2>3, <3>1, <3>2 DEF WholeAt
  <2> QED  BY <2>1, <2>2, <2>3, <2>4, OneNodeKeeps
<1>4. CASE ListPulled(n, c)
  <2>1. /\ Pulls(n, c, "list", "pin") /\ listed' = [listed EXCEPT ![n] = @ \cup {c}]
        /\ UNCHANGED <<files, raced, request, up>>
    BY <1>4 DEF ListPulled, life
  <2>2. /\ pull' \in [Node -> [Content -> Stages]] /\ pull[n][c] = "list"
        /\ \A e \in Content \ {c} : pull'[n][e] = pull[n][e]
        /\ \A m \in Node \ {n} : pull'[m] = pull[m]
    BY <1>1, <2>1, PullFacts DEF Stages
  <2>3. DiskTypeOK' /\ listed'[n] = listed[n] \cup {c}
        /\ \A m \in Node \ {n} : listed'[m] = listed[m]
    BY <1>1, <2>1, <2>2 DEF DiskTypeOK
  <2>4. ASSUME NEW e \in Content PROVE WholeAt(n, e)'
    <3>1. WholeAt(n, e) /\ (e = c => Storing(n, e))
      BY <2>2 DEF MeshInv, Storing
    <3>2. Storing(n, e)' => Storing(n, e)
      BY <2>1, <2>2, <3>1 DEF Storing
    <3>3. e \in listed'[n] => e \in listed[n] \/ Storing(n, e)
      BY <2>3, <3>1
    <3> QED  BY <2>1, <3>1, <3>2, <3>3 DEF WholeAt
  <2> QED  BY <2>1, <2>2, <2>3, <2>4, OneNodeKeeps
<1> QED  BY <1>2, <1>3, <1>4

(* The rest of the cycle, and nodes that come and go.                       *)
LEMMA CycleKeeps ==
  ASSUME MeshInv, NEW n \in Node,
         \/ Scan(n) \/ Drain(n) \/ Select(n)
         \/ \E c \in Content : FindHolders(n, c)
         \/ \E p \in Node : Catalog(n, p)
  PROVE  MeshInv'
<1>1. UNCHANGED <<files, listed, raced, request, up>>
  BY DEF Scan, Drain, Select, FindHolders, Catalog, disk, life
<1>2. CASE pull' = pull
  BY <1>1, <1>2, QuietPullKeeps DEF MeshInv, DiskTypeOK
<1>3. CASE Select(n)
  <2>1. PICK S : pull' = [pull EXCEPT ![n] = [c \in Content |->
                             IF c \in S THEN "providers" ELSE "none"]]
    BY <1>3 DEF Select
  <2>2. pull' \in [Node -> [Content -> Stages]] /\ (\A m \in Node \ {n} : pull'[m] = pull[m])
        /\ \A c \in Content : pull'[n][c] \in {"providers", "none"}
    BY <2>1 DEF MeshInv, DiskTypeOK, Stages
  <2> QED  BY <1>1, <2>2, QuietPullKeeps
<1> QED  BY <1>2, <1>3 DEF Scan, Drain, FindHolders, Catalog

LEMMA LifeKeeps ==
  ASSUME MeshInv, NEW n \in Node, Stop(n) \/ Start(n)
  PROVE  MeshInv'
<1>1. DiskTypeOK
  BY DEF MeshInv
<1>2. CASE Start(n)
  <2>1. UNCHANGED <<files, listed, raced, pull, request>> /\ up' \subseteq Node
    BY <1>1, <1>2 DEF Start, disk, cycling, DiskTypeOK
  <2> QED  BY <1>1, <2>1, QuietKeeps DEF DiskTypeOK
<1>3. CASE Stop(n)
  <2>1. /\ End(n) /\ up' \subseteq Node /\ UNCHANGED <<files, listed>>
        /\ pull' = [pull EXCEPT ![n] = [c \in Content |-> "none"]]
        /\ raced' = [raced EXCEPT ![n] = @ \cup (listed[n] \ files[n])]
    BY <1>1, <1>3 DEF Stop, End, disk, DiskTypeOK
  <2>2. /\ request' \in [Node -> RequestRecord]
        /\ \A m \in Node : request'[m].step # "idle" => request'[m].cid \in Content
        /\ request'[n].step = "idle"
        /\ \A m \in Node \ {n} : request'[m] = request[m]
    BY <1>1, <2>1, RequestFacts
  <2>3. /\ pull' \in [Node -> [Content -> Stages]] /\ (\A c \in Content : pull'[n][c] = "none")
        /\ \A m \in Node \ {n} : pull'[m] = pull[m]
    BY <1>1, <2>1 DEF DiskTypeOK, Stages
  <2>4. DiskTypeOK' /\ raced'[n] = raced[n] \cup (listed[n] \ files[n])
        /\ \A m \in Node \ {n} : raced'[m] = raced[m]
    BY <1>1, <2>1, <2>2, <2>3 DEF DiskTypeOK
  <2>5. ASSUME NEW c \in Content PROVE WholeAt(n, c)'
    <3>1. ~Storing(n, c)'
      BY <2>2, <2>3 DEF Storing
    <3> QED  BY <2>1, <2>4, <3>1 DEF WholeAt
  <2> QED  BY <2>1, <2>2, <2>3, <2>4, <2>5, OneNodeKeeps
<1> QED  BY <1>2, <1>3

LEMMA MeshKeeps == MeshInv /\ [MNext]_meshVars => MeshInv'
<1> SUFFICES ASSUME MeshInv, [MNext]_meshVars PROVE MeshInv'
  OBVIOUS
<1>1. CASE UNCHANGED meshVars
  BY <1>1, QuietKeeps DEF meshVars, MeshInv, DiskTypeOK
<1>2. ASSUME NEW n \in Node, RequestStep(n) PROVE MeshInv'
  BY <1>2, ListKeeps, RemovalKeeps, FetchKeeps DEF RequestStep
<1>3. ASSUME NEW n \in Node, CycleStep(n) PROVE MeshInv'
  BY <1>3, PullKeeps, CycleKeeps DEF CycleStep
<1> QED  BY <1>1, <1>2, <1>3, ClientKeeps, LifeKeeps DEF MNext

(* WholeUnlessRaced is an invariant: for any nodes, contents and budgets,   *)
(* whatever the network loses and whoever stops.                            *)
THEOREM ListedIsWhole == MSpec => []WholeUnlessRaced
<1>1. MeshInv => WholeUnlessRaced
  BY DEF MeshInv, DiskTypeOK, WholeAt, WholeUnlessRaced
<1> QED  BY <1>1, MeshStarts, MeshKeeps, PTL DEF MSpec
=============================================================================
