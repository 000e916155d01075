-------------------------- MODULE NodePartsProofs --------------------------
(***************************************************************************)
(* What is proved about the parts that MCNodeParts runs side by side: the  *)
(* event loop of a gateway answers all who wait (GatewayLoop), a CREATE    *)
(* opens one circuit (Circuits), a chain of relays ends (CellRouting), the *)
(* bridge keeps its peers apart (Bridge), and a route that is computed     *)
(* avoids what is blocked (AdaptiveRouting).                               *)
(***************************************************************************)
EXTENDS GatewayLoop, CellRouting, Circuits, Bridge, AdaptiveRouting, FiniteSetTheorems,
        WellFoundedInduction, TLAPS

(* The loop of a gateway.  Whoever waits is told by whatever takes away     *)
(* what it waits on; after that it waits no more.                           *)

Sendable == {"name", "find", "build", "manifest", "fragment"}

\* What a caller can be at, with the providers and fragments it has left.
CallerState ==
    [at : {"idle", "done", "failed", "left"}, cmd : {"none"}]
    \cup [at : {"choose"}, cmd : {"find"}, left : Nat]
    \cup [at : {"send", "waiting"}, cmd : Sendable, left : Nat, frags : Nat]

LoopTypeOK ==
    /\ links \in [Peer -> Nat] /\ key \in [Resolver -> Key]
    /\ caller \in [Resolver -> CallerState]
    /\ channel \in Seq(Resolver \X Sendable)
    /\ waiting \in [Key -> Resolver \cup {None}]

InChannel(x) == \E i \in DOMAIN channel : channel[i] = x

\* A query or message is under way that ends the wait of r.
Served(r) ==
    \/ InChannel(<<r, caller[r].cmd>>)
    \/ <<r, caller[r].cmd>> \in pending \cap sent
    \/ waiting[key[r]] = r /\ r \in queries

AllServed ==
    \A r \in Resolver : caller[r].at = "waiting" /\ caller[r].cmd # "build" => Served(r)

LoopInv == LoopTypeOK /\ PeersAreConnected /\ AllServed

(* An answer ends the wait of a caller.                                     *)
LEMMA AfterEnds ==
  ASSUME NEW s \in CallerState, s.at = "waiting", NEW ok \in BOOLEAN, NEW t \in After(s, ok)
  PROVE  t \in CallerState /\ t.at # "waiting"
<1> USE LoopAssumption
<1>1. s.left \in Nat /\ s.frags \in Nat
  BY DEF CallerState
<1>2. \A c \in Sendable, m, n \in Nat :
        Ask(c, m, n) \in CallerState /\ Ask(c, m, n).at = "send"
  BY DEF Ask, CallerState
<1>3. \A x \in {"done", "failed"} : Done(x) \in CallerState /\ Done(x).at = x
  BY DEF Done, CallerState
<1>4. NextProvider(s) \in CallerState /\ NextProvider(s).at # "waiting"
  <2>1. CASE s.left > 1
    <3>1. s.left - 1 \in Nat /\ "manifest" \in Sendable
      BY <1>1, <2>1 DEF Sendable
    <3>2. NextProvider(s) = Ask("manifest", s.left - 1, 0)
      BY <2>1 DEF NextProvider
    <3> QED  BY <1>2, <3>1, <3>2
  <2>2. CASE ~(s.left > 1)
    BY <1>3, <2>2 DEF NextProvider
  <2> QED  BY <2>1, <2>2
<1>5. \A n \in 1..MaxProviders : [at |-> "choose", cmd |-> "find", left |-> n] \in CallerState
  BY DEF CallerState
<1>6. CASE s.cmd = "name"
  BY <1>3, <1>6 DEF After
<1>7. CASE s.cmd = "find"
  BY <1>3, <1>5, <1>7 DEF After
<1>8. CASE s.cmd = "build"
  BY <1>1, <1>2, <1>8 DEF After, Sendable
<1>9. CASE s.cmd = "manifest"
  BY <1>1, <1>2, <1>4, <1>9 DEF After, Sendable
<1>10. CASE s.cmd \notin {"name", "find", "build", "manifest"}
  <2>1. t = IF ~ok THEN NextProvider(s)
            ELSE IF s.frags > 1 THEN Ask("fragment", s.left, s.frags - 1) ELSE Done("done")
    BY <1>10 DEF After
  <2>2. CASE ok /\ s.frags > 1
    <3>1. s.frags - 1 \in Nat /\ "fragment" \in Sendable
      BY <1>1, <2>2 DEF Sendable
    <3>2. t = Ask("fragment", s.left, s.frags - 1)
      BY <2>1, <2>2
    <3> QED  BY <1>1, <1>2, <3>1, <3>2
  <2>3. CASE ~(ok /\ s.frags > 1)
    BY <1>3, <1>4, <2>1, <2>3
  <2> QED  BY <2>2, <2>3
<1> QED  BY <1>6, <1>7, <1>8, <1>9, <1>10

(* Who is told does not wait any more, and nobody else notices.             *)
LEMMA TellEnds ==
  ASSUME LoopTypeOK, NEW r, NEW ok \in BOOLEAN, Tell(r, ok)
  PROVE  /\ caller' \in [Resolver -> CallerState]
         /\ r \in Resolver => caller'[r].at # "waiting"
         /\ \A q \in Resolver \ {r} : caller'[q] = caller[q]
<1>1. CASE r \in Resolver /\ caller[r].at = "waiting"
  <2>1. PICK s \in After(caller[r], ok) : caller' = [caller EXCEPT ![r] = s]
    BY <1>1 DEF Tell
  <2>2. caller[r] \in CallerState
    BY <1>1 DEF LoopTypeOK
  <2>3. s \in CallerState /\ s.at # "waiting"
    BY <1>1, <2>2, AfterEnds
  <2> QED  BY <1>1, <2>1, <2>3 DEF LoopTypeOK
<1>2. CASE ~(r \in Resolver /\ caller[r].at = "waiting")
  BY <1>2 DEF Tell, LoopTypeOK
<1> QED  BY <1>1, <1>2

(* A command that is put into the channel joins the others; one that is     *)
(* taken leaves them there.                                                 *)
LEMMA ChannelFacts ==
  ASSUME channel \in Seq(Resolver \X Sendable)
  PROVE  /\ \A x \in Resolver \X Sendable : channel' = Append(channel, x) =>
                /\ channel' \in Seq(Resolver \X Sendable) /\ InChannel(x)'
                /\ \A y : InChannel(y) => InChannel(y)'
         /\ channel # <<>> /\ channel' = Tail(channel) =>
                /\ channel' \in Seq(Resolver \X Sendable)
                /\ \A y : InChannel(y) => y = Head(channel) \/ InChannel(y)'
<1>1. ASSUME NEW x \in Resolver \X Sendable, channel' = Append(channel, x)
      PROVE  /\ channel' \in Seq(Resolver \X Sendable) /\ InChannel(x)'
             /\ \A y : InChannel(y) => InChannel(y)'
  <2>1. /\ channel' \in Seq(Resolver \X Sendable) /\ Len(channel') = Len(channel) + 1
        /\ channel'[Len(channel) + 1] = x /\ \A i \in 1..Len(channel) : channel'[i] = channel[i]
    BY <1>1
  <2>2. Len(channel) + 1 \in DOMAIN channel' /\ \A i \in DOMAIN channel : i \in DOMAIN channel'
    BY <2>1
  <2>3. ASSUME NEW y, InChannel(y) PROVE InChannel(y)'
    <3>1. PICK i \in DOMAIN channel : channel[i] = y
      BY <2>3 DEF InChannel
    <3>2. i \in DOMAIN channel' /\ channel'[i] = y
      BY <2>1, <2>2, <3>1
    <3> QED  BY <3>2 DEF InChannel
  <2>4. InChannel(x)'
    BY <2>1, <2>2 DEF InChannel
  <2> QED  BY <2>1, <2>3, <2>4
<1>2. ASSUME channel # <<>>, channel' = Tail(channel)
      PROVE  /\ channel' \in Seq(Resolver \X Sendable)
             /\ \A y : InChannel(y) => y = Head(channel) \/ InChannel(y)'
  <2>1. /\ channel' \in Seq(Resolver \X Sendable) /\ Len(channel') = Len(channel) - 1
        /\ \A i \in 1..(Len(channel) - 1) : channel'[i] = channel[i + 1]
    BY <1>2
  <2>2. ASSUME NEW y, NEW i \in DOMAIN channel, channel[i] = y, y # Head(channel)
        PROVE  InChannel(y)'
    <3>1. i # 1 /\ i \in 1..Len(channel)
      BY <1>2, <2>2
    <3>2. i - 1 \in 1..(Len(channel) - 1) /\ i - 1 \in DOMAIN channel'
      BY <2>1, <3>1
    <3>3. channel'[i - 1] = y
      BY <2>1, <2>2, <3>1, <3>2
    <3> QED  BY <3>2, <3>3 DEF InChannel
  <2>3. ASSUME NEW y, InChannel(y), y # Head(channel) PROVE InChannel(y)'
    <3>1. PICK i \in DOMAIN channel : channel[i] = y
      BY <2>3 DEF InChannel
    <3> QED  BY <2>2, <2>3, <3>1
  <2> QED  BY <2>1, <2>3
<1> QED  BY <1>1, <1>2

LEMMA LoopStarts == GInit => LoopInv
BY DEF GInit, LoopInv, LoopTypeOK, PeersAreConnected, AllServed, Idle, CallerState

(* Connections come and go.                                                 *)
LEMMA PeersKeep ==
  ASSUME LoopInv, NEW p \in Peer, Established(p) \/ Closed(p)
  PROVE  LoopInv'
<1>1. links' \in [Peer -> Nat] /\ \A q \in Peer \ {p} : links'[q] = links[q]
  BY DEF Established, Closed, LoopInv, LoopTypeOK
<1>2. PeersAreConnected'
  <2>1. CASE Established(p)
    <3>1. links'[p] > 0 /\ peers' = peers \cup {p}
      BY <2>1 DEF Established, LoopInv, LoopTypeOK
    <3> QED  BY <1>1, <3>1 DEF LoopInv, PeersAreConnected
  <2>2. CASE Closed(p)
    <3>1. links[p] > 0 /\ peers' = IF links'[p] = 0 THEN peers \ {p} ELSE peers
      BY <2>2 DEF Closed
    <3>2. links'[p] = 0 \/ links'[p] > 0
      BY <1>1
    <3> QED  BY <1>1, <3>1, <3>2 DEF LoopInv, PeersAreConnected
  <2> QED  BY <2>1, <2>2
<1>3. UNCHANGED <<caller, key, channel, maps>>
  BY DEF Established, Closed
<1>4. AllServed'
  BY <1>3 DEF LoopInv, AllServed, Served, InChannel, maps
<1> QED  BY <1>1, <1>2, <1>3, <1>4 DEF LoopInv, LoopTypeOK, maps

(* What it takes for a step to leave everybody served: the types, and for   *)
(* each that still waits, that what served it does so still.                *)
LEMMA ServedKeeps ==
  ASSUME LoopInv, UNCHANGED <<links, peers, key>>,
         caller' \in [Resolver -> CallerState], channel' \in Seq(Resolver \X Sendable),
         waiting' \in [Key -> Resolver \cup {None}],
         \A r \in Resolver : caller'[r].at = "waiting" /\ caller'[r].cmd # "build" =>
            Served(r)' \/ (caller'[r] = caller[r] /\ (Served(r) => Served(r)'))
  PROVE  LoopInv'
<1>1. AllServed'
  BY DEF LoopInv, AllServed
<1>2. PeersAreConnected'
  BY DEF LoopInv, PeersAreConnected
<1> QED  BY <1>1, <1>2 DEF LoopInv, LoopTypeOK

(* So it is when one is told, if whoever else was served still is.          *)
LEMMA ToldKeeps ==
  ASSUME LoopInv, UNCHANGED <<links, peers, key>>, NEW who, NEW ok \in BOOLEAN, Tell(who, ok),
         channel' \in Seq(Resolver \X Sendable), waiting' \in [Key -> Resolver \cup {None}],
         \A q \in Resolver \ {who} : caller'[q] = caller[q] /\ Served(q) => Served(q)'
  PROVE  LoopInv'
<1>1. /\ caller' \in [Resolver -> CallerState]
      /\ who \in Resolver => caller'[who].at # "waiting"
      /\ \A q \in Resolver \ {who} : caller'[q] = caller[q]
  BY TellEnds DEF LoopInv
<1>2. ASSUME NEW q \in Resolver, caller'[q].at = "waiting", caller'[q].cmd # "build"
      PROVE  Served(q)'
  <2>1. q \in Resolver \ {who}
    BY <1>1, <1>2
  <2>2. caller'[q] = caller[q]
    BY <1>1, <2>1
  <2>3. Served(q)
    BY <1>2, <2>2 DEF LoopInv, AllServed
  <2> QED  BY <2>1, <2>2, <2>3
<1>3. AllServed'
  BY <1>2 DEF AllServed
<1>4. PeersAreConnected'
  BY DEF LoopInv, PeersAreConnected
<1> QED  BY <1>1, <1>3, <1>4 DEF LoopInv, LoopTypeOK

(* A caller begins, chooses, sends a command, or leaves.                    *)
LEMMA CallerKeeps ==
  ASSUME LoopInv, NEW r \in Resolver, Call(r) \/ Choose(r) \/ SendCommand(r) \/ TimeOut(r)
  PROVE  LoopInv'
<1> USE LoopAssumption
<1>1. UNCHANGED <<links, peers, key, maps>>
  BY DEF Call, Choose, SendCommand, TimeOut
<1>2. caller[r] \in CallerState /\ channel \in Seq(Resolver \X Sendable)
  BY DEF LoopInv, LoopTypeOK
<1>3. ASSUME NEW s \in CallerState, caller' = [caller EXCEPT ![r] = s], s.at # "waiting",
             UNCHANGED channel
      PROVE  LoopInv'
  <2>1. caller' \in [Resolver -> CallerState] /\ caller'[r] = s
        /\ \A q \in Resolver \ {r} : caller'[q] = caller[q]
    BY <1>3 DEF LoopInv, LoopTypeOK
  <2>2. \A q \in Resolver \ {r} : Served(q) => Served(q)'
    BY <1>1, <1>3, <2>1 DEF Served, InChannel, maps
  <2> QED  BY <1>1, <1>3, <2>1, <2>2, ServedKeeps DEF LoopInv, LoopTypeOK, maps
<1>4. CASE Call(r)
  <2>1. \A c \in {"name", "find"} : Ask(c, MaxProviders, 0) \in CallerState
                                    /\ Ask(c, MaxProviders, 0).at = "send"
    BY DEF Ask, CallerState, Sendable
  <2> QED  BY <1>3, <1>4, <2>1 DEF Call
<1>5. CASE Choose(r)
  <2>1. caller[r].left \in Nat
    BY <1>2, <1>5 DEF Choose, CallerState
  <2>2. \A c \in {"build", "manifest"} : Ask(c, caller[r].left, 0) \in CallerState
                                         /\ Ask(c, caller[r].left, 0).at = "send"
    BY <2>1 DEF Ask, CallerState, Sendable
  <2>3. \E c \in {"build", "manifest"} :
            caller' = [caller EXCEPT ![r] = Ask(c, caller[r].left, 0)] /\ UNCHANGED channel
    BY <1>5 DEF Choose, LoopInv, LoopTypeOK
  <2> QED  BY <1>3, <2>2, <2>3
<1>6. CASE TimeOut(r)
  <2>1. Done("left") \in CallerState /\ Done("left").at = "left"
    BY DEF Done, CallerState
  <2> QED  BY <1>3, <1>6, <2>1 DEF TimeOut
<1>7. CASE SendCommand(r)
  <2>1. caller[r].at = "send" /\ caller' = [caller EXCEPT ![r].at = "waiting"]
        /\ channel' = Append(channel, <<r, caller[r].cmd>>)
    BY <1>7 DEF SendCommand
  <2>2. caller[r] \in [at : {"send", "waiting"}, cmd : Sendable, left : Nat, frags : Nat]
    BY <1>2, <2>1 DEF CallerState
  <2>3. [caller[r] EXCEPT !.at = "waiting"] \in CallerState
        /\ [caller[r] EXCEPT !.at = "waiting"].cmd = caller[r].cmd
    BY <2>2 DEF CallerState
  <2>4. /\ caller' \in [Resolver -> CallerState] /\ caller'[r].cmd = caller[r].cmd
        /\ \A q \in Resolver \ {r} : caller'[q] = caller[q]
    BY <2>1, <2>3 DEF LoopInv, LoopTypeOK
  <2>5. /\ channel' \in Seq(Resolver \X Sendable) /\ InChannel(<<r, caller[r].cmd>>)'
        /\ \A y : InChannel(y) => InChannel(y)'
    BY <1>2, <2>1, <2>2, ChannelFacts
  <2>6. Served(r)'
    BY <2>4, <2>5 DEF Served
  <2>7. \A q \in Resolver \ {r} : Served(q) => Served(q)'
    BY <1>1, <2>4, <2>5 DEF Served, maps
  <2> QED  BY <1>1, <2>4, <2>5, <2>6, <2>7, ServedKeeps DEF LoopInv, LoopTypeOK, maps
<1> QED  BY <1>4, <1>5, <1>6, <1>7

(* The loop takes a command, tracks it, and tells whom a look-up displaces. *)
LEMMA HandleKeeps ==
  ASSUME LoopInv, NEW r \in Resolver, Handle(r)
  PROVE  LoopInv'
<1> USE LoopAssumption
<1>1. channel # <<>> /\ channel' = Tail(channel) /\ UNCHANGED <<links, peers, key>>
  BY DEF Handle, HandleFetch, HandleLookup, HandleBuild, Command
<1>2. /\ channel' \in Seq(Resolver \X Sendable)
      /\ \A y : InChannel(y) => y = Head(channel) \/ InChannel(y)'
  BY <1>1, ChannelFacts DEF LoopInv, LoopTypeOK
<1>3. CASE HandleFetch(r) \/ HandleBuild(r)
  <2>1. PICK cmd : /\ Head(channel) = <<r, cmd>>
                   /\ pending' = pending \cup {<<r, cmd>>} /\ sent' = sent \cup {<<r, cmd>>}
    BY <1>3 DEF HandleFetch, HandleBuild, Command, Track
  <2>2. UNCHANGED <<caller, waiting, queries>>
    BY <1>3 DEF HandleFetch, HandleBuild
  <2>3. \A q \in Resolver : Served(q) => Served(q)'
    BY <1>1, <1>2, <2>1, <2>2 DEF Served
  <2> QED  BY <1>1, <1>2, <2>2, <2>3, ServedKeeps DEF LoopInv, LoopTypeOK
<1>4. CASE HandleLookup(r)
  <2>1. PICK cmd \in {"find", "name"} : Head(channel) = <<r, cmd>>
    BY <1>4 DEF HandleLookup, Command
  <2>2. /\ Tell(waiting[key[r]], FALSE) /\ waiting' = [waiting EXCEPT ![key[r]] = r]
        /\ queries' = queries \cup {r} /\ UNCHANGED <<pending, sent>> /\ key[r] \in Key
    BY <1>4 DEF HandleLookup, LoopInv, LoopTypeOK
  <2>3. /\ waiting' \in [Key -> Resolver \cup {None}] /\ waiting'[key[r]] = r
        /\ \A k \in Key \ {key[r]} : waiting'[k] = waiting[k]
    BY <2>2 DEF LoopInv, LoopTypeOK
  <2>4. ASSUME NEW q \in Resolver \ {waiting[key[r]]}, caller'[q] = caller[q], Served(q)
        PROVE  Served(q)'
    <3>1. key'[q] = key[q] /\ key[q] \in Key
      BY <1>1 DEF LoopInv, LoopTypeOK
    <3>2. CASE q = r
      BY <1>1, <2>2, <2>3, <3>2 DEF Served
    <3>3. CASE q # r
      <4>1. waiting[key[q]] = q => waiting'[key[q]] = q
        BY <2>3, <2>4, <3>1
      <4>2. InChannel(<<q, caller[q].cmd>>) => InChannel(<<q, caller[q].cmd>>)'
        BY <1>2, <2>1, <2>4, <3>3
      <4> QED  BY <2>2, <2>4, <3>1, <4>1, <4>2 DEF Served
    <3> QED  BY <3>2, <3>3
  <2> QED  BY <1>1, <1>2, <2>2, <2>3, <2>4, ToldKeeps
<1> QED  BY <1>3, <1>4 DEF Handle

(* A message is settled: its sender is told, or it was a build's.           *)
LEMMA SettledKeeps ==
  ASSUME LoopInv, NEW m \in sent, Settled(m)
  PROVE  LoopInv'
<1>1. UNCHANGED <<links, peers, key, channel, waiting, queries>>
  BY DEF Settled, Answer, FirstCreated, Unanswered, InvalidCell, Unknown, Settle
<1>2. CASE Unknown(m)
  <2>1. caller' = caller /\ pending' = pending /\ sent' = sent \ {m} /\ m \notin pending
    BY <1>2 DEF Unknown
  <2>2. \A q \in Resolver : Served(q) => Served(q)'
    BY <1>1, <2>1 DEF Served, InChannel
  <2> QED  BY <1>1, <2>1, <2>2, ServedKeeps DEF LoopInv, LoopTypeOK
<1>3. CASE ~Unknown(m)
  <2>1. pending' = pending \ {m} /\ sent \ {m} \subseteq sent'
    BY <1>3 DEF Settled, Answer, FirstCreated, Unanswered, InvalidCell, Settle
  <2>2. ASSUME NEW q \in Resolver, <<q, caller[q].cmd>> # m, caller'[q] = caller[q]
        PROVE  Served(q) => Served(q)'
    BY <1>1, <2>1, <2>2 DEF Served, InChannel
  <2>3. CASE \E ok \in BOOLEAN : Tell(m[1], ok)
    <3>1. \A q \in Resolver \ {m[1]} : <<q, caller[q].cmd>> # m
      OBVIOUS
    <3>2. \A q \in Resolver \ {m[1]} : caller'[q] = caller[q] /\ Served(q) => Served(q)'
      BY <2>2, <3>1
    <3> QED  BY <1>1, <2>3, <3>2, ToldKeeps DEF LoopInv, LoopTypeOK
  <2>4. CASE caller' = caller /\ m[2] = "build"
    <3>1. \A q \in Resolver : caller[q].cmd # "build" => <<q, caller[q].cmd>> # m
      BY <2>4
    <3> QED  BY <1>1, <2>2, <2>4, <3>1, ServedKeeps DEF LoopInv, LoopTypeOK
  <2> QED  BY <1>3, <2>3, <2>4 DEF Settled, Answer, FirstCreated, Unanswered, InvalidCell
<1> QED  BY <1>2, <1>3

(* A query answers or fails: whoever waits for its key is told.             *)
LEMMA QueryKeeps ==
  ASSUME LoopInv, NEW r \in Resolver, Found(r) \/ Failed(r)
  PROVE  LoopInv'
<1>1. /\ \E ok \in BOOLEAN : Tell(waiting[key[r]], ok)
      /\ waiting' = [waiting EXCEPT ![key[r]] = None] /\ queries' = queries \ {r}
      /\ UNCHANGED <<links, peers, key, channel, pending, sent>> /\ key[r] \in Key
  BY DEF Found, Failed, TellWaiting, LoopInv, LoopTypeOK
<1>2. /\ waiting' \in [Key -> Resolver \cup {None}]
      /\ \A k \in Key \ {key[r]} : waiting'[k] = waiting[k]
  BY <1>1 DEF LoopInv, LoopTypeOK
<1>3. ASSUME NEW q \in Resolver \ {waiting[key[r]]}, caller'[q] = caller[q], Served(q)
      PROVE  Served(q)'
  <2>1. key'[q] = key[q] /\ key[q] \in Key
    BY <1>1 DEF LoopInv, LoopTypeOK
  <2>2. waiting[key[q]] = q => waiting'[key[q]] = q /\ q # r
    BY <1>2, <1>3, <2>1
  <2> QED  BY <1>1, <1>3, <2>1, <2>2 DEF Served, InChannel
<1> QED  BY <1>1, <1>2, <1>3, ToldKeeps DEF LoopInv, LoopTypeOK

(* The clean-up forgets nobody who waits.                                   *)
LEMMA CleanupKeeps ==
  ASSUME LoopInv, Cleanup
  PROVE  LoopInv'
<1>1. UNCHANGED <<links, peers, caller, key, channel, sent, queries>>
  BY DEF Cleanup
<1>2. waiting' \in [Key -> Resolver \cup {None}]
  BY DEF Cleanup, LoopInv, LoopTypeOK
<1>3. ASSUME NEW q \in Resolver, caller[q].at = "waiting", Served(q) PROVE Served(q)'
  <2>1. ~Gone(q) /\ key[q] \in Key
    BY <1>3 DEF Gone, LoopInv, LoopTypeOK
  <2>2. waiting[key[q]] = q => waiting'[key[q]] = q
    BY <2>1 DEF Cleanup
  <2>3. <<q, caller[q].cmd>> \in pending => <<q, caller[q].cmd>> \in pending'
    BY <2>1 DEF Cleanup
  <2> QED  BY <1>1, <1>3, <2>2, <2>3 DEF Served, InChannel
<1> QED  BY <1>1, <1>2, <1>3, ServedKeeps DEF LoopInv, LoopTypeOK

LEMMA LoopKeepsOn == LoopInv /\ [GNext]_gvars => LoopInv'
<1> SUFFICES ASSUME LoopInv, [GNext]_gvars PROVE LoopInv'
  OBVIOUS
<1>1. CASE UNCHANGED gvars \/ \E r \in Resolver : QueryFinished(r)
  <2>1. UNCHANGED <<links, peers, caller, key, channel, pending, sent, waiting, queries>>
    BY <1>1 DEF gvars, maps, QueryFinished
  <2>2. \A q \in Resolver : Served(q) => Served(q)'
    BY <2>1 DEF Served, InChannel
  <2> QED  BY <2>1, <2>2, ServedKeeps DEF LoopInv, LoopTypeOK
<1> QED  BY <1>1, PeersKeep, CallerKeeps, HandleKeeps, SettledKeeps, QueryKeeps, CleanupKeeps
         DEF GNext

(* LoopTracks is an invariant: for any callers, peers and numbers of        *)
(* providers and fragments, with or without circuits.                       *)
THEOREM LoopKeepsTrack == GSpec => []LoopTracks
<1>1. LoopInv => LoopTracks
  BY DEF LoopInv, LoopTracks, CallersTracked, AllServed, Served, InChannel
<1> QED  BY <1>1, LoopStarts, LoopKeepsOn, PTL DEF GSpec
----------------------------------------------------------------------------
(* Circuits.  What a relay remembers of each circuit it opened: while it is *)
(* young enough for its CREATE to be fresh again, the replay cache knows it *)
(* or the circuit is still there and refuses it.                            *)

Sender == Relay \cup {Client}
Cell ==
    [type : {"create"}, c : Circuit, hop : {1, 2}, from : Sender, to : Relay, ts : Int, hts : Int]
    \cup [type : {"created"}, c : Circuit, key : Nat]
    \cup [type : {"extend"}, c : Circuit, key : Nat, from : Sender, to : Relay, ts : Int, hts : Int]
    \cup [type : {"destroy"}, c : Circuit, to : Relay]
Hop == [prev : Sender, next : SUBSET Relay, born : Int, key : Nat]
Built == [step : {"none", "gone"}] \cup [step : {"first", "second"}, born : Int]

CircuitTypeOK ==
    /\ now \in Int /\ skew \in Int
    /\ building \in [Circuit -> Built]
    /\ state \in [Relay -> [Circuit -> SUBSET Hop]]
    /\ DOMAIN seen = Relay
    /\ \A p \in Relay : \A d \in DOMAIN seen[p] : seen[p][d] \in Int
    /\ wire \subseteq Cell
    /\ opened \in [Relay -> [Create -> Seq(Int)]]

IsCreate(x, c, h) == x.type = "create" /\ x.c = c /\ x.hop = h
IsExtend(x, c) == x.type = "extend" /\ x.c = c

\* A client makes one handshake for each of the two hops of a circuit.
OneHandshake ==
    \A c \in Circuit :
        /\ building[c].step = "none" => \A x \in wire : ~IsCreate(x, c, 1)
        /\ building[c].step \in {"none", "first"} => \A x \in wire : ~IsExtend(x, c)
        /\ \A x, y \in wire : IsCreate(x, c, 1) /\ IsCreate(y, c, 1) => x.hts = y.hts
        /\ \A x, y \in wire : IsExtend(x, c) /\ IsExtend(y, c) => x.hts = y.hts
        /\ \A x \in wire : IsCreate(x, c, 2) => \E y \in wire : IsExtend(y, c) /\ x.hts = y.hts

\* What holds of a circuit that p opened at the time t for the CREATE d.
OpenedAt(p, d, t) ==
    /\ t <= now
    /\ \E x \in wire : IsCreate(x, d[1], d[2]) /\ x.hts - t <= MaxAge
    /\ d[1] \in torn \/ state[p][d[1]] # {} \/ now - t > Lifetime
    /\ \A s \in state[p][d[1]] : t <= s.born
    /\ \/ p \in cleared \/ now - t > MaxAge
       \/ d \in DOMAIN seen[p] /\ t <= seen[p][d]

OpenedKnown ==
    \A p \in Relay, d \in Create : \A i \in DOMAIN opened[p][d] : OpenedAt(p, d, opened[p][d][i])

CircuitInv == CircuitTypeOK /\ OneHandshake /\ OpenedKnown /\ OneCircuitPerCreate

LEMMA CircuitsStart == ZInit => CircuitInv
<1> SUFFICES ASSUME ZInit PROVE CircuitInv
  OBVIOUS
<1> USE CircuitAssumption DEF ZInit
<1>1. CircuitTypeOK
  BY DEF CircuitTypeOK, Built
<1>2. OneHandshake
  BY DEF OneHandshake
<1>3. \A p \in Relay, d \in Create : DOMAIN opened[p][d] = {}
  OBVIOUS
<1>4. OpenedKnown /\ OneCircuitPerCreate
  BY <1>3 DEF OpenedKnown, OneCircuitPerCreate
<1> QED  BY <1>1, <1>2, <1>4 DEF CircuitInv

(* What it takes for a step that opens nothing to keep the invariant.       *)
LEMMA OpenedKeeps ==
  ASSUME CircuitInv, CircuitTypeOK', OneHandshake', UNCHANGED opened,
         torn \subseteq torn', cleared \subseteq cleared',
         \A p \in Relay, d \in Create, t \in Int : OpenedAt(p, d, t) => OpenedAt(p, d, t)'
  PROVE  CircuitInv'
<1>1. \A p \in Relay, d \in Create : \A i \in DOMAIN opened[p][d] : opened[p][d][i] \in Int
  BY DEF CircuitInv, CircuitTypeOK
<1>2. OpenedKnown'
  BY <1>1 DEF CircuitInv, OpenedKnown
<1>3. OneCircuitPerCreate'
  BY DEF CircuitInv, OneCircuitPerCreate
<1> QED  BY <1>2, <1>3 DEF CircuitInv

(* More cells change nothing for a circuit that is open; time only ages it. *)
LEMMA OpenedStays ==
  ASSUME CircuitTypeOK, now' \in Int, now <= now', UNCHANGED <<state, seen, torn, cleared>>,
         wire \subseteq wire',
         NEW p \in Relay, NEW d \in Create, NEW t \in Int, OpenedAt(p, d, t)
  PROVE  OpenedAt(p, d, t)'
<1> USE CircuitAssumption
<1>1. t <= now' /\ (now - t > Lifetime => now' - t > Lifetime)
      /\ (now - t > MaxAge => now' - t > MaxAge)
  <2>1. now \in Int /\ t <= now
    BY DEF OpenedAt, CircuitTypeOK
  <2>2. MaxAge \in Int /\ Lifetime \in Int
    OBVIOUS
  <2>3. \A m, x, y \in Int : x <= y /\ x - t > m => y - t > m
    OBVIOUS
  <2>4. \A x, y \in Int : t <= x /\ x <= y => t <= y
    OBVIOUS
  <2> QED  BY <2>1, <2>2, <2>3, <2>4
<1>2. \E x \in wire' : IsCreate(x, d[1], d[2]) /\ x.hts - t <= MaxAge
  BY DEF OpenedAt
<1> QED  BY <1>1, <1>2 DEF OpenedAt

(* One handshake per hop: of a cell that is added, it has to be shown.      *)
LEMMA HandshakeKeeps ==
  ASSUME OneHandshake, UNCHANGED building, wire \subseteq wire',
         \A x \in wire' \ wire : \/ x.type \in {"created", "destroy"}
                                 \/ x.type = "create" /\ x.hop = 2 /\ x.c \in Circuit
                                    /\ \E y \in wire : IsExtend(y, x.c) /\ x.hts = y.hts
  PROVE  OneHandshake'
<1> SUFFICES ASSUME NEW c \in Circuit
    PROVE /\ building[c].step = "none" => \A x \in wire' : ~IsCreate(x, c, 1)
          /\ building[c].step \in {"none", "first"} => \A x \in wire' : ~IsExtend(x, c)
          /\ \A x, y \in wire' : IsCreate(x, c, 1) /\ IsCreate(y, c, 1) => x.hts = y.hts
          /\ \A x, y \in wire' : IsExtend(x, c) /\ IsExtend(y, c) => x.hts = y.hts
          /\ \A x \in wire' : IsCreate(x, c, 2) => \E y \in wire' : IsExtend(y, c) /\ x.hts = y.hts
  BY DEF OneHandshake, IsCreate, IsExtend
<1>1. \A x \in wire' : IsCreate(x, c, 1) \/ IsExtend(x, c) => x \in wire
  BY DEF IsCreate, IsExtend
<1>2. \A x \in wire' : IsCreate(x, c, 2) => \E y \in wire : IsExtend(y, c) /\ x.hts = y.hts
  BY DEF OneHandshake, IsCreate
<1> QED  BY <1>1, <1>2 DEF OneHandshake

(* The client builds, extends and forgets.                                  *)
LEMMA BuildKeeps ==
  ASSUME CircuitInv, NEW c \in Circuit, Build(c)
  PROVE  CircuitInv'
<1> USE CircuitAssumption
<1> DEFINE new == [type |-> "create", c |-> c, hop |-> 1, from |-> Client, to |-> Path(c, 1),
                   ts |-> now + skew, hts |-> now + skew]
<1>1. /\ building[c].step = "none" /\ wire' = wire \cup {new}
      /\ building' = [building EXCEPT ![c] = [step |-> "first", born |-> now]]
      /\ UNCHANGED <<now, skew, state, seen, opened, torn, cleared>>
  BY DEF Build, Send
<1>2. CircuitTypeOK /\ OneHandshake
  BY DEF CircuitInv
<1>3. new \in Cell /\ building' \in [Circuit -> Built] /\ building'[c].step = "first"
      /\ \A e \in Circuit \ {c} : building'[e] = building[e]
  BY <1>1, <1>2 DEF CircuitTypeOK, Cell, Sender, Built
<1>4. CircuitTypeOK'
  BY <1>1, <1>2, <1>3 DEF CircuitTypeOK
<1>5. IsCreate(new, c, 1) /\ (\A e : ~IsExtend(new, e))
      /\ \A e, h : IsCreate(new, e, h) => e = c /\ h = 1
  BY DEF IsCreate, IsExtend
<1> HIDE DEF new
<1>6. OneHandshake'
  <2>1. ASSUME NEW e \in Circuit
        PROVE  /\ building'[e].step = "none" => \A x \in wire' : ~IsCreate(x, e, 1)
               /\ building'[e].step \in {"none", "first"} => \A x \in wire' : ~IsExtend(x, e)
               /\ \A x, y \in wire' : IsExtend(x, e) /\ IsExtend(y, e) => x.hts = y.hts
               /\ \A x \in wire' : IsCreate(x, e, 2) => \E y \in wire' : IsExtend(y, e) /\ x.hts = y.hts
    BY <1>1, <1>2, <1>3, <1>5 DEF OneHandshake
  <2>2. ASSUME NEW e \in Circuit, NEW x \in wire', NEW y \in wire', IsCreate(x, e, 1), IsCreate(y, e, 1)
        PROVE  x.hts = y.hts
    <3>1. CASE e = c
      BY <1>1, <1>2, <2>2, <3>1 DEF OneHandshake
    <3>2. CASE e # c
      BY <1>1, <1>2, <1>5, <2>2, <3>2 DEF OneHandshake
    <3> QED  BY <3>1, <3>2
  <2> QED  BY <2>1, <2>2 DEF OneHandshake
<1>7. \A p \in Relay, d \in Create, t \in Int : OpenedAt(p, d, t) => OpenedAt(p, d, t)'
  BY <1>1, <1>2, <1>4, OpenedStays DEF CircuitTypeOK
<1> QED  BY <1>1, <1>4, <1>6, <1>7, OpenedKeeps

LEMMA CreatedKeeps ==
  ASSUME CircuitInv, NEW cell \in wire, Created(cell)
  PROVE  CircuitInv'
<1> USE CircuitAssumption
<1> DEFINE c == cell.c
           new == [type |-> "extend", c |-> cell.c, key |-> cell.key, from |-> Client,
                   to |-> Path(cell.c, 1), ts |-> now + skew, hts |-> now + skew]
<1>1. /\ cell.type = "created" /\ building[c].step = "first" /\ wire' = wire \cup {new}
      /\ building' = [building EXCEPT ![c].step = "second"]
      /\ UNCHANGED <<now, skew, state, seen, opened, torn, cleared>>
  BY DEF Created, Send
<1>2. CircuitTypeOK /\ OneHandshake
  BY DEF CircuitInv
<1>3. cell.c \in Circuit /\ cell.key \in Nat
  BY <1>1, <1>2 DEF CircuitTypeOK, Cell
<1>4. new \in Cell
  BY <1>2, <1>3 DEF CircuitTypeOK, Cell, Sender
<1>5. building' \in [Circuit -> Built] /\ building'[c].step = "second"
      /\ \A e \in Circuit \ {c} : building'[e] = building[e]
  <2>1. building[c] \in [step : {"first", "second"}, born : Int]
    BY <1>1, <1>2, <1>3 DEF CircuitTypeOK, Built
  <2>2. [building[c] EXCEPT !.step = "second"] \in Built
        /\ [building[c] EXCEPT !.step = "second"].step = "second"
    BY <2>1 DEF Built
  <2> QED  BY <1>1, <1>2, <1>3, <2>2 DEF CircuitTypeOK
<1>6. CircuitTypeOK'
  BY <1>1, <1>2, <1>4, <1>5 DEF CircuitTypeOK
<1>7. IsExtend(new, c) /\ (\A e : IsExtend(new, e) => e = c) /\ \A e, h : ~IsCreate(new, e, h)
  BY DEF IsCreate, IsExtend
<1> HIDE DEF new, c
<1>8. c \in Circuit
  BY <1>3 DEF c
<1>9. OneHandshake'
  <2>1. ASSUME NEW e \in Circuit
        PROVE  /\ building'[e].step = "none" => \A x \in wire' : ~IsCreate(x, e, 1)
               /\ building'[e].step \in {"none", "first"} => \A x \in wire' : ~IsExtend(x, e)
               /\ \A x, y \in wire' : IsCreate(x, e, 1) /\ IsCreate(y, e, 1) => x.hts = y.hts
               /\ \A x \in wire' : IsCreate(x, e, 2) => \E y \in wire' : IsExtend(y, e) /\ x.hts = y.hts
    BY <1>1, <1>2, <1>5, <1>7, <1>8 DEF OneHandshake
  <2>2. ASSUME NEW e \in Circuit, NEW x \in wire', NEW y \in wire', IsExtend(x, e), IsExtend(y, e)
        PROVE  x.hts = y.hts
    <3>1. CASE e = c
      BY <1>1, <1>2, <2>2, <3>1 DEF OneHandshake
    <3>2. CASE e # c
      BY <1>1, <1>2, <1>7, <2>2, <3>2 DEF OneHandshake
    <3> QED  BY <3>1, <3>2
  <2> QED  BY <2>1, <2>2 DEF OneHandshake
<1>10. \A p \in Relay, d \in Create, t \in Int : OpenedAt(p, d, t) => OpenedAt(p, d, t)'
  BY <1>1, <1>2, <1>6, OpenedStays DEF CircuitTypeOK
<1> QED  BY <1>1, <1>6, <1>9, <1>10, OpenedKeeps

LEMMA ForgetKeeps ==
  ASSUME CircuitInv, NEW c \in Circuit, Forget(c)
  PROVE  CircuitInv'
<1> USE CircuitAssumption
<1> DEFINE new == [type |-> "destroy", c |-> c, to |-> Path(c, 1)]
<1>1. /\ building[c].step \in {"first", "second"} /\ wire' \in {wire, wire \cup {new}}
      /\ building' = [building EXCEPT ![c] = [step |-> "gone"]]
      /\ UNCHANGED <<now, skew, state, seen, opened, torn, cleared>>
  BY DEF Forget, Send
<1>2. CircuitTypeOK /\ OneHandshake
  BY DEF CircuitInv
<1>3. new \in Cell /\ building' \in [Circuit -> Built] /\ building'[c].step = "gone"
      /\ \A e \in Circuit \ {c} : building'[e] = building[e]
  BY <1>1, <1>2 DEF CircuitTypeOK, Cell, Built
<1>4. CircuitTypeOK'
  BY <1>1, <1>2, <1>3 DEF CircuitTypeOK
<1>5. \A e, h : ~IsExtend(new, e) /\ ~IsCreate(new, e, h)
  BY DEF IsCreate, IsExtend
<1> HIDE DEF new
<1>6. OneHandshake'
  <2>1. \A e \in Circuit : \/ building'[e] = building[e]
                           \/ building'[e].step = "gone" /\ building[e].step \in {"first", "second"}
    BY <1>1, <1>3
  <2>2. ASSUME NEW e \in Circuit
        PROVE  /\ building'[e].step = "none" => \A x \in wire' : ~IsCreate(x, e, 1)
               /\ building'[e].step \in {"none", "first"} => \A x \in wire' : ~IsExtend(x, e)
    BY <1>1, <1>2, <1>5, <2>1 DEF OneHandshake
  <2>3. \A x \in wire' : x \in wire \/ \A e, h : ~IsExtend(x, e) /\ ~IsCreate(x, e, h)
    BY <1>1, <1>5
  <2>4. wire \subseteq wire'
    BY <1>1
  <2>5. ASSUME NEW e \in Circuit, NEW x \in wire', NEW y \in wire'
        PROVE  /\ IsCreate(x, e, 1) /\ IsCreate(y, e, 1) => x.hts = y.hts
               /\ IsExtend(x, e) /\ IsExtend(y, e) => x.hts = y.hts
    BY <1>2, <2>3, <2>5 DEF OneHandshake
  <2>6. ASSUME NEW e \in Circuit, NEW x \in wire', IsCreate(x, e, 2)
        PROVE  \E y \in wire' : IsExtend(y, e) /\ x.hts = y.hts
    BY <1>2, <2>3, <2>4, <2>6 DEF OneHandshake
  <2> QED  BY <2>2, <2>5, <2>6 DEF OneHandshake
<1>7. \A p \in Relay, d \in Create, t \in Int : OpenedAt(p, d, t) => OpenedAt(p, d, t)'
  BY <1>1, <1>2, <1>4, OpenedStays DEF CircuitTypeOK
<1> QED  BY <1>1, <1>4, <1>6, <1>7, OpenedKeeps

(* Time passes, and a relay drops what has expired.                         *)
LEMMA TimeKeeps ==
  ASSUME CircuitInv, Tick
  PROVE  CircuitInv'
<1>1. CircuitTypeOK /\ OneHandshake
  BY DEF CircuitInv
<1>2. now' = now + 1 /\ UNCHANGED <<skew, building, state, seen, wire, opened, torn, cleared>>
  BY DEF Tick
<1>3. CircuitTypeOK' /\ OneHandshake'
  BY <1>1, <1>2 DEF CircuitTypeOK, OneHandshake
<1>4. now' \in Int /\ now <= now'
  BY <1>1, <1>2 DEF CircuitTypeOK
<1>5. \A p \in Relay, d \in Create, t \in Int : OpenedAt(p, d, t) => OpenedAt(p, d, t)'
  BY <1>1, <1>2, <1>4, OpenedStays
<1> QED  BY <1>2, <1>3, <1>5, OpenedKeeps

(* Hops may go when they have expired, and change but for their birth.      *)
LEMMA StateKeeps ==
  ASSUME CircuitInv, CircuitTypeOK', OneHandshake', wire \subseteq wire',
         UNCHANGED <<now, seen, opened, cleared>>, torn \subseteq torn',
         \A p \in Relay, c \in Circuit :
            /\ \A s \in state'[p][c] : \E u \in state[p][c] : s.born = u.born
            /\ state'[p][c] = {} /\ state[p][c] # {} =>
                  c \in torn' \/ \E u \in state[p][c] : Expired(u)
  PROVE  CircuitInv'
<1> USE CircuitAssumption
<1>1. CircuitTypeOK
  BY DEF CircuitInv
<1>2. ASSUME NEW p \in Relay, NEW d \in Create, NEW t \in Int, OpenedAt(p, d, t)
      PROVE  OpenedAt(p, d, t)'
  <2>1. d[1] \in Circuit
    BY DEF Create
  <2>2. t <= now' /\ \E x \in wire' : IsCreate(x, d[1], d[2]) /\ x.hts - t <= MaxAge
    BY <1>2 DEF OpenedAt
  <2>3. \A s \in state'[p][d[1]] : t <= s.born
    BY <1>2, <2>1 DEF OpenedAt
  <2>4. d[1] \in torn' \/ state'[p][d[1]] # {} \/ now' - t > Lifetime
    <3>1. ASSUME NEW u \in state[p][d[1]], Expired(u) PROVE now' - t > Lifetime
      <4>1. u.born \in Int /\ t <= u.born /\ now \in Int
        BY <1>1, <1>2, <2>1 DEF CircuitTypeOK, Hop, OpenedAt
      <4>2. now - u.born > Lifetime /\ now' = now
        BY <3>1 DEF Expired
      <4> QED  BY <4>1, <4>2
    <3> QED  BY <1>2, <2>1, <3>1 DEF OpenedAt
  <2>5. p \in cleared' \/ now' - t > MaxAge \/ (d \in DOMAIN seen'[p] /\ t <= seen'[p][d])
    BY <1>2 DEF OpenedAt
  <2> QED  BY <2>2, <2>3, <2>4, <2>5 DEF OpenedAt
<1> QED  BY <1>2, OpenedKeeps

LEMMA CleanUpKeeps ==
  ASSUME CircuitInv, NEW p \in Relay, CleanUp(p)
  PROVE  CircuitInv'
<1>1. CircuitTypeOK /\ OneHandshake
  BY DEF CircuitInv
<1>2. /\ state' = [state EXCEPT ![p] = [c \in Circuit |-> {s \in state[p][c] : ~Expired(s)}]]
      /\ UNCHANGED <<now, skew, building, seen, wire, opened, torn, cleared>>
  BY DEF CleanUp
<1>3. state' \in [Relay -> [Circuit -> SUBSET Hop]]
      /\ \A q \in Relay, c \in Circuit :
            state'[q][c] = IF q = p THEN {s \in state[p][c] : ~Expired(s)} ELSE state[q][c]
  BY <1>1, <1>2 DEF CircuitTypeOK
<1>4. CircuitTypeOK' /\ OneHandshake'
  BY <1>1, <1>2, <1>3 DEF CircuitTypeOK, OneHandshake
<1> QED  BY <1>2, <1>3, <1>4, StateKeeps

(* A relay extends a circuit or destroys it.                                *)
LEMMA ExtendKeeps ==
  ASSUME CircuitInv, NEW cell \in wire, HandleExtend(cell)
  PROVE  CircuitInv'
<1> USE CircuitAssumption
<1>1. CircuitTypeOK /\ OneHandshake
  BY DEF CircuitInv
<1> DEFINE p == cell.to
           c == cell.c
           new == [type |-> "create", c |-> cell.c, hop |-> 2, from |-> cell.to,
                   to |-> Path(cell.c, 2), ts |-> now, hts |-> cell.hts]
<1>2. cell.type = "extend" /\ p \in Relay /\ c \in Circuit /\ cell.hts \in Int
  BY <1>1 DEF HandleExtend, CircuitTypeOK, Cell
<1>3. UNCHANGED <<now, skew, building, seen, opened, torn, cleared>>
  BY DEF HandleExtend
<1>4. PICK s \in state[p][c] :
         \/ Expired(s) /\ state' = [state EXCEPT ![p][c] = {}] /\ wire' = wire
         \/ /\ state' = [state EXCEPT ![p][c] = {[s EXCEPT !.next = {Path(c, 2)}]}]
            /\ wire' = wire \cup {new}
  BY DEF HandleExtend, Send
<1>5. s \in Hop /\ Path(c, 2) \in Relay
  BY <1>1, <1>2 DEF CircuitTypeOK
<1>6. [s EXCEPT !.next = {Path(c, 2)}] \in Hop /\ [s EXCEPT !.next = {Path(c, 2)}].born = s.born
  BY <1>5 DEF Hop
<1>7. new \in Cell
  BY <1>1, <1>2, <1>5 DEF CircuitTypeOK, Cell, Sender
<1>8. new.type = "create" /\ new.hop = 2 /\ new.c \in Circuit
      /\ IsExtend(cell, new.c) /\ new.hts = cell.hts
  BY <1>2 DEF IsExtend
<1> HIDE DEF new
<1>9. OneHandshake' /\ wire' \subseteq Cell /\ wire \subseteq wire'
  <2>1. wire \subseteq wire' /\ \A x \in wire' \ wire : x = new
    BY <1>4
  <2>2. wire' \subseteq Cell
    BY <1>1, <1>7, <2>1 DEF CircuitTypeOK
  <2> QED  BY <1>1, <1>3, <1>8, <2>1, <2>2, HandshakeKeeps
<1>10. CASE Expired(s) /\ state' = [state EXCEPT ![p][c] = {}]
  <2>1. state' \in [Relay -> [Circuit -> SUBSET Hop]] /\ state'[p][c] = {}
        /\ \A q \in Relay, e \in Circuit : q # p \/ e # c => state'[q][e] = state[q][e]
    BY <1>1, <1>2, <1>10 DEF CircuitTypeOK
  <2>2. CircuitTypeOK'
    BY <1>1, <1>3, <1>9, <2>1 DEF CircuitTypeOK
  <2>3. ASSUME NEW q \in Relay, NEW e \in Circuit
        PROVE  /\ \A v \in state'[q][e] : \E u \in state[q][e] : v.born = u.born
               /\ state'[q][e] = {} /\ state[q][e] # {} =>
                     e \in torn' \/ \E u \in state[q][e] : Expired(u)
    BY <1>10, <2>1
  <2> QED  BY <1>3, <1>9, <2>2, <2>3, StateKeeps
<1>11. CASE state' = [state EXCEPT ![p][c] = {[s EXCEPT !.next = {Path(c, 2)}]}]
  <2>1. state' \in [Relay -> [Circuit -> SUBSET Hop]]
        /\ state'[p][c] = {[s EXCEPT !.next = {Path(c, 2)}]}
        /\ \A q \in Relay, e \in Circuit : q # p \/ e # c => state'[q][e] = state[q][e]
    BY <1>1, <1>2, <1>6, <1>11 DEF CircuitTypeOK
  <2>2. CircuitTypeOK'
    BY <1>1, <1>3, <1>9, <2>1 DEF CircuitTypeOK
  <2>3. ASSUME NEW q \in Relay, NEW e \in Circuit
        PROVE  /\ \A v \in state'[q][e] : \E u \in state[q][e] : v.born = u.born
               /\ state'[q][e] = {} /\ state[q][e] # {} =>
                     e \in torn' \/ \E u \in state[q][e] : Expired(u)
    BY <1>6, <2>1
  <2> QED  BY <1>3, <1>9, <2>2, <2>3, StateKeeps
<1> QED  BY <1>4, <1>10, <1>11

LEMMA DestroyKeeps ==
  ASSUME CircuitInv, NEW cell \in wire, HandleDestroy(cell)
  PROVE  CircuitInv'
<1>1. CircuitTypeOK /\ OneHandshake
  BY DEF CircuitInv
<1> DEFINE p == cell.to
           c == cell.c
<1>2. p \in Relay /\ c \in Circuit
  BY <1>1 DEF HandleDestroy, CircuitTypeOK, Cell
<1>3. /\ UNCHANGED <<now, skew, building, seen, opened, cleared>>
      /\ state' = [state EXCEPT ![p][c] = {}] /\ torn' = torn \cup {c}
  BY DEF HandleDestroy
<1>4. PICK s \in state[p][c] :
         wire' = wire \cup {[type |-> "destroy", c |-> c, to |-> n] : n \in s.next}
  BY DEF HandleDestroy
<1>5. s.next \subseteq Relay
  BY <1>1, <1>2 DEF CircuitTypeOK, Hop
<1>6. \A n \in s.next : [type |-> "destroy", c |-> c, to |-> n] \in Cell
  BY <1>2, <1>5 DEF Cell
<1>7. wire \subseteq wire' /\ wire' \subseteq Cell /\ \A x \in wire' \ wire : x.type = "destroy"
  BY <1>1, <1>4, <1>6 DEF CircuitTypeOK
<1>8. OneHandshake'
  BY <1>1, <1>3, <1>7, HandshakeKeeps
<1>9. state' \in [Relay -> [Circuit -> SUBSET Hop]] /\ state'[p][c] = {}
      /\ \A q \in Relay, e \in Circuit : q # p \/ e # c => state'[q][e] = state[q][e]
  BY <1>1, <1>2, <1>3 DEF CircuitTypeOK
<1>10. CircuitTypeOK'
  BY <1>1, <1>3, <1>7, <1>9 DEF CircuitTypeOK
<1>11. ASSUME NEW q \in Relay, NEW e \in Circuit
       PROVE  /\ \A v \in state'[q][e] : \E u \in state[q][e] : v.born = u.born
              /\ state'[q][e] = {} /\ state[q][e] # {} =>
                    e \in torn' \/ \E u \in state[q][e] : Expired(u)
  BY <1>3, <1>9
<1> QED  BY <1>3, <1>7, <1>8, <1>10, <1>11, StateKeeps

(* What the replay cache of a relay remembers after a CREATE d is checked.  *)
LEMMA RecordFacts ==
  ASSUME CircuitTypeOK, NEW p \in Relay, NEW d, Record(p, d), UNCHANGED now
  PROVE  /\ DOMAIN seen' = Relay
         /\ \A q \in Relay : \A e \in DOMAIN seen'[q] : seen'[q][e] \in Int
         /\ cleared \subseteq cleared'
         /\ \A q \in Relay, e \in Create, t \in Int :
               (q \in cleared \/ now - t > MaxAge \/ (e \in DOMAIN seen[q] /\ t <= seen[q][e]))
               => (q \in cleared' \/ now - t > MaxAge \/ (e \in DOMAIN seen'[q] /\ t <= seen'[q][e]))
         /\ d \notin Known(p) => d \in DOMAIN seen'[p] /\ seen'[p][d] = now
         /\ d \notin Known(p) =>
               p \in cleared' \/ d \notin DOMAIN seen[p] \/ now - seen[p][d] > MaxAge
<1> USE CircuitAssumption
<1>1. seen' = [seen EXCEPT ![p] = [x \in Known(p) \cup {d} |->
                  IF x \in Known(p) THEN seen[p][x] ELSE now]]
  BY DEF Record
<1>2. cleared \subseteq cleared' /\ (Overflows(p) => p \in cleared')
  BY DEF Record
<1>3. Known(p) \subseteq DOMAIN seen[p]
  BY DEF Known, Remembered
<1>4. ~Overflows(p) => \A e \in DOMAIN seen[p] : e \in Known(p) \/ now - seen[p][e] > MaxAge
  BY DEF Known, Remembered, CircuitTypeOK
<1>5. DOMAIN seen' = Relay /\ (\A q \in Relay \ {p} : seen'[q] = seen[q])
      /\ DOMAIN seen'[p] = Known(p) \cup {d}
      /\ (\A e \in Known(p) : seen'[p][e] = seen[p][e])
      /\ (d \notin Known(p) => seen'[p][d] = now)
  BY <1>1 DEF CircuitTypeOK
<1>6. \A q \in Relay : \A e \in DOMAIN seen'[q] : seen'[q][e] \in Int
  BY <1>3, <1>5 DEF CircuitTypeOK
<1>7. ASSUME NEW q \in Relay, NEW e \in Create, NEW t \in Int,
             q \in cleared \/ now - t > MaxAge \/ (e \in DOMAIN seen[q] /\ t <= seen[q][e])
      PROVE  q \in cleared' \/ now - t > MaxAge \/ (e \in DOMAIN seen'[q] /\ t <= seen'[q][e])
  <2>1. CASE q # p
    BY <1>2, <1>5, <1>7, <2>1
  <2>2. CASE q = p /\ ~Overflows(p) /\ e \in DOMAIN seen[p] /\ t <= seen[p][e]
    <3>1. CASE e \in Known(p)
      BY <1>5, <2>2, <3>1
    <3>2. CASE e \notin Known(p)
      <4>1. now - seen[p][e] > MaxAge /\ seen[p][e] \in Int /\ now \in Int
        BY <1>4, <2>2, <3>2 DEF CircuitTypeOK
      <4> QED  BY <2>2, <4>1
    <3> QED  BY <3>1, <3>2
  <2> QED  BY <1>2, <1>7, <2>1, <2>2
<1>8. d \notin Known(p) =>
          p \in cleared' \/ d \notin DOMAIN seen[p] \/ now - seen[p][d] > MaxAge
  BY <1>2, <1>4
<1> QED  BY <1>2, <1>5, <1>6, <1>7, <1>8

(* A fresh CREATE that was used before is one of at most twice MaxAge ago.  *)
LEMMA ReplayIsYoung ==
  ASSUME CircuitInv, NEW cell \in wire, cell.type = "create", Fresh(cell.hts),
         NEW p \in Relay, NEW t \in Int, OpenedAt(p, <<cell.c, cell.hop>>, t)
  PROVE  now - t <= Lifetime
<1> USE CircuitAssumption
<1>1. CircuitTypeOK /\ OneHandshake
  BY DEF CircuitInv
<1>2. PICK x \in wire : IsCreate(x, cell.c, cell.hop) /\ x.hts - t <= MaxAge
  BY DEF OpenedAt
<1>3. cell.c \in Circuit /\ cell.hop \in {1, 2} /\ cell.hts \in Int /\ now \in Int
  BY <1>1 DEF CircuitTypeOK, Cell
<1>4. IsCreate(cell, cell.c, cell.hop)
  BY DEF IsCreate
<1>5. x.hts = cell.hts
  <2>1. CASE cell.hop = 1
    BY <1>1, <1>2, <1>3, <1>4, <2>1 DEF OneHandshake
  <2>2. CASE cell.hop = 2
    <3>1. PICK y \in wire : IsExtend(y, cell.c) /\ x.hts = y.hts
      BY <1>1, <1>2, <1>3, <2>2 DEF OneHandshake
    <3>2. PICK z \in wire : IsExtend(z, cell.c) /\ cell.hts = z.hts
      BY <1>1, <1>3, <1>4, <2>2 DEF OneHandshake
    <3> QED  BY <1>1, <1>3, <3>1, <3>2 DEF OneHandshake
  <2> QED  BY <1>3, <2>1, <2>2
<1>6. now - cell.hts <= MaxAge
  BY <1>3 DEF Fresh
<1> QED  BY <1>2, <1>3, <1>5, <1>6

(* A relay handles a CREATE: it opens the circuit or refuses it.            *)
LEMMA CreateKeeps ==
  ASSUME CircuitInv, NEW cell \in wire, HandleCreate(cell)
  PROVE  CircuitInv'
<1> USE CircuitAssumption
<1>1. CircuitTypeOK /\ OneHandshake /\ OpenedKnown /\ OneCircuitPerCreate
  BY DEF CircuitInv
<1> DEFINE p == cell.to
           c == cell.c
           d == <<cell.c, cell.hop>>
<1>2. /\ cell.type = "create" /\ Fresh(cell.hts) /\ Record(p, d)
      /\ UNCHANGED <<now, skew, building, torn>>
  BY DEF HandleCreate
<1>3. p \in Relay /\ c \in Circuit /\ cell.hop \in {1, 2} /\ cell.hts \in Int
      /\ cell.from \in Sender /\ now \in Int
  BY <1>1, <1>2 DEF CircuitTypeOK, Cell
<1>4. d \in Create /\ d[1] = c /\ d[2] = cell.hop
  BY <1>3 DEF Create
<1>5. /\ DOMAIN seen' = Relay
      /\ \A q \in Relay : \A e \in DOMAIN seen'[q] : seen'[q][e] \in Int
      /\ cleared \subseteq cleared'
      /\ \A q \in Relay, e \in Create, t \in Int :
            (q \in cleared \/ now - t > MaxAge \/ (e \in DOMAIN seen[q] /\ t <= seen[q][e]))
            => (q \in cleared' \/ now - t > MaxAge \/ (e \in DOMAIN seen'[q] /\ t <= seen'[q][e]))
      /\ d \notin Known(p) => d \in DOMAIN seen'[p] /\ seen'[p][d] = now
      /\ d \notin Known(p) =>
            p \in cleared' \/ d \notin DOMAIN seen[p] \/ now - seen[p][d] > MaxAge
  BY <1>1, <1>2, <1>3, RecordFacts
<1> HIDE DEF p, c, d
<1>6. CASE ~(d \notin Known(p) /\ Admits(p, c, cell.from))
  <2>1. UNCHANGED <<state, opened, wire>>
    BY <1>6 DEF HandleCreate, p, c, d
  <2>2. CircuitTypeOK' /\ OneHandshake'
    BY <1>1, <1>2, <1>5, <2>1 DEF CircuitTypeOK, OneHandshake
  <2>3. \A q \in Relay, e \in Create, t \in Int : OpenedAt(q, e, t) => OpenedAt(q, e, t)'
    BY <1>2, <1>5, <2>1 DEF OpenedAt
  <2> QED  BY <1>2, <1>5, <2>1, <2>2, <2>3, OpenedKeeps
<1>7. CASE d \notin Known(p) /\ Admits(p, c, cell.from)
  <2> DEFINE old == opened[p][d]
             n == Len(opened[p][d])
             s == [prev |-> cell.from, next |-> {}, born |-> now, key |-> Len(opened'[p][d])]
             new == [type |-> "created", c |-> cell.c, key |-> Len(opened'[p][d])]
  <2>1. /\ opened' = [opened EXCEPT ![p][d] = Append(@, now)]
        /\ state' = [state EXCEPT ![p][c] = {s}]
        /\ wire' \in {wire, wire \cup {new}}
    BY <1>7 DEF HandleCreate, Send, p, c, d
  <2>2. old \in Seq(Int) /\ n \in Nat
    BY <1>1, <1>3, <1>4 DEF CircuitTypeOK
  <2>3. /\ opened' \in [Relay -> [Create -> Seq(Int)]] /\ opened'[p][d] = Append(old, now)
        /\ \A q \in Relay, e \in Create : q # p \/ e # d => opened'[q][e] = opened[q][e]
    <3>1. Append(old, now) \in Seq(Int)
      BY <1>3, <2>2
    <3> QED  BY <1>1, <1>3, <1>4, <2>1, <3>1 DEF CircuitTypeOK
  <2>4. /\ DOMAIN opened'[p][d] = DOMAIN old \cup {n + 1} /\ DOMAIN old = 1..n
        /\ opened'[p][d][n + 1] = now /\ \A i \in DOMAIN old : opened'[p][d][i] = old[i]
    <3>1. /\ Len(Append(old, now)) = n + 1 /\ Append(old, now)[n + 1] = now
          /\ \A i \in 1..n : Append(old, now)[i] = old[i]
      BY <1>3, <2>2
    <3>2. DOMAIN old = 1..n /\ DOMAIN Append(old, now) = 1..(n + 1)
      BY <1>3, <2>2, <3>1
    <3>3. 1..(n + 1) = 1..n \cup {n + 1}
      BY <2>2
    <3> QED  BY <2>3, <3>1, <3>2, <3>3
  <2>5. s \in Hop /\ new \in Cell /\ s.born = now /\ new.type = "created"
    <3>1. Len(opened'[p][d]) \in Nat
      BY <1>3, <1>4, <2>3
    <3>2. cell.c \in Circuit
      BY <1>3 DEF c
    <3> QED  BY <1>3, <3>1, <3>2 DEF Hop, Cell
  <2> HIDE DEF s, new, old, n
  <2>6. state' \in [Relay -> [Circuit -> SUBSET Hop]] /\ state'[p][c] = {s}
        /\ \A q \in Relay, e \in Circuit : q # p \/ e # c => state'[q][e] = state[q][e]
    BY <1>1, <1>3, <2>1, <2>5 DEF CircuitTypeOK
  <2>7. wire \subseteq wire' /\ wire' \subseteq Cell /\ \A x \in wire' \ wire : x.type = "created"
    BY <1>1, <2>1, <2>5 DEF CircuitTypeOK
  <2>8. CircuitTypeOK' /\ OneHandshake'
    <3>1. OneHandshake'
      BY <1>1, <1>2, <2>7, HandshakeKeeps
    <3> QED  BY <1>1, <1>2, <1>5, <2>3, <2>6, <2>7, <3>1 DEF CircuitTypeOK
  <2>9. ASSUME NEW q \in Relay, NEW e \in Create, NEW t \in Int, OpenedAt(q, e, t)
        PROVE  OpenedAt(q, e, t)'
    <3>1. e[1] \in Circuit
      BY DEF Create
    <3>2. t <= now' /\ \E x \in wire' : IsCreate(x, e[1], e[2]) /\ x.hts - t <= MaxAge
      BY <1>2, <2>7, <2>9 DEF OpenedAt
    <3>3. e[1] \in torn' \/ state'[q][e[1]] # {} \/ now' - t > Lifetime
      BY <1>2, <2>6, <2>9, <3>1 DEF OpenedAt
    <3>4. \A u \in state'[q][e[1]] : t <= u.born
      BY <2>5, <2>6, <2>9, <3>1 DEF OpenedAt
    <3>5. q \in cleared' \/ now' - t > MaxAge \/ (e \in DOMAIN seen'[q] /\ t <= seen'[q][e])
      BY <1>2, <1>5, <2>9 DEF OpenedAt
    <3> QED  BY <3>2, <3>3, <3>4, <3>5 DEF OpenedAt
  <2>10. ASSUME NEW t, t = now PROVE OpenedAt(p, d, t)'
    <3>1. IsCreate(cell, d[1], d[2]) /\ cell \in wire' /\ cell.hts - now <= MaxAge
      BY <1>2, <1>3, <1>4, <2>7 DEF IsCreate, Fresh, c
    <3>2. now' = now /\ now <= now /\ state'[p][d[1]] = {s} /\ s.born = now
      BY <1>2, <1>3, <1>4, <2>5, <2>6
    <3>3. d \in DOMAIN seen'[p] /\ now <= seen'[p][d]
      BY <1>3, <1>5, <1>7
    <3> QED  BY <2>10, <3>1, <3>2, <3>3 DEF OpenedAt
  <2>11. OpenedKnown'
    <3>1. ASSUME NEW q \in Relay, NEW e \in Create, NEW i \in DOMAIN opened'[q][e],
                 NEW t, t = opened'[q][e][i]
          PROVE  OpenedAt(q, e, t)'
      <4>1. CASE q # p \/ e # d
        <5>1. i \in DOMAIN opened[q][e] /\ t = opened[q][e][i]
          BY <2>3, <3>1, <4>1
        <5>2. opened[q][e] \in Seq(Int)
          BY <1>1 DEF CircuitTypeOK
        <5>3. t \in Int
          BY <5>1, <5>2
        <5>4. OpenedAt(q, e, t)
          BY <1>1, <5>1 DEF OpenedKnown
        <5> QED  BY <2>9, <5>3, <5>4
      <4>2. CASE q = p /\ e = d /\ i = n + 1
        BY <2>4, <2>10, <3>1, <4>2
      <4>3. CASE q = p /\ e = d /\ i \in DOMAIN old
        <5>1. t = old[i] /\ t \in Int
          BY <2>2, <2>4, <3>1, <4>3
        <5>2. OpenedAt(q, e, t)
          BY <1>1, <1>3, <1>4, <4>3, <5>1 DEF OpenedKnown, old
        <5> QED  BY <2>9, <5>1, <5>2
      <4> QED  BY <2>4, <3>1, <4>1, <4>2, <4>3
    <3> QED  BY <3>1 DEF OpenedKnown
  <2>12. ASSUME NEW i \in DOMAIN old
         PROVE  c \in torn /\ (now - old[i] > MaxAge \/ p \in cleared')
    <3>1. OpenedAt(p, d, old[i]) /\ old[i] \in Int
      BY <1>1, <1>3, <1>4, <2>2, <2>12 DEF OpenedKnown, old
    <3>2. now - old[i] <= Lifetime
      BY <1>2, <1>3, <3>1, ReplayIsYoung DEF d
    <3>3. state[p][c] = {}
      BY <1>3, <1>7 DEF Admits, Open
    <3>4. c \in torn
      BY <1>1, <1>3, <1>4, <3>1, <3>2, <3>3 DEF OpenedAt, CircuitTypeOK
    <3>5. now - old[i] > MaxAge \/ p \in cleared'
      <4>1. CASE d \in DOMAIN seen[p] /\ old[i] <= seen[p][d] /\ now - seen[p][d] > MaxAge
        BY <1>1, <1>3, <3>1, <4>1 DEF CircuitTypeOK
      <4> QED  BY <1>5, <1>7, <3>1, <4>1 DEF OpenedAt
    <3> QED  BY <3>4, <3>5
  <2>13. OneCircuitPerCreate'
    <3>1. ASSUME NEW q \in Relay, NEW e \in Create,
                 NEW i \in DOMAIN opened'[q][e], NEW j \in DOMAIN opened'[q][e], i < j
          PROVE  e[1] \in torn'
                 /\ (opened'[q][e][j] - opened'[q][e][i] > MaxAge \/ q \in cleared')
      <4>1. CASE q # p \/ e # d
        BY <1>1, <1>2, <1>5, <2>3, <3>1, <4>1 DEF OneCircuitPerCreate
      <4>2. CASE q = p /\ e = d /\ j = n + 1
        <5>1. i \in DOMAIN old
          <6>1. i \in 1..n \cup {n + 1} /\ i < n + 1
            BY <2>4, <3>1, <4>2
          <6> QED  BY <2>2, <2>4, <6>1
        <5> QED  BY <1>2, <1>4, <2>4, <2>12, <4>2, <5>1
      <4>3. CASE q = p /\ e = d /\ j # n + 1
        <5>1. i \in DOMAIN old /\ j \in DOMAIN old
          <6>1. i \in 1..n \cup {n + 1} /\ j \in 1..n /\ i < j
            BY <2>4, <3>1, <4>3
          <6> QED  BY <2>2, <2>4, <6>1
        <5>2. d[1] \in torn /\ (old[j] - old[i] > MaxAge \/ p \in cleared)
          BY <1>1, <1>3, <1>4, <3>1, <5>1 DEF OneCircuitPerCreate, old
        <5> QED  BY <1>2, <1>5, <2>4, <4>3, <5>1, <5>2
      <4> QED  BY <4>1, <4>2, <4>3
    <3> QED  BY <3>1 DEF OneCircuitPerCreate
  <2> QED  BY <2>8, <2>11, <2>13 DEF CircuitInv
<1> QED  BY <1>6, <1>7

LEMMA CircuitsKeep == CircuitInv /\ [ZNext]_zvars => CircuitInv'
<1> SUFFICES ASSUME CircuitInv, [ZNext]_zvars PROVE CircuitInv'
  OBVIOUS
<1>1. CASE UNCHANGED zvars
  BY <1>1 DEF zvars, CircuitInv, CircuitTypeOK, OneHandshake, OpenedKnown, OpenedAt,
              OneCircuitPerCreate
<1> QED  BY <1>1, BuildKeeps, CreatedKeeps, ForgetKeeps, CreateKeeps, ExtendKeeps, DestroyKeeps,
            CleanUpKeeps, TimeKeeps DEF ZNext, ProcessCell

(* OneCircuitPerCreate is an invariant: for any relays, circuits, limits    *)
(* and size of the replay cache, if circuits live twice as long as cells.   *)
THEOREM CreatesOpenOnce == ZSpec => []OneCircuitPerCreate
<1>1. CircuitInv => OneCircuitPerCreate
  BY DEF CircuitInv
<1> QED  BY <1>1, CircuitsStart, CircuitsKeep, PTL DEF ZSpec

----------------------------------------------------------------------------
(* Relay cells.  Only gateways build circuits, so what a relay passes on    *)
(* goes to a gateway, whose acknowledgement every relay takes for one.      *)

\* What a cell is for, and how far it has come.
CellFormed(m) ==
    \/ m.purpose = "build" /\ m.cell = "create" /\ m.passes = 0 /\ m.from \in Gateway
    \/ m.purpose = "none" /\ m.cell = "extend" /\ m.passes = 0 /\ m.from \in Gateway
    \/ m.purpose = "forward" /\ m.cell = "create" /\ m.passes = 0 /\ m.back \in Gateway
    \/ m.purpose = "forward" /\ m.cell = "created" /\ m.passes = 1 /\ m.to \in Gateway

\* A CREATE is answered by a CREATED or an error, what is passed on by an
\* empty acknowledgement or an error.
AnswerFormed(x) ==
    /\ CellFormed(x[1])
    /\ x[1].cell = "create" => x[2] \in {"created", "error"}
    /\ x[1].cell = "created" => x[2] \in {"empty", "error"}

CellsInv == (\A m \in cells : CellFormed(m)) /\ (\A x \in answers : AnswerFormed(x))

(* A gateway and a node send and answer well-formed cells only.             *)
LEMMA CellsKeep == CellsInv /\ [RNext]_rvars => CellsInv'
<1> SUFFICES ASSUME CellsInv, [RNext]_rvars PROVE CellsInv'
  OBVIOUS
<1>1. ASSUME NEW g \in Gateway, StartBuild(g) PROVE CellsInv'
  BY <1>1, CellAssumption DEF StartBuild, RelayCell, CellsInv, CellFormed, AnswerFormed
<1>2. ASSUME NEW m \in cells, NEW answer, Answered(m, answer), AnswerFormed(<<m, answer>>)
      PROVE  CellsInv'
  BY <1>2 DEF Answered, CellsInv, AnswerFormed, CellFormed
<1>3. ASSUME NEW m \in cells, Refuse(m) \/ CreateCell(m) \/ Drop(m) PROVE CellsInv'
  <2>1. CellFormed(m)
    BY DEF CellsInv
  <2>2. CASE Refuse(m)
    BY <1>2, <2>1, <2>2 DEF Refuse, AnswerFormed
  <2>3. CASE CreateCell(m)
    BY <1>2, <2>1, <2>3 DEF CreateCell, AnswerFormed
  <2>4. CASE Drop(m)
    <3>1. m.cell = "created" => Ack(m.to) = "empty"
      BY <2>1 DEF CellFormed, Ack
    <3>2. m.cell # "create" /\ Answered(m, Ack(m.to))
      BY <2>4 DEF Drop
    <3>3. AnswerFormed(<<m, Ack(m.to)>>)
      BY <2>1, <3>1, <3>2 DEF AnswerFormed
    <3> QED  BY <1>2, <3>2, <3>3
  <2> QED  BY <1>3, <2>2, <2>3, <2>4
<1>4. ASSUME NEW m \in cells, Extend(m) PROVE CellsInv'
  <2>1. CellFormed(m) /\ m.cell = "extend" /\ m.from \in Gateway
    BY <1>4 DEF CellsInv, CellFormed, Extend
  <2>2. PICK next : cells' = (cells \ {m}) \cup
                         {RelayCell(m.c, m.to, next, "create", "forward", m.from, 0)}
    BY <1>4 DEF Extend
  <2>3. CellFormed(RelayCell(m.c, m.to, next, "create", "forward", m.from, 0))
    BY <2>1 DEF CellFormed, RelayCell
  <2>4. AnswerFormed(<<m, Ack(m.to)>>) /\ answers' = answers \cup {<<m, Ack(m.to)>>}
    BY <1>4, <2>1 DEF AnswerFormed, Extend
  <2> QED  BY <2>2, <2>3, <2>4 DEF CellsInv
<1>5. ASSUME NEW x \in answers, HandleAnswer(x[1], x[2]) PROVE CellsInv'
  <2>1. <<x[1], x[2]>> \in answers /\ answers' \subseteq answers
    BY <1>5 DEF HandleAnswer
  <2> DEFINE m == x[1]  answer == x[2]
  <2>2. AnswerFormed(<<m, answer>>) /\ CellFormed(m)
    BY <2>1 DEF CellsInv, AnswerFormed
  <2>3. CASE GoOn(m, answer)
    <3>1. CellFormed(RelayCell(m.c, m.from, m.to, "extend", "none", m.from, 0))
      BY <2>2, <2>3 DEF GoOn, CellFormed, RelayCell
    <3> QED  BY <2>1, <2>3, <3>1 DEF GoOn, CellsInv
  <2>4. CASE PassOn(m, answer)
    <3>1. m.purpose = "forward" /\ answer # "error" /\ answer # "empty"
      BY <2>4 DEF PassOn, IsAck
    <3>2. answer = "created" /\ m.passes = 0 /\ m.back \in Gateway
      BY <2>2, <3>1 DEF AnswerFormed, CellFormed
    <3>3. CellFormed(RelayCell(m.c, m.from, m.back, answer, "forward", m.back, m.passes + 1))
      BY <3>2 DEF CellFormed, RelayCell
    <3> QED  BY <2>1, <2>4, <3>3 DEF PassOn, CellsInv
  <2>5. CASE Ignore(m, answer)
    BY <2>1, <2>5 DEF Ignore, CellsInv
  <2> QED  BY <1>5, <2>3, <2>4, <2>5 DEF HandleAnswer
<1>6. ASSUME cells' \subseteq cells, answers' \subseteq answers PROVE CellsInv'
  BY <1>6 DEF CellsInv
<1>7. CASE UNCHANGED rvars
  BY <1>6, <1>7 DEF rvars
<1>8. ASSUME NEW m \in cells, Lost(m) PROVE CellsInv'
  BY <1>6, <1>8 DEF Lost
<1>9. ASSUME NEW x \in answers, LostAnswer(x[1], x[2]) PROVE CellsInv'
  BY <1>6, <1>9 DEF LostAnswer
<1> QED  BY <1>1, <1>3, <1>4, <1>5, <1>7, <1>8, <1>9 DEF RNext

(* ChainsEnd is an invariant: what answers a relayed cell is passed on once *)
(* at most, for any gateways and nodes, of which any relay cells.           *)
THEOREM ChainsAreShort == RSpec => []ChainsEnd
<1>1. RInit => CellsInv
  BY DEF RInit, CellsInv
<1>2. CellsInv => ChainsEnd
  BY DEF CellsInv, CellFormed, ChainsEnd
<1> QED  BY <1>1, <1>2, CellsKeep, PTL DEF RSpec

----------------------------------------------------------------------------
(* The WebRTC bridge.  An accepted session is counted later, so the limit   *)
(* is kept by those that were accepted while no other was to be counted;    *)
(* and the loop knows the sessions of its own connection to the server.     *)

CountedSteps == {"setup", "answer", "channel", "opening", "serving", "close", "uncount"}

BridgeTypeOK ==
    /\ session \in [Offers -> CountedSteps \cup {"none", "spawned", "remove", "over"}]
    /\ home \in [Offers -> Nat] /\ rushed \subseteq Offers
    /\ uplink \in Nat /\ uplinks \in Nat /\ uplink <= uplinks
    /\ \A o \in Offers : home[o] <= uplinks
    /\ active \in SUBSET Offers /\ blocked \in Offers \cup {NoOffer} /\ browsers \in Nat
    /\ outgoing \in 0..OutRoom /\ incoming \in [Offers -> 0..InRoom]

\* The sessions that are counted, or are to be.
Accepted == At({"spawned"}) \cup Counted

WithinLimit ==
    /\ browsers = Cardinality(Counted)
    /\ Cardinality(Accepted \ rushed) <= MaxConnections

LoopKnows == \A o \in Accepted : Linked(o) => o \in active

BridgeInv == BridgeTypeOK /\ WithinLimit /\ LoopKnows

(* There are finitely many sessions of any kind.                            *)
LEMMA FiniteSessions ==
  ASSUME NEW S \in SUBSET Offers
  PROVE  IsFiniteSet(S) /\ Cardinality(S) \in Nat
BY BridgeAssumption, FS_Subset, FS_CardinalityType

LEMMA BridgeStarts == BridgeInit => BridgeInv
<1> SUFFICES ASSUME BridgeInit PROVE BridgeInv
  OBVIOUS
<1>1. BridgeTypeOK
  BY BridgeAssumption DEF BridgeInit, BridgeTypeOK, Zero
<1>2. Counted = {} /\ Accepted = {} /\ rushed = {}
  BY DEF BridgeInit, Counted, Accepted, At
<1> QED  BY <1>1, <1>2, FS_EmptySet, BridgeAssumption
            DEF BridgeInv, WithinLimit, LoopKnows, BridgeInit

(* What a step leaves under which as many are accepted and counted.         *)
LEMMA SameSessions ==
  ASSUME BridgeInv, BridgeTypeOK', UNCHANGED browsers, Counted' = Counted,
         Accepted' = Accepted, rushed \subseteq rushed', LoopKnows'
  PROVE  BridgeInv'
<1>1. Accepted' \ rushed' \subseteq Accepted \ rushed /\ Accepted \subseteq Offers
  BY DEF Accepted, Counted, At
<1>2. Cardinality(Accepted' \ rushed') <= Cardinality(Accepted \ rushed)
  BY <1>1, FS_Subset, FiniteSessions
<1>3. Cardinality(Accepted' \ rushed') \in Nat /\ Cardinality(Accepted \ rushed) \in Nat
  BY <1>1, FiniteSessions
<1> QED  BY <1>2, <1>3, BridgeAssumption DEF BridgeInv, WithinLimit

(* The steps of the loop that leave the sessions as they are.               *)
LEMMA LoopKeeps ==
  ASSUME BridgeInv,
         \/ Connect \/ Lose \/ Shutdown \/ Flush \/ UNCHANGED bridgeVars
         \/ \E o \in Offers : \/ Candidate(o) \/ HandOn(o) \/ Gather(o) \/ RelayCandidate(o)
                              \/ RelayEnd(o)
  PROVE  BridgeInv'
<1> USE BridgeAssumption
<1>1. UNCHANGED <<session, home, browsers, rushed>>
  BY DEF Connect, Lose, Shutdown, Flush, Candidate, HandOn, Gather, RelayCandidate, RelayEnd,
         taskVars, bridgeVars
<1>2. uplink' \in Nat /\ uplinks' \in Nat /\ uplinks <= uplinks' /\ uplink' <= uplinks'
      /\ active' \in SUBSET Offers /\ blocked' \in Offers \cup {NoOffer}
  BY DEF Connect, Lose, Shutdown, Flush, Candidate, HandOn, Gather, RelayCandidate, RelayEnd,
         loopVars, bridgeVars, DropUplink, BridgeInv, BridgeTypeOK
<1>3. outgoing' \in 0..OutRoom
  BY DEF Connect, Lose, Shutdown, Flush, Candidate, HandOn, Gather, RelayCandidate, RelayEnd,
         bridgeVars, DropUplink, BridgeInv, BridgeTypeOK
<1>4. incoming' \in [Offers -> 0..InRoom]
  <2>1. CASE UNCHANGED incoming
    BY <2>1 DEF BridgeInv, BridgeTypeOK
  <2>2. CASE \E o \in Offers : HandOn(o)
    BY <2>2 DEF HandOn, BridgeInv, BridgeTypeOK
  <2>3. CASE \E o \in Offers : RelayCandidate(o)
    BY <2>3 DEF RelayCandidate, BridgeInv, BridgeTypeOK
  <2> QED  BY <2>1, <2>2, <2>3
           DEF Connect, Lose, Shutdown, Flush, Candidate, Gather, RelayEnd, bridgeVars
<1>5. BridgeTypeOK'
  BY <1>1, <1>2, <1>3, <1>4 DEF BridgeInv, BridgeTypeOK
<1>6. Counted' = Counted /\ Accepted' = Accepted
  BY <1>1 DEF Counted, Accepted, At
<1>7. \A o \in Offers : Linked(o)' => Linked(o) /\ active' = active
  <2>1. CASE Connect
    BY <1>1, <2>1 DEF Connect, Linked, BridgeInv, BridgeTypeOK
  <2>2. CASE Lose \/ Shutdown
    BY <2>2 DEF Lose, Shutdown, DropUplink, Linked
  <2>3. CASE UNCHANGED <<uplink, active>>
    BY <1>1, <2>3 DEF Linked
  <2> QED  BY <2>1, <2>2, <2>3
           DEF Flush, Candidate, HandOn, Gather, RelayCandidate, RelayEnd, loopVars, bridgeVars
<1>8. LoopKnows'
  BY <1>6, <1>7 DEF LoopKnows, BridgeInv, Accepted, At, Counted
<1> QED  BY <1>1, <1>5, <1>6, <1>8, SameSessions

(* A session goes from one step to the next.                                *)
LEMMA Moved ==
  ASSUME BridgeTypeOK, NEW o \in Offers,
         NEW s \in CountedSteps \cup {"spawned", "remove", "over"}, Proceed(o, s)
  PROVE  /\ session' \in [Offers -> CountedSteps \cup {"none", "spawned", "remove", "over"}]
         /\ Counted' = IF s \in CountedSteps THEN Counted \cup {o} ELSE Counted \ {o}
         /\ Accepted' = IF s \in CountedSteps \cup {"spawned"}
                        THEN Accepted \cup {o} ELSE Accepted \ {o}
         /\ o \in Counted <=> session[o] \in CountedSteps
         /\ o \in Accepted <=> session[o] \in CountedSteps \cup {"spawned"}
<1>1. session' = [session EXCEPT ![o] = s]
  BY DEF Proceed
<1>2. session' \in [Offers -> CountedSteps \cup {"none", "spawned", "remove", "over"}]
  BY <1>1 DEF BridgeTypeOK
<1>3. session'[o] = s /\ \A q \in Offers \ {o} : session'[q] = session[q]
  BY <1>1 DEF BridgeTypeOK
<1>4. Counted' = { q \in Offers : session'[q] \in CountedSteps }
      /\ Counted = { q \in Offers : session[q] \in CountedSteps }
  BY DEF Counted, At, CountedSteps
<1>5. Accepted' = { q \in Offers : session'[q] \in CountedSteps \cup {"spawned"} }
      /\ Accepted = { q \in Offers : session[q] \in CountedSteps \cup {"spawned"} }
  BY <1>4 DEF Accepted, At
<1> QED  BY <1>2, <1>3, <1>4, <1>5

(* An offer is refused, or accepted within the limit or in a rush.          *)
LEMMA ReceiveKeeps ==
  ASSUME BridgeInv, NEW o \in Offers, Receive(o)
  PROVE  BridgeInv'
<1> USE BridgeAssumption
<1>1. session[o] = "none" /\ uplink # 0 /\ UNCHANGED <<uplink, uplinks, blocked, outgoing, browsers,
                                                       incoming>>
  BY DEF Receive, Reading
<1>2. "none" \notin CountedSteps \cup {"spawned"} /\ "over" \notin CountedSteps
      /\ "spawned" \notin CountedSteps
  BY DEF CountedSteps
<1>3. CASE Proceed(o, "over") /\ UNCHANGED <<active, home, rushed>>
  <2>0. /\ session' \in [Offers -> CountedSteps \cup {"none", "spawned", "remove", "over"}]
        /\ Counted' = Counted /\ Accepted' = Accepted
    BY <1>1, <1>2, <1>3, Moved DEF BridgeInv
  <2>1. BridgeTypeOK' /\ Counted' = Counted /\ Accepted' = Accepted
    BY <1>1, <1>3, <2>0 DEF BridgeInv, BridgeTypeOK
  <2>2. LoopKnows'
    BY <1>1, <1>3, <2>1 DEF BridgeInv, LoopKnows, Linked
  <2> QED  BY <1>1, <1>3, <2>1, <2>2, SameSessions
<1>4. CASE browsers < MaxConnections /\ Accept(o)
  <2>1. Proceed(o, "spawned") /\ active' = active \cup {o}
        /\ home' = [home EXCEPT ![o] = uplink]
        /\ rushed' = IF At({"spawned"}) # {} THEN rushed \cup {o} ELSE rushed
    BY <1>4 DEF Accept
  <2>2. /\ session' \in [Offers -> CountedSteps \cup {"none", "spawned", "remove", "over"}]
        /\ Counted' = Counted /\ Accepted' = Accepted \cup {o}
    BY <1>1, <1>2, <2>1, Moved DEF BridgeInv
  <2>3. BridgeTypeOK'
    BY <1>1, <2>1, <2>2 DEF BridgeInv, BridgeTypeOK
  <2>4. LoopKnows'
    BY <1>1, <2>1, <2>2 DEF BridgeInv, BridgeTypeOK, LoopKnows, Linked
  <2>5. Cardinality(Accepted' \ rushed') <= MaxConnections
    <3>1. Accepted \subseteq Offers
      BY DEF Accepted, Counted, At
    <3>2. CASE At({"spawned"}) # {}
      <4>1. Accepted' \ rushed' \subseteq Accepted \ rushed
        BY <2>1, <2>2, <3>2
      <4>2. Cardinality(Accepted' \ rushed') <= Cardinality(Accepted \ rushed)
        BY <3>1, <4>1, FS_Subset, FiniteSessions
      <4>3. Cardinality(Accepted' \ rushed') \in Nat /\ Cardinality(Accepted \ rushed) \in Nat
        BY <3>1, <4>1, FiniteSessions
      <4> QED  BY <4>2, <4>3 DEF BridgeInv, WithinLimit
    <3>3. CASE At({"spawned"}) = {}
      <4>1. Accepted = Counted /\ Counted \subseteq Offers
        BY <3>3 DEF Accepted, Counted, At
      <4>2. Accepted' \ rushed' \subseteq Counted \cup {o} /\ Counted \cup {o} \subseteq Offers
        BY <2>2, <4>1
      <4>3. Cardinality(Accepted' \ rushed') <= Cardinality(Counted \cup {o})
        BY <4>2, FS_Subset, FiniteSessions
      <4>4. Cardinality(Counted \cup {o}) <= Cardinality(Counted) + 1
            /\ Cardinality(Counted) = browsers
        BY <4>1, FS_AddElement, FiniteSessions DEF BridgeInv, WithinLimit
      <4>5. /\ Cardinality(Accepted' \ rushed') \in Nat /\ Cardinality(Counted \cup {o}) \in Nat
            /\ Cardinality(Counted) \in Nat
        BY <4>1, <4>2, FiniteSessions
      <4> QED  BY <1>4, <4>3, <4>4, <4>5
    <3> QED  BY <3>2, <3>3
  <2> QED  BY <1>1, <2>2, <2>3, <2>4, <2>5 DEF BridgeInv, WithinLimit
<1> QED  BY <1>3, <1>4 DEF Receive

(* A task goes on within the steps of a counted session, or after its last. *)
LEMMA TaskKeeps ==
  ASSUME BridgeInv, NEW o \in Offers,
         \/ Setup(o) \/ SendAnswer(o) \/ Channel(o) \/ OpenChannel(o) \/ Leave(o) \/ Close(o)
         \/ Unlist(o)
  PROVE  BridgeInv'
<1> USE BridgeAssumption
<1>1. /\ UNCHANGED <<uplink, uplinks, blocked, browsers, home, incoming, rushed>>
      /\ outgoing' \in 0..OutRoom
  BY DEF Setup, SendAnswer, Channel, OpenChannel, Leave, Close, Unlist, loopVars,
         BridgeInv, BridgeTypeOK
<1>2. CASE Unlist(o)
  <2>1. session[o] = "remove" /\ Proceed(o, "over")
    BY <1>2 DEF Unlist
  <2>2. /\ session' \in [Offers -> CountedSteps \cup {"none", "spawned", "remove", "over"}]
        /\ Counted' = Counted /\ Accepted' = Accepted /\ o \notin Accepted
    BY <2>1, Moved DEF BridgeInv, CountedSteps
  <2>3. active' \subseteq active /\ active \subseteq active' \cup {o}
    BY <1>2 DEF Unlist
  <2>4. BridgeTypeOK' /\ LoopKnows'
    BY <1>1, <2>2, <2>3 DEF BridgeInv, BridgeTypeOK, LoopKnows, Linked
  <2> QED  BY <1>1, <2>2, <2>4, SameSessions
<1>3. CASE ~Unlist(o)
  <2>1. session[o] \in CountedSteps /\ (\E s \in CountedSteps : Proceed(o, s)) /\ active' = active
    BY <1>3 DEF Setup, SendAnswer, Channel, OpenChannel, Leave, Close, CountedSteps, loopVars
  <2>2. /\ session' \in [Offers -> CountedSteps \cup {"none", "spawned", "remove", "over"}]
        /\ Counted' = Counted /\ Accepted' = Accepted
    BY <2>1, Moved DEF BridgeInv
  <2>3. BridgeTypeOK' /\ LoopKnows'
    BY <1>1, <2>1, <2>2 DEF BridgeInv, BridgeTypeOK, LoopKnows, Linked
  <2> QED  BY <1>1, <2>2, <2>3, SameSessions
<1> QED  BY <1>2, <1>3

(* The count goes up and down with the sessions.                            *)
LEMMA CountKeeps ==
  ASSUME BridgeInv, NEW o \in Offers, Count(o) \/ Uncount(o)
  PROVE  BridgeInv'
<1> USE BridgeAssumption
<1>1. UNCHANGED <<uplink, uplinks, blocked, active, outgoing, home, incoming, rushed>>
  BY DEF Count, Uncount, loopVars
<1>2. /\ Counted \subseteq Offers /\ Accepted \subseteq Offers
      /\ IsFiniteSet(Counted) /\ Cardinality(Counted) \in Nat /\ browsers = Cardinality(Counted)
  BY FiniteSessions DEF Accepted, Counted, At, BridgeInv, WithinLimit
<1>3. /\ session' \in [Offers -> CountedSteps \cup {"none", "spawned", "remove", "over"}]
      /\ browsers' = Cardinality(Counted') /\ browsers' \in Nat /\ Accepted' \subseteq Accepted
  <2>1. CASE Count(o)
    <3>1. session[o] = "spawned" /\ Proceed(o, "setup") /\ browsers' = browsers + 1
      BY <2>1 DEF Count
    <3>2. /\ session' \in [Offers -> CountedSteps \cup {"none", "spawned", "remove", "over"}]
          /\ o \notin Counted /\ Counted' = Counted \cup {o} /\ Accepted' = Accepted
      BY <3>1, Moved DEF BridgeInv, CountedSteps
    <3>3. Cardinality(Counted') = Cardinality(Counted) + 1
      BY <1>2, <3>2, FS_AddElement
    <3> QED  BY <1>2, <3>1, <3>2, <3>3
  <2>2. CASE Uncount(o)
    <3>1. session[o] = "uncount" /\ Proceed(o, "remove")
          /\ browsers' = IF browsers > 0 THEN browsers - 1 ELSE 0
      BY <2>2 DEF Uncount
    <3>2. /\ session' \in [Offers -> CountedSteps \cup {"none", "spawned", "remove", "over"}]
          /\ o \in Counted /\ Counted' = Counted \ {o} /\ Accepted' = Accepted \ {o}
      BY <3>1, Moved DEF BridgeInv, CountedSteps
    <3>3. Cardinality(Counted') = Cardinality(Counted) - 1 /\ Cardinality(Counted') \in Nat
      BY <1>2, <3>2, FS_RemoveElement, FiniteSessions
    <3> QED  BY <1>2, <3>1, <3>2, <3>3
  <2> QED  BY <2>1, <2>2
<1>4. BridgeTypeOK' /\ LoopKnows'
  BY <1>1, <1>3 DEF BridgeInv, BridgeTypeOK, LoopKnows, Linked
<1>5. Cardinality(Accepted' \ rushed') <= Cardinality(Accepted \ rushed)
  BY <1>1, <1>2, <1>3, FS_Subset, FiniteSessions
<1>6. Cardinality(Accepted' \ rushed') \in Nat /\ Cardinality(Accepted \ rushed) \in Nat
  BY <1>2, <1>3, FiniteSessions
<1> QED  BY <1>3, <1>4, <1>5, <1>6 DEF BridgeInv, WithinLimit

LEMMA BridgeKeeps == BridgeInv /\ [BridgeNext]_bridgeVars => BridgeInv'
BY LoopKeeps, ReceiveKeeps, TaskKeeps, CountKeeps DEF BridgeNext, Progress

(* Where nothing can go on, the loop waits in the Circle, or nobody waits.  *)
LEMMA RestsWell ==
  ASSUME BridgeTypeOK, ~CanProgress
  PROVE  Circle \/ At({"none", "serving", "over"}) = Offers
<1> USE BridgeAssumption
<1>1. ASSUME NEW o \in Offers, session[o] = "answer"
      PROVE  Linked(o) /\ outgoing = OutRoom /\ blocked # NoOffer
  <2>1. Linked(o) /\ ~(outgoing < OutRoom)
    BY <1>1 DEF CanProgress
  <2>2. outgoing = OutRoom /\ outgoing > 0
    BY <2>1 DEF BridgeTypeOK
  <2> QED  BY <2>1, <2>2 DEF CanProgress, Reading, Linked
<1>2. CASE blocked # NoOffer
  <2>1. blocked \in Offers /\ Heard(blocked) /\ ~(incoming[blocked] < InRoom)
    BY <1>2 DEF CanProgress, BridgeTypeOK
  <2>2. incoming[blocked] = InRoom /\ incoming[blocked] > 0
    BY <2>1 DEF BridgeTypeOK
  <2>3. session[blocked] = "answer"
    BY <2>1, <2>2 DEF CanProgress, Heard
  <2> QED  BY <1>1, <1>2, <2>1, <2>2, <2>3 DEF Circle
<1>3. CASE blocked = NoOffer
  <2>1. \A o \in Offers : session[o] \in {"none", "serving", "over"}
    BY <1>1, <1>3 DEF CanProgress, BridgeTypeOK, CountedSteps
  <2> QED  BY <2>1 DEF At
<1> QED  BY <1>2, <1>3

(* BridgeHolds is an invariant: for any number of browsers, any limit and   *)
(* any room in the channels.                                                *)
THEOREM BridgeIsKept == BridgeSpec => []BridgeHolds
<1>1. BridgeInv => BridgeHolds
  <2> SUFFICES ASSUME BridgeInv PROVE BridgeHolds
    OBVIOUS
  <2>1. Counted \ rushed \subseteq Accepted \ rushed /\ Accepted \subseteq Offers
    BY DEF Accepted, Counted, At
  <2>2. Cardinality(Counted \ rushed) <= Cardinality(Accepted \ rushed)
    BY <2>1, FS_Subset, FiniteSessions
  <2>3. Cardinality(Counted \ rushed) \in Nat /\ Cardinality(Accepted \ rushed) \in Nat
    BY <2>1, FiniteSessions
  <2>4. Cardinality(Counted \ rushed) <= MaxConnections
    BY <2>2, <2>3, BridgeAssumption DEF BridgeInv, WithinLimit
  <2> QED  BY <2>4, RestsWell DEF BridgeInv, BridgeHolds, WithinLimit, LoopKnows, Accepted
<1> QED  BY <1>1, BridgeStarts, BridgeKeeps, PTL DEF BridgeSpec

-----------------------------------------------------------------------------
(* The routes of AdaptiveRouting.                                           *)

\* A selection that does not visit a relay twice, nor use a link to avoid.
Passable(sel) ==
    /\ \E V : sel \in Seq(V)
    /\ sel # <<>> /\ IsInjective(sel)
    /\ \A l \in Links(sel) : ~Avoided(l)

LEMMA ExtendedIsPassable ==
    ASSUME NEW sel, NEW p, NEW hops, NEW from, NEW apart, Passable(sel)
    PROVE  Passable(Extended(sel, p, hops, from, apart))
<1>1. CASE Extended(sel, p, hops, from, apart) = sel
  BY <1>1
<1>2. CASE p \notin ToSet(sel) /\ PathOk(sel, p) /\ Extended(sel, p, hops, from, apart) = Append(sel, p)
  <2>1. PICK V : sel \in Seq(V)
    BY DEF Passable
  <2>2. PICK W : W = V \cup {p}
    OBVIOUS
  <2>3. sel \in Seq(W) /\ Append(sel, p) \in Seq(W)
    BY <2>1, <2>2
  <2>4. PICK t \in Seq(W) : t = Append(sel, p)
    BY <2>3
  <2>5. /\ Len(sel) \in Nat /\ Len(sel) > 0 /\ DOMAIN sel = 1..Len(sel)
        /\ DOMAIN t = 1..(Len(sel) + 1) /\ Len(t) = Len(sel) + 1
        /\ t[Len(sel) + 1] = p /\ \A i \in 1..Len(sel) : t[i] = sel[i]
    BY <2>1, <2>3, <2>4 DEF Passable
  <2>6. \A i \in 1..Len(sel) : sel[i] # p
    BY <1>2, <2>5 DEF ToSet
  <2>7. IsInjective(t)
    <3> SUFFICES ASSUME NEW i \in 1..(Len(sel) + 1), NEW j \in 1..(Len(sel) + 1), t[i] = t[j]
                 PROVE  i = j
      BY <2>5 DEF IsInjective
    <3>1. CASE i \in 1..Len(sel) /\ j \in 1..Len(sel)
      BY <2>5, <3>1 DEF Passable, IsInjective
    <3>2. CASE ~(i \in 1..Len(sel) /\ j \in 1..Len(sel))
      BY <2>5, <2>6, <3>2
    <3> QED  BY <3>1, <3>2
  <2>8. ASSUME NEW l \in Links(t)  PROVE ~Avoided(l)
    <3>1. PICK i \in 1..Len(sel) : l = <<t[i], t[i + 1]>>
      BY <2>5, <2>8 DEF Links
    <3>2. CASE i = Len(sel)
      <4>1. l = <<Last(sel), p>>
        BY <2>5, <3>1, <3>2 DEF Last
      <4> QED  BY <1>2, <4>1 DEF PathOk, Passable
    <3>3. CASE i # Len(sel)
      <4>2. i \in 1..(Len(sel) - 1) /\ i + 1 \in 1..Len(sel)
        <5>1. PICK n \in Nat : n = Len(sel)
          BY <2>5
        <5>2. i \in 1..n /\ i # n
          BY <3>3, <5>1
        <5>3. i \in 1..(n - 1) /\ i + 1 \in 1..n
          BY <5>1, <5>2
        <5> QED  BY <5>1, <5>3
      <4>3. t[i] = sel[i] /\ t[i + 1] = sel[i + 1]
        BY <2>5, <4>2
      <4>1. i \in 1..(Len(sel) - 1) /\ l = <<sel[i], sel[i + 1]>>
        BY <3>1, <4>2, <4>3
      <4> QED  BY <4>1 DEF Links, Passable
    <3> QED  BY <3>2, <3>3
  <2>9. t # <<>>
    BY <2>5
  <2>10. Passable(t)
    BY <2>4, <2>7, <2>8, <2>9 DEF Passable
  <2> QED  BY <1>2, <2>4, <2>10
<1> QED  BY <1>1, <1>2 DEF Extended

\* What the loop over the first n scored relays has selected after each.
Loop(f, sel, scored, hops, from, apart, n) ==
    f = [i \in 0..n |->
            IF i = 0 THEN sel ELSE Extended(f[i - 1], scored[i], hops, from, apart)]

\* A loop over n relays comes to an end, whatever it does with each of them.
LEMMA LoopExists ==
    ASSUME NEW sel, NEW scored, NEW hops, NEW from, NEW apart, NEW n \in Nat
    PROVE  \E f : Loop(f, sel, scored, hops, from, apart, n)
<1> DEFINE Runs(m) == \E f : f = [i \in 0..m |->
                        IF i = 0 THEN sel ELSE Extended(f[i - 1], scored[i], hops, from, apart)]
           stuck == {m \in Nat : ~Runs(m)}
           less == { pair \in Nat \X Nat : pair[1] < pair[2] }
<1>1. IsWellFoundedOn(less, Nat)
  BY NatLessThanWellFounded, Zenon DEF OpToRel
<1>2. Runs(0)
  <2>1. PICK f : f = [i \in 0..0 |-> sel]
    OBVIOUS
  <2>2. f = [i \in 0..0 |->
               IF i = 0 THEN sel ELSE Extended(f[i - 1], scored[i], hops, from, apart)]
    <3>1. \A i \in 0..0 : i = 0
      OBVIOUS
    <3> QED  BY <2>1, <3>1
  <2> QED  BY <2>2
<1>3. ASSUME NEW m \in Nat, Runs(m)  PROVE Runs(m + 1)
  <2>1. PICK f : f = [i \in 0..m |->
                        IF i = 0 THEN sel ELSE Extended(f[i - 1], scored[i], hops, from, apart)]
    BY <1>3
  <2>2. PICK g : g = [i \in 0..(m + 1) |->
                        IF i = m + 1 THEN Extended(f[m], scored[m + 1], hops, from, apart)
                        ELSE f[i]]
    OBVIOUS
  <2>3. \A i \in 0..(m + 1) :
            g[i] = IF i = 0 THEN sel ELSE Extended(g[i - 1], scored[i], hops, from, apart)
    <3> SUFFICES ASSUME NEW i \in 0..(m + 1)
                 PROVE  g[i] = IF i = 0 THEN sel
                               ELSE Extended(g[i - 1], scored[i], hops, from, apart)
      OBVIOUS
    <3>1. CASE i = m + 1
      BY <2>2, <3>1
    <3>2. CASE i \in 0..m
      BY <2>1, <2>2, <3>2
    <3> QED  BY <3>1, <3>2
  <2>4. g = [i \in 0..(m + 1) |->
               IF i = 0 THEN sel ELSE Extended(g[i - 1], scored[i], hops, from, apart)]
    BY <2>2, <2>3
  <2> QED  BY <2>4
<1>4. stuck = {}
  <2> SUFFICES ASSUME stuck # {} PROVE FALSE
    OBVIOUS
  <2> HIDE DEF less
  <2>1. PICK m \in stuck : \A k \in stuck : <<k, m>> \notin less
    BY <1>1, WFMin
  <2> HIDE DEF Runs
  <2>2. m \in Nat /\ m # 0
    BY <1>2
  <2>3. m - 1 \in Nat /\ m - 1 < m /\ (m - 1) + 1 = m
    BY <2>2
  <2>4. <<m - 1, m>> \in less
    BY <2>2, <2>3 DEF less
  <2>5. Runs(m - 1)
    BY <2>1, <2>3, <2>4
  <2> QED  BY <1>3, <2>3, <2>5
<1> HIDE DEF Runs
<1>5. Runs(n)
  BY <1>4
<1> QED  BY <1>5 DEF Runs, Loop

LEMMA AppendingIsPassable ==
    ASSUME NEW sel, NEW V, NEW scored \in Seq(V), NEW hops, NEW from, NEW apart, Passable(sel)
    PROVE  Passable(Appending(sel, scored, hops, from, apart))
<1> DEFINE upto == CHOOSE f : f = [i \in 0..Len(scored) |->
                        IF i = 0 THEN sel ELSE Extended(f[i - 1], scored[i], hops, from, apart)]
           less == { pair \in Nat \X Nat : pair[1] < pair[2] }
<1>1. Appending(sel, scored, hops, from, apart) = upto[Len(scored)]
  BY Zenon DEF Appending
<1>2. Len(scored) \in Nat
  OBVIOUS
<1>3. upto = [i \in 0..Len(scored) |->
                IF i = 0 THEN sel ELSE Extended(upto[i - 1], scored[i], hops, from, apart)]
  <2>1. \E f : f = [i \in 0..Len(scored) |->
                     IF i = 0 THEN sel ELSE Extended(f[i - 1], scored[i], hops, from, apart)]
    <3>1. PICK n \in Nat : n = Len(scored)
      BY <1>2
    <3>2. PICK f : Loop(f, sel, scored, hops, from, apart, n)
      BY LoopExists
    <3>3. f = [i \in 0..Len(scored) |->
                IF i = 0 THEN sel ELSE Extended(f[i - 1], scored[i], hops, from, apart)]
      BY <3>1, <3>2 DEF Loop
    <3> QED  BY <3>3, Zenon
  <2> QED  BY <2>1, Zenon
<1> HIDE DEF upto
<1>4. IsWellFoundedOn(less, Nat)
  BY NatLessThanWellFounded, Zenon DEF OpToRel
<1> DEFINE bad == {m \in 0..Len(scored) : ~Passable(upto[m])}
<1>5. bad = {}
  <2> SUFFICES ASSUME bad # {} PROVE FALSE
    OBVIOUS
  <2> HIDE DEF less
  <2>1. PICK m \in bad : \A k \in bad : <<k, m>> \notin less
    <3>1. bad \subseteq Nat
      BY <1>2
    <3> QED  BY <1>4, <3>1, WFMin
  <2>2. m \in 0..Len(scored) /\ ~Passable(upto[m])
    OBVIOUS
  <2>3. m # 0
    BY <1>2, <1>3, <2>2
  <2>4. m - 1 \in 0..Len(scored) /\ m - 1 \in Nat /\ m \in Nat /\ m - 1 < m
    BY <1>2, <2>2, <2>3
  <2>5. <<m - 1, m>> \in less
    BY <2>4 DEF less
  <2>6. Passable(upto[m - 1])
    BY <2>1, <2>4, <2>5
  <2>7. upto[m] = Extended(upto[m - 1], scored[m], hops, from, apart)
    BY <1>3, <2>2, <2>3
  <2>8. PICK s : s = upto[m - 1]
    OBVIOUS
  <2>9. Passable(Extended(s, scored[m], hops, from, apart))
    BY <2>6, <2>8, ExtendedIsPassable
  <2> QED  BY <2>2, <2>7, <2>8, <2>9
<1> QED  BY <1>1, <1>2, <1>5

LEMMA SelectionsArePassable ==
    ASSUME NEW S, NEW r \in Selections(S) PROVE Passable(r)
<1>1. PICK x \in Orders : r \in Selected(S, x)
  BY DEF Selections
<1>2. x \in Seq(RelayId)
  BY RoutingAssumption
<1>3. PICK guard : guard = WithGuard(S, x)
  OBVIOUS
<1>4. PICK middle : middle = WithMiddle(guard, S, x)
  OBVIOUS
<1>5. PICK exit : exit = WithExit(middle, S, x)
  OBVIOUS
<1>6. r = Filled(exit, S, x)
  BY <1>1, <1>3, <1>4, <1>5 DEF Selected
<1>7. Passable(guard)
  <2>1. PICK p : p = Best(S, x)
    OBVIOUS
  <2>2. <<p>> \in Seq({p}) /\ <<p>> # <<>> /\ Len(<<p>>) = 1
    OBVIOUS
  <2>3. IsInjective(<<p>>)
    BY DEF IsInjective
  <2>4. Links(<<p>>) = {}
    BY <2>2 DEF Links
  <2> QED  BY <1>3, <2>1, <2>2, <2>3, <2>4 DEF WithGuard, Passable
<1>8. Passable(middle)
  BY <1>2, <1>4, <1>7, AppendingIsPassable DEF WithMiddle
<1>9. Passable(exit)
  BY <1>2, <1>5, <1>8, AppendingIsPassable DEF WithExit
<1> QED  BY <1>2, <1>6, <1>9, AppendingIsPassable DEF Filled

\* The active routes have numbers.
RoutesOK == \E V : activeRoutes \in Seq(V)

LEMMA ActivateNames ==
    ASSUME RoutesOK, NEW step, NEW r, Activate(step, r)
    PROVE  RoutesOK' /\ Last(activeRoutes') = r
<1>1. PICK V : activeRoutes \in Seq(V)
  BY DEF RoutesOK
<1>2. PICK W : W = V \cup {r}
  OBVIOUS
<1>3. activeRoutes \in Seq(W) /\ activeRoutes' = Append(activeRoutes, r)
  BY <1>1, <1>2 DEF Activate
<1>4. activeRoutes' \in Seq(W) /\ Len(activeRoutes') = Len(activeRoutes) + 1
      /\ activeRoutes'[Len(activeRoutes) + 1] = r
  BY <1>2, <1>3
<1> QED  BY <1>4 DEF RoutesOK, Last

LEMMA RoutingStep ==
    ASSUME RoutesOK, ANext
    PROVE  /\ RoutesOK'
           /\ call'.step = "backups" /\ call.step # "backups" => Passable(Last(activeRoutes'))
<1>1. CASE ComputeRoute
  <2>1. PICK r \in Selections(relays) : Activate("idle", r)
    BY <1>1 DEF ComputeRoute
  <2> QED  BY <2>1, ActivateNames, SelectionsArePassable
<1>2. CASE FailoverToNew
  <2>1. CASE call' = Resting /\ UNCHANGED activeRoutes
    BY <2>1 DEF Resting, RoutesOK
  <2>2. CASE \E r \in Selections(relays) : Activate("failover", r)
    <3>1. PICK r \in Selections(relays) : Activate("failover", r)
      BY <2>2
    <3> QED  BY <3>1, ActivateNames, SelectionsArePassable
  <2> QED  BY <1>2, <2>1, <2>2 DEF FailoverToNew
<1>3. CASE FailoverToBackup
  <2>1. PICK r : activeRoutes' = Append(activeRoutes, r) /\ call' = Resting
    BY <1>3 DEF FailoverToBackup
  <2>2. PICK V : activeRoutes \in Seq(V)
    BY DEF RoutesOK
  <2>3. PICK W : W = V \cup {r}
    OBVIOUS
  <2>4. activeRoutes' \in Seq(W)
    BY <2>1, <2>2, <2>3
  <2> QED  BY <2>1, <2>4 DEF RoutesOK, Resting
<1>4. ASSUME UNCHANGED activeRoutes, call'.step # "backups" \/ UNCHANGED call
      PROVE  /\ RoutesOK'
             /\ call'.step = "backups" /\ call.step # "backups" => Passable(Last(activeRoutes'))
  BY <1>4 DEF RoutesOK
<1>5. CASE GenerateBackups \/ Age \/ Unblock \/ \E p \in Transient : Register(p)
  BY <1>4, <1>5 DEF GenerateBackups, Age, Unblock, Register, Resting
<1>6. CASE \/ \E id \in DOMAIN activeRoutes, w \in {0, 6, 10} : RecordFailure(id, w)
           \/ \E l \in Link : LinkFails(l)
  BY <1>4, <1>6 DEF RecordFailure, LinkFails
<1> QED  BY <1>1, <1>2, <1>3, <1>5, <1>6 DEF ANext, Returning

\* Whatever has been blocked or has failed by then, a route that is computed
\* avoids it and visits no relay twice (select_relays, is_path_ok).
THEOREM RoutesAvoid == ASpec => ComputedAvoidsBlocked
<1>1. AInit => RoutesOK
  <2>1. <<>> \in Seq({})
    OBVIOUS
  <2> QED  BY <2>1 DEF AInit, RoutesOK
<1>2. RoutesOK /\ [ANext]_avars => RoutesOK'
  BY RoutingStep DEF avars, RoutesOK
<1>3. RoutesOK /\ [ANext]_avars =>
        [call'.step = "backups" /\ call.step # "backups" =>
             LET r == Last(activeRoutes')
             IN  /\ IsInjective(r)
                 /\ \A l \in Links(r) : ~Avoided(l)]_avars
  BY RoutingStep DEF Passable
<1> QED  BY <1>1, <1>2, <1>3, PTL DEF ASpec, ComputedAvoidsBlocked
=============================================================================
