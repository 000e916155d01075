------------------------------- MODULE Bridge -------------------------------
(***************************************************************************)
(* The WebRTC bridge of a node (node-runner/src/bridge.rs): one loop talks *)
(* to the signaling server of a gateway, and a task for each browser's     *)
(* offer sets up a connection and serves content on its data channel.      *)
(* They share bounded channels, the map of sessions and a count.  Browsers *)
(* and the WebRTC library are external.                                    *)
(***************************************************************************)
EXTENDS Naturals, FiniteSets

CONSTANTS Offers,           \* offers of browsers, each a session of its own
          MaxConnections,   \* max_connections
          InRoom,           \* room for candidates on their way to a session: 32
          OutRoom,          \* room for messages on their way to the server: 64
          MaxCandidates,    \* bound on the candidates of a browser
          MaxGathered,      \* bound on the candidates of a session itself
          MaxUplinks,         \* bound on the connections to the server
          NoOffer

ASSUME BridgeAssumption ==
    /\ IsFiniteSet(Offers) /\ NoOffer \notin Offers
    /\ MaxConnections \in Nat /\ InRoom \in Nat \ {0} /\ OutRoom \in Nat \ {0}
    /\ {MaxCandidates, MaxGathered, MaxUplinks} \subseteq Nat

VARIABLES uplink,      \* the current connection to the signaling server, or 0
          uplinks,     \* how many there were
          stopped,
          blocked,     \* the offer whose candidate the loop waits to hand on
          active,      \* active_sessions of this connection
          outgoing,    \* how many messages wait for the server
          browsers,    \* connected_browsers
          session,     \* the next step of an offer's task
          home,        \* the connection an offer came on
          incoming,    \* how many candidates wait for the session
          relaying,    \* the sessions whose candidates are relayed
          trickled,    \* how many candidates a browser has sent
          gathered,    \* how many candidates a session has found
          rushed       \* history: offers accepted while an accepted one was not counted

bridgeVars == <<uplink, uplinks, stopped, blocked, active, outgoing, browsers, session, home,
                incoming, relaying, trickled, gathered, rushed>>
loopVars == <<uplink, uplinks, stopped, blocked, active>>
taskVars == <<browsers, session, home, relaying, rushed>>
bounds == <<trickled, gathered>>

Zero == [o \in Offers |-> 0]

BridgeInit ==
    /\ uplink = 0 /\ uplinks = 0 /\ stopped = FALSE /\ blocked = NoOffer /\ active = {}
    /\ outgoing = 0 /\ browsers = 0
    /\ session = [o \in Offers |-> "none"] /\ home = Zero
    /\ incoming = Zero /\ relaying = {} /\ rushed = {}
    /\ trickled = Zero /\ gathered = Zero

Proceed(o, step) == session' = [session EXCEPT ![o] = step]
At(steps) == { o \in Offers : session[o] \in steps }

-----------------------------------------------------------------------------
(* The loop.                                                               *)

Connect ==
    /\ uplink = 0 /\ ~stopped /\ uplinks < MaxUplinks
    /\ uplinks' = uplinks + 1 /\ uplink' = uplinks'
    /\ active' = {}
    /\ UNCHANGED <<stopped, blocked, outgoing, taskVars, incoming, bounds>>

\* The channel to the server ends with the connection; the tasks go on.
DropUplink == uplink' = 0 /\ outgoing' = 0 /\ blocked' = NoOffer /\ active' = {}

\* The loop notices when it reads or writes, which it does not while it waits.
Lose ==
    /\ uplink # 0 /\ blocked = NoOffer
    /\ DropUplink
    /\ UNCHANGED <<uplinks, stopped, taskVars, incoming, bounds>>

\* A shutdown cancels the loop wherever it is.
Shutdown ==
    /\ ~stopped /\ stopped' = TRUE
    /\ DropUplink
    /\ UNCHANGED <<uplinks, taskVars, incoming, bounds>>

Reading == uplink # 0 /\ blocked = NoOffer

Accept(o) ==
    /\ active' = active \cup {o}
    /\ home' = [home EXCEPT ![o] = uplink]
    /\ rushed' = IF At({"spawned"}) # {} THEN rushed \cup {o} ELSE rushed
    /\ Proceed(o, "spawned")

\* Mutant: the limit is off by one.
ReceiveOneMore(o) ==
    /\ Reading /\ session[o] = "none"
    /\ \/ /\ browsers > MaxConnections
          /\ Proceed(o, "over")
          /\ UNCHANGED <<active, home, rushed>>
       \/ /\ browsers <= MaxConnections
          /\ Accept(o)
    /\ UNCHANGED <<uplink, uplinks, stopped, blocked, outgoing, browsers, incoming, relaying, bounds>>

\* A refused browser is not told.
Receive(o) ==
    /\ Reading /\ session[o] = "none"
    /\ \/ /\ browsers >= MaxConnections
          /\ Proceed(o, "over")
          /\ UNCHANGED <<active, home, rushed>>
       \/ /\ browsers < MaxConnections
          /\ Accept(o)
    /\ UNCHANGED <<uplink, uplinks, stopped, blocked, outgoing, browsers, incoming, relaying, bounds>>

\* Whether there is anyone to take a session's candidates.
Heard(o) == session[o] \in {"spawned", "setup", "answer"} \/ o \in relaying

\* A candidate of a browser.  The loop hands it on with the map locked, and
\* waits until there is room.
Candidate(o) ==
    /\ Reading /\ session[o] # "none" /\ trickled[o] < MaxCandidates
    /\ trickled' = [trickled EXCEPT ![o] = @ + 1]
    /\ blocked' = IF o \in active /\ Heard(o) THEN o ELSE NoOffer
    /\ UNCHANGED <<uplink, uplinks, stopped, active, outgoing, taskVars, incoming, gathered>>

HandOn(o) ==
    /\ blocked = o
    /\ \/ Heard(o) /\ incoming[o] < InRoom /\ incoming' = [incoming EXCEPT ![o] = @ + 1]
       \/ ~Heard(o) /\ UNCHANGED incoming
    /\ blocked' = NoOffer
    /\ UNCHANGED <<uplink, uplinks, stopped, active, outgoing, taskVars, bounds>>

Flush ==
    /\ Reading /\ outgoing > 0
    /\ outgoing' = outgoing - 1
    /\ UNCHANGED <<loopVars, taskVars, incoming, bounds>>

-----------------------------------------------------------------------------
(* The task of an offer.                                                   *)

Count(o) ==
    /\ session[o] = "spawned"
    /\ browsers' = browsers + 1
    /\ Proceed(o, "setup")
    /\ UNCHANGED <<loopVars, outgoing, home, incoming, relaying, rushed, bounds>>

\* Anything up to the answer may fail.
Setup(o) ==
    /\ session[o] = "setup"
    /\ Proceed(o, "answer") \/ Proceed(o, "uncount")
    /\ UNCHANGED <<loopVars, outgoing, browsers, home, incoming, relaying, rushed, bounds>>

Linked(o) == uplink # 0 /\ home[o] = uplink

\* Sends to the server wait for room, and fail once the connection is gone.
\* The relay starts when the answer is in the channel.
SendAnswer(o) ==
    /\ session[o] = "answer"
    /\ \/ /\ Linked(o) /\ outgoing < OutRoom
          /\ outgoing' = outgoing + 1
          /\ relaying' = relaying \cup {o}
          /\ Proceed(o, "channel")
       \/ /\ ~Linked(o)
          /\ Proceed(o, "uncount")
          /\ UNCHANGED <<outgoing, relaying>>
    /\ UNCHANGED <<loopVars, browsers, home, incoming, rushed, bounds>>

\* The library's callback for a candidate of our own.
Gather(o) ==
    /\ session[o] \in {"answer", "channel", "opening", "serving"}
    /\ gathered[o] < MaxGathered
    /\ \/ Linked(o) /\ outgoing < OutRoom /\ outgoing' = outgoing + 1
       \/ ~Linked(o) /\ UNCHANGED outgoing
    /\ gathered' = [gathered EXCEPT ![o] = @ + 1]
    /\ UNCHANGED <<loopVars, taskVars, incoming, trickled>>

RelayCandidate(o) ==
    /\ o \in relaying /\ incoming[o] > 0
    /\ incoming' = [incoming EXCEPT ![o] = @ - 1]
    /\ UNCHANGED <<loopVars, outgoing, taskVars, bounds>>

\* The browser's data channel arrives; or 30 seconds pass, and the relay is
\* left to itself.
Channel(o) ==
    /\ session[o] = "channel"
    /\ Proceed(o, "opening") \/ Proceed(o, "uncount")
    /\ UNCHANGED <<loopVars, outgoing, browsers, home, incoming, relaying, rushed, bounds>>

\* The channel opens, or 15 seconds pass.
OpenChannel(o) ==
    /\ session[o] = "opening"
    /\ Proceed(o, "serving") \/ Proceed(o, "close")
    /\ UNCHANGED <<loopVars, outgoing, browsers, home, incoming, relaying, rushed, bounds>>

\* The requests end when the library drops the callback that holds the other
\* end of their channel: nothing here makes it do so.
Leave(o) ==
    /\ session[o] = "serving"
    /\ Proceed(o, "close")
    /\ UNCHANGED <<loopVars, outgoing, browsers, home, incoming, relaying, rushed, bounds>>

Close(o) ==
    /\ session[o] = "close"
    /\ relaying' = relaying \ {o}
    /\ Proceed(o, "uncount")
    /\ UNCHANGED <<loopVars, outgoing, browsers, home, incoming, rushed, bounds>>

Uncount(o) ==
    /\ session[o] = "uncount"
    /\ browsers' = IF browsers > 0 THEN browsers - 1 ELSE 0
    /\ Proceed(o, "remove")
    /\ UNCHANGED <<loopVars, outgoing, home, incoming, relaying, rushed, bounds>>

\* The map is that of the offer's own connection.
Unlist(o) ==
    /\ session[o] = "remove"
    /\ Linked(o) => blocked = NoOffer
    /\ active' = IF Linked(o) THEN active \ {o} ELSE active
    /\ Proceed(o, "over")
    /\ UNCHANGED <<uplink, uplinks, stopped, blocked, outgoing, browsers, home, incoming, relaying,
                   rushed, bounds>>

\* A relay that was left to itself ends when the session is out of the map.
RelayEnd(o) ==
    /\ o \in relaying /\ session[o] = "over" /\ incoming[o] = 0
    /\ relaying' = relaying \ {o}
    /\ UNCHANGED <<loopVars, outgoing, browsers, session, home, incoming, rushed, bounds>>

-----------------------------------------------------------------------------
\* What the bridge does on its own.
Progress ==
    \/ Flush
    \/ \E o \in Offers :
         \/ HandOn(o) \/ Count(o) \/ Setup(o) \/ SendAnswer(o) \/ RelayCandidate(o) \/ Channel(o)
         \/ OpenChannel(o) \/ Close(o) \/ Uncount(o) \/ Unlist(o) \/ RelayEnd(o)

BridgeNext ==
    \/ Progress \/ Connect \/ Lose \/ Shutdown
    \/ \E o \in Offers : Receive(o) \/ Candidate(o) \/ Gather(o) \/ Leave(o)

BridgeSpec == BridgeInit /\ [][BridgeNext]_bridgeVars

-----------------------------------------------------------------------------
Counted == At({"setup", "answer", "channel", "opening", "serving", "close", "uncount"})

\* The loop waits for a session to take a candidate, which it does when it has
\* sent its answer, for which the loop has to make room.
Circle ==
    /\ blocked # NoOffer /\ session[blocked] = "answer"
    /\ incoming[blocked] = InRoom /\ outgoing = OutRoom

\* The guards of Progress: one of its steps can be taken.
CanProgress ==
    \/ Reading /\ outgoing > 0
    \/ \E o \in Offers :
         \/ blocked = o /\ (Heard(o) => incoming[o] < InRoom)
         \/ session[o] \in {"spawned", "setup", "channel", "opening", "close", "uncount"}
         \/ session[o] = "answer" /\ (Linked(o) => outgoing < OutRoom)
         \/ session[o] = "remove" /\ (Linked(o) => blocked = NoOffer)
         \/ o \in relaying /\ (incoming[o] > 0 \/ session[o] = "over")

(* max_connections is the "Maximum concurrent browser connections"           *)
(* (config.rs:395): those beyond it were accepted while another one that had *)
(* been accepted was not counted yet.  As long as the connection to the      *)
(* server lasts, the loop knows every session that takes candidates; and     *)
(* whatever fails, runs out of time or is disconnected, the bridge comes to  *)
(* rest only with every session served or over, or in the Circle.            *)
BridgeHolds ==
    /\ browsers = Cardinality(Counted)
    /\ Cardinality(Counted \ rushed) <= MaxConnections
    /\ \A o \in At({"spawned"}) \cup Counted : Linked(o) => o \in active
    /\ ~CanProgress => Circle \/ At({"none", "serving", "over"}) = Offers
=============================================================================
