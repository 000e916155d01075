---------------------------- MODULE BrowserPeers ----------------------------
(***************************************************************************)
(* The WebRTC connections between browsers (sdk-browser/src/client.rs,     *)
(* webrtc.rs), negotiated through the signaling server.  A browser runs one*)
(* thread: what lies between two awaits is one step, and its message loop  *)
(* and the calls of its page interleave at the awaits.                     *)
(*                                                                         *)
(* The server relays the messages of a pair in order (see Signaling for    *)
(* what it loses); candidates for ICE only add to the answer that comes    *)
(* before them.  A client that has disconnected stays so.                  *)
(***************************************************************************)
EXTENDS Naturals, Sequences, FiniteSets

CONSTANTS Browser,
          MaxConns          \* bound: WebRTC connections made in a behaviour

VARIABLES
    conns,      \* all WebRtcConnections: a sequence of records
    stored,     \* connections: Browser -> Browser -> the number of one, or 0
    calls,      \* those that connect_to_peer is making an offer for
    letters,    \* messages from the server that a client has not handled
    loop,       \* what its message loop awaits
    online,     \* clients that are connected to the signaling server
    panicked,   \* clients that borrowed connections twice
    crossed,    \* history: pairs that negotiated while they had a connection
    failed      \* history: connections that the network or an error ended

bvars == <<conns, stored, calls, letters, loop, online, panicked, crossed, failed>>

Conns == DOMAIN conns
Idle == [doing |-> "nothing", conn |-> 0, answer |-> 0]

BInit ==
    /\ conns = <<>> /\ calls = {} /\ panicked = {} /\ crossed = {} /\ failed = {}
    /\ stored = [x \in Browser |-> [y \in Browser |-> 0]]
    /\ letters = [x \in Browser |-> <<>>]
    /\ loop = [x \in Browser |-> Idle]
    /\ online = Browser

\* A connection of `at` with `to`; it answers the offer of another, or offers
\* and gets the answer of another.
Connection(x, y, k) ==
    [at |-> x, to |-> y, answers |-> k, got |-> 0, state |-> "connecting"]

Pair(x, y) == {x, y}

\* A connection between the two that is not closed, or is being made.
Have(x, y) ==
    \E k \in Conns : /\ {conns[k].at, conns[k].to} = {x, y}
                     /\ k \notin failed /\ conns[k].state # "closed"

Relayed(x, to, m) ==
    letters' = [letters EXCEPT ![to] = IF to \in online /\ x \in online THEN Append(@, m) ELSE @]

CloseConns(K) == conns' = [k \in Conns |->
                        IF k \in K THEN [conns[k] EXCEPT !.state = "closed"] ELSE conns[k]]

Runs(x) == x \notin panicked

----------------------------------------------------------------------------
(* connect_to_peer.                                                        *)

Connect(x, y) ==
    /\ Runs(x) /\ stored[x][y] = 0 /\ Len(conns) < MaxConns
    /\ conns' = Append(conns, Connection(x, y, 0))
    /\ calls' = calls \cup {Len(conns')}
    /\ crossed' = IF Have(x, y) THEN crossed \cup {Pair(x, y)} ELSE crossed
    /\ UNCHANGED <<stored, letters, loop, online, panicked, failed>>

\* create_offer has succeeded: the offer is sent and the connection inserted,
\* where another may have come meanwhile; that one is dropped, which closes it.
\* The loop holds a borrow of connections while it applies an answer.
SendOffer(k) ==
    LET x == conns[k].at  y == conns[k].to IN
    /\ k \in calls /\ Runs(x) /\ x \in online
    /\ calls' = calls \ {k}
    /\ Relayed(x, y, [type |-> "offer", from |-> x, conn |-> k, answers |-> 0])
    /\ \/ /\ loop[x].doing = "apply" /\ panicked' = panicked \cup {x}
          /\ UNCHANGED <<conns, stored>>
       \/ /\ loop[x].doing # "apply" /\ UNCHANGED panicked
          /\ stored' = [stored EXCEPT ![x][y] = k]
          /\ CloseConns({stored[x][y]})
    /\ UNCHANGED <<loop, online, crossed, failed>>

\* create_offer has failed, or the client has disconnected meanwhile.
OfferFails(k) ==
    /\ k \in calls /\ Runs(conns[k].at)
    /\ calls' = calls \ {k} /\ CloseConns({k}) /\ failed' = failed \cup {k}
    /\ UNCHANGED <<stored, letters, loop, online, panicked, crossed>>

----------------------------------------------------------------------------
(* start_message_loop.                                                     *)

Takes(x, type) == /\ Runs(x) /\ loop[x] = Idle /\ letters[x] # <<>>
                  /\ Head(letters[x]).type = type
                  /\ letters' = [letters EXCEPT ![x] = Tail(@)]

\* An offer is answered by a connection of its own.
TakeOffer(x) ==
    LET m == Head(letters[x]) IN
    /\ Takes(x, "offer") /\ Len(conns) < MaxConns
    /\ conns' = Append(conns, Connection(x, m.from, m.conn))
    /\ loop' = [loop EXCEPT ![x] = [doing |-> "answer", conn |-> Len(conns'), answer |-> 0]]
    /\ crossed' = IF \E k \in Conns \ {m.conn} :
                        /\ {conns[k].at, conns[k].to} = {x, m.from}
                        /\ k \notin failed /\ conns[k].state # "closed"
                  THEN crossed \cup {Pair(x, m.from)} ELSE crossed
    /\ UNCHANGED <<stored, calls, online, panicked, failed>>

\* create_answer has succeeded: what was stored is replaced and dropped.
SendAnswer(x) ==
    LET k == loop[x].conn  y == conns[k].to IN
    /\ Runs(x) /\ loop[x].doing = "answer"
    /\ Relayed(x, y, [type |-> "answer", from |-> x, conn |-> k, answers |-> conns[k].answers])
    /\ stored' = [stored EXCEPT ![x][y] = k] /\ CloseConns({stored[x][y]})
    /\ loop' = [loop EXCEPT ![x] = Idle]
    /\ UNCHANGED <<calls, online, panicked, crossed, failed>>

AnswerFails(x) ==
    /\ Runs(x) /\ loop[x].doing = "answer"
    /\ CloseConns({loop[x].conn}) /\ failed' = failed \cup {loop[x].conn, conns[loop[x].conn].answers}
    /\ loop' = [loop EXCEPT ![x] = Idle]
    /\ UNCHANGED <<stored, calls, letters, online, panicked, crossed>>

\* The answer goes to whatever connection is stored for the peer.
TakeAnswer(x) ==
    LET m == Head(letters[x]) IN
    /\ Takes(x, "answer")
    /\ loop' = [loop EXCEPT ![x] =
                  IF stored[x][m.from] = 0 THEN Idle
                  ELSE [doing |-> "apply", conn |-> stored[x][m.from], answer |-> m.conn]]
    /\ UNCHANGED <<conns, stored, calls, online, panicked, crossed, failed>>

\* set_remote_answer: one that has made no offer, or has its answer, refuses.
Apply(x) ==
    LET k == loop[x].conn IN
    /\ Runs(x) /\ loop[x].doing = "apply"
    /\ conns' = IF conns[k].answers = 0 /\ conns[k].got = 0 /\ conns[k].state # "closed"
                THEN [conns EXCEPT ![k].got = loop[x].answer] ELSE conns
    /\ loop' = [loop EXCEPT ![x] = Idle]
    /\ UNCHANGED <<stored, calls, letters, online, panicked, crossed, failed>>

\* Mutant: every connection of the client is closed.
GoneAll(x) ==
    /\ Takes(x, "gone")
    /\ stored' = [stored EXCEPT ![x] = [y \in Browser |-> 0]]
    /\ CloseConns({ stored[x][y] : y \in Browser })
    /\ UNCHANGED <<calls, loop, online, panicked, crossed, failed>>

Gone(x) ==
    LET y == Head(letters[x]).from IN
    /\ Takes(x, "gone")
    /\ stored' = [stored EXCEPT ![x][y] = 0] /\ CloseConns({stored[x][y]})
    /\ UNCHANGED <<calls, loop, online, panicked, crossed, failed>>

----------------------------------------------------------------------------

\* The server tells the others, who have it in their mail.
Disconnect(x) ==
    /\ Runs(x) /\ x \in online
    /\ CloseConns({ stored[x][y] : y \in Browser })
    /\ \/ /\ loop[x].doing = "apply" /\ panicked' = panicked \cup {x}
          /\ UNCHANGED <<stored, online, letters>>
       \/ /\ loop[x].doing # "apply" /\ UNCHANGED panicked
          /\ stored' = [stored EXCEPT ![x] = [y \in Browser |-> 0]]
          /\ online' = online \ {x}
          /\ letters' = [y \in Browser |->
                        IF y \in online \ {x}
                        THEN Append(letters[y], [type |-> "gone", from |-> x, conn |-> 0, answers |-> 0])
                        ELSE letters[y]]
    /\ UNCHANGED <<calls, loop, crossed, failed>>

\* The data channel of two connections that have each other's description
\* opens on one side; the handshake of the other is checked once it is open
\* there too.
Matched(k, l) == conns[k].got = l /\ conns[l].answers = k

Partner(k, l) == Matched(k, l) \/ Matched(l, k)

Opens(k) ==
    /\ conns[k].state = "connecting" /\ Runs(conns[k].at)
    /\ \E l \in Conns : Partner(k, l) /\ conns[l].state \notin {"closed", "failed"}
    /\ conns' = [conns EXCEPT ![k].state = "connected"]
    /\ UNCHANGED <<stored, calls, letters, loop, online, panicked, crossed, failed>>

Authenticates(k) ==
    /\ conns[k].state = "connected" /\ Runs(conns[k].at)
    /\ \E l \in Conns : Partner(k, l) /\ conns[l].state \in {"connected", "authenticated"}
    /\ conns' = [conns EXCEPT ![k].state = "authenticated"]
    /\ UNCHANGED <<stored, calls, letters, loop, online, panicked, crossed, failed>>

\* The channel closes or fails; the connection stays stored.
ChannelEnds(k) ==
    /\ conns[k].state \in {"connected", "authenticated"}
    /\ conns' = [conns EXCEPT ![k].state = "failed"] /\ failed' = failed \cup {k}
    /\ UNCHANGED <<stored, calls, letters, loop, online, panicked, crossed>>

BNext ==
    \/ \E x, y \in Browser : x # y /\ Connect(x, y)
    \/ \E k \in Conns : SendOffer(k) \/ OfferFails(k) \/ Opens(k) \/ Authenticates(k)
                        \/ ChannelEnds(k)
    \/ \E x \in Browser : \/ TakeOffer(x) \/ SendAnswer(x) \/ AnswerFails(x) \/ TakeAnswer(x)
                         \/ Apply(x) \/ Gone(x) \/ Disconnect(x)

BSpec == BInit /\ [][BNext]_bvars

----------------------------------------------------------------------------
(* Properties.                                                             *)

\* Nobody is about to do something for x and y.
Settled(x, y) ==
    /\ {x, y} \subseteq online \ panicked
    /\ \A z \in {x, y} : loop[z] = Idle /\ letters[z] = <<>>
    /\ \A k \in calls : {conns[k].at, conns[k].to} # {x, y}

(* Two clients that stay connected to the server and have done what they   *)
(* began have each stored one end of a connection that can open, and so    *)
(* every further connect_to_peer may well return at once.  This fails only *)
(* for a pair that negotiated twice at once (both then replace the         *)
(* connection that the other answers), or whose connection had failed.     *)
SettledHaveEachOther ==
    \A x, y \in Browser :
        /\ x # y /\ Settled(x, y) /\ stored[x][y] # 0 /\ Pair(x, y) \notin crossed
        /\ \A k \in failed : {conns[k].at, conns[k].to} # {x, y}
        => stored[y][x] # 0 /\ Partner(stored[x][y], stored[y][x])
=============================================================================
