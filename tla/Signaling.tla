----------------------------- MODULE Signaling -----------------------------
(***************************************************************************)
(* The WebRTC signaling server of a gateway (gateway/src/signaling.rs) and *)
(* the sockets of the browsers that use it (sdk-browser/src/signaling.rs). *)
(* Each connection has a task that handles its messages one after the      *)
(* other; cleanup_stale runs beside them.                                  *)
(*                                                                         *)
(* The lock on connections is held for reading while a message waits for   *)
(* room in the channel of its receiver, and nobody can write meanwhile; a  *)
(* wait ends when the receiver reads.  Abstracted: what messages say, which*)
(* peers a discovery lists, time (a timeout may pass at any moment).       *)
(***************************************************************************)
EXTENDS Naturals, Sequences, FiniteSets

CONSTANTS
    Peer, Conn,
    PeerOf,         \* Conn -> Peer: whose browser opens the connection
    Absent,         \* no connection, none that is registered
    MaxPeers,       \* max_peers
    MaxMessages     \* bound: messages on a connection

ASSUME SignalingAssumption ==
    /\ PeerOf \in [Conn -> Peer] /\ "none" \notin Peer
    /\ Absent \notin Peer \cup Conn \cup {"none"}
    /\ MaxPeers \in Nat /\ MaxMessages \in Nat

VARIABLES
    sent,               \* how much each client has sent that was received
    task,               \* what each connection's task does
    connections,        \* its peer, "none" when it has announced none, Absent
                        \* when it is not registered
    peers,              \* TrackedPeer: the connection of each peer, or Absent
    peer_connections,   \* the same, to route by
    idle,               \* connections silent for longer than the timeout
    cleaning,           \* the connections that cleanup_stale has found
    sweeping,           \* the one it tells of, or Absent
    crowded,            \* history: peers that had two connections at once
    swept               \* history: connections cleaned up while open

server  == <<connections, peers, peer_connections>>
cleanup == <<idle, cleaning, sweeping>>
svars   == <<sent, task, server, cleanup, crowded, swept>>

SInit ==
    /\ sent = [c \in Conn |-> 0] /\ task = [c \in Conn |-> "none"]
    /\ connections = [c \in Conn |-> Absent]
    /\ peers = [p \in Peer |-> Absent] /\ peer_connections = [p \in Peer |-> Absent]
    /\ idle = {} /\ cleaning = {} /\ sweeping = Absent
    /\ crowded = {} /\ swept = {}

Registered == { c \in Conn : connections[c] # Absent }
Tracked    == { p \in Peer : peers[p] # Absent }

Messages == {"announce", "discover", "heartbeat"} \cup Peer

Goto(c, step) == task' = [task EXCEPT ![c] = step]

\* Whoever sends, or tells of a closed connection, holds connections for reading.
CanWrite == sweeping = Absent /\ \A c \in Conn : task[c] \notin {"send", "tell"}

----------------------------------------------------------------------------
(* handle_connection.  A text first updates last_activity.  The SDK sends  *)
(* an announcement first, and never a heartbeat.                           *)

Open(c) ==
    /\ task[c] = "none" /\ CanWrite
    /\ connections' = [connections EXCEPT ![c] = "none"]
    /\ Goto(c, "wait")
    /\ UNCHANGED <<sent, peers, peer_connections, cleanup, crowded, swept>>

\* A message for the server, or one that is relayed to a peer.
ReceiveMessage(c, m) ==
    /\ task[c] = "wait" /\ sent[c] < MaxMessages /\ CanWrite
    /\ Goto(c, m) /\ sent' = [sent EXCEPT ![c] = @ + 1]
    /\ idle' = idle \ {c}
    /\ UNCHANGED <<server, cleaning, sweeping, crowded, swept>>

\* The socket was closed, or failed.
End(c) ==
    /\ task[c] = "wait" /\ Goto(c, "close")
    /\ UNCHANGED <<sent, server, cleanup, crowded, swept>>

\* send_to_connection and send_error: a connection that is not registered gets
\* nothing, and the task waits for nobody.
Reply(c, target) ==
    Goto(c, IF connections[target] # Absent THEN "send" ELSE "wait")

Sent(c) ==
    /\ task[c] = "send" /\ Goto(c, "wait")
    /\ UNCHANGED <<sent, server, cleanup, crowded, swept>>

\* Mutant: the connection gets its peer before the limit is checked.
AnnounceEarly(c) ==
    /\ task[c] = "announce" /\ CanWrite
    /\ LET p == PeerOf[c] IN
         /\ connections' = [connections EXCEPT ![c] = IF @ = Absent THEN Absent ELSE p]
         /\ \/ /\ Cardinality(Tracked) >= MaxPeers
               /\ UNCHANGED <<peers, peer_connections, crowded, swept>>
            \/ /\ Cardinality(Tracked) < MaxPeers
               /\ peers' = [peers EXCEPT ![p] = c]
               /\ peer_connections' = [peer_connections EXCEPT ![p] = c]
               /\ crowded' = crowded \cup
                    { q \in {p} : \E d \in Conn \ {c} : connections[d] = q }
               /\ swept' = IF connections[c] = Absent THEN swept \cup {c} ELSE swept
    /\ Reply(c, c)
    /\ UNCHANGED <<sent, cleanup>>

\* A peer that is tracked already counts against the limit as well.
Announce(c) ==
    /\ task[c] = "announce"
    /\ \/ /\ Cardinality(Tracked) >= MaxPeers
          /\ UNCHANGED <<server, crowded, swept>>
       \/ /\ Cardinality(Tracked) < MaxPeers /\ CanWrite
          /\ LET p == PeerOf[c] IN
               /\ peers' = [peers EXCEPT ![p] = c]
               /\ peer_connections' = [peer_connections EXCEPT ![p] = c]
               /\ connections' = [connections EXCEPT ![c] = IF @ = Absent THEN Absent ELSE p]
               /\ crowded' = crowded \cup
                    { q \in {p} : \E d \in Conn \ {c} : connections[d] = q }
               /\ swept' = IF connections[c] = Absent THEN swept \cup {c} ELSE swept
    /\ Reply(c, c)
    /\ UNCHANGED <<sent, cleanup>>

\* handle_discover answers, with the peers that are not stale or an error; so
\* does handle_message, to what is too large or does not parse.
Discover(c) ==
    /\ task[c] = "discover" /\ Reply(c, c)
    /\ UNCHANGED <<sent, server, cleanup, crowded, swept>>

\* Changes when its peer counts as stale for handle_discover.
Heartbeat(c) ==
    /\ task[c] = "heartbeat" /\ Goto(c, "wait")
    /\ UNCHANGED <<sent, server, cleanup, crowded, swept>>

\* relay_to_peer: the sender is not told of a peer that is not found.
Relay(c) ==
    /\ task[c] \in Peer
    /\ LET to == peer_connections[task[c]] IN
         IF to = Absent THEN Goto(c, "wait") ELSE Reply(c, to)
    /\ UNCHANGED <<sent, server, cleanup, crowded, swept>>

----------------------------------------------------------------------------
(* handle_disconnect, of the connection's task or of cleanup_stale.        *)

\* The peer leaves the maps, whichever connection they name.
Removed(c) ==
    /\ connections' = [connections EXCEPT ![c] = Absent]
    /\ IF connections[c] \in Peer
       THEN /\ peers' = [peers EXCEPT ![connections[c]] = Absent]
            /\ peer_connections' = [peer_connections EXCEPT ![connections[c]] = Absent]
       ELSE UNCHANGED <<peers, peer_connections>>
    /\ idle' = idle \ {c}

\* The others are told of the peer that is gone.
Close(c) ==
    /\ task[c] = "close" /\ CanWrite /\ Removed(c)
    /\ Goto(c, IF connections[c] \in Peer THEN "tell" ELSE "ended")
    /\ UNCHANGED <<sent, cleaning, sweeping, crowded, swept>>

Told(c) ==
    /\ task[c] = "tell" /\ Goto(c, "ended")
    /\ UNCHANGED <<sent, server, cleanup, crowded, swept>>

\* cleanup_stale reads last_activity once, and disconnects one after the other.
FindStale ==
    /\ cleaning = {} /\ sweeping = Absent /\ idle # {}
    /\ cleaning' = idle
    /\ UNCHANGED <<sent, task, server, idle, sweeping, crowded, swept>>

Sweep(c) ==
    /\ c \in cleaning /\ CanWrite /\ Removed(c)
    /\ cleaning' = cleaning \ {c}
    /\ sweeping' = IF connections[c] \in Peer THEN c ELSE Absent
    /\ swept' = IF task[c] # "ended" THEN swept \cup {c} ELSE swept
    /\ UNCHANGED <<sent, task, crowded>>

Swept ==
    /\ sweeping # Absent /\ sweeping' = Absent
    /\ UNCHANGED <<sent, task, server, idle, cleaning, crowded, swept>>

\* session_timeout_secs pass.
Silent(c) ==
    /\ c \in Registered \ idle /\ idle' = idle \cup {c}
    /\ UNCHANGED <<sent, task, server, cleaning, sweeping, crowded, swept>>

SNext ==
    \/ \E c \in Conn :
         \/ Open(c) \/ End(c) \/ \E m \in Messages \ {PeerOf[c]} : ReceiveMessage(c, m)
         \/ Announce(c) \/ Discover(c) \/ Heartbeat(c) \/ Relay(c)
         \/ Sent(c) \/ Close(c) \/ Told(c) \/ Sweep(c) \/ Silent(c)
    \/ FindStale \/ Swept

SSpec == SInit /\ [][SNext]_svars

----------------------------------------------------------------------------
(* Properties.                                                             *)

(* A connection whose announcement was accepted stays known under its peer *)
(* for as long as it is registered, unless that peer has had two           *)
(* connections at once: the end of either then forgets the other.          *)
ListedUnlessCrowded ==
    \A c \in Registered : connections[c] \in Peer \ crowded
        => peers[connections[c]] = c /\ peer_connections[connections[c]] = c

(* Who is listed can be reached, and leaves when it disconnects: the two   *)
(* maps agree and name a registered connection, unless it was cleaned up   *)
(* while its client still sent.                                            *)
ListedIsReachable ==
    \A p \in Peer : /\ peers[p] = peer_connections[p]
                    /\ peers[p] \in Registered \cup swept \cup {Absent}

(* The three maps of the server agree, as far as they can.                  *)
MapsAgree == ListedUnlessCrowded /\ ListedIsReachable

(* "Atomically remove from all three maps to keep them in sync"            *)
(* (signaling.rs:410): the only registered connection of a peer that has   *)
(* announced itself is the one it is listed under.                         *)
InSync ==
    \A c \in Registered :
        /\ connections[c] \in Peer
        /\ \A d \in Registered \ {c} : connections[d] # connections[c]
        => peers[connections[c]] = c
=============================================================================
