---------------------------- MODULE BrowserFetch ----------------------------
(***************************************************************************)
(* Fetches of a browser (sdk-browser/src/client.rs): from its cache, from  *)
(* another browser over one data channel, or from an HTTP gateway.  What   *)
(* lies between two awaits is one step.  The channel carries requests one  *)
(* way and fragments the other, in order.                                  *)
(*                                                                         *)
(* Abstracted: the bytes (fragments of one content that are all there make *)
(* it up; a hash that does not match is one that is missing), which peer is*)
(* asked (the first connected one), and the state of its connection, which *)
(* is one of BrowserPeers: "authenticated", "connected", when a request    *)
(* fails, or none.                                                         *)
(***************************************************************************)
EXTENDS BrowserPeers

CONSTANTS
    Fetch, Asset,
    Pieces,         \* Asset -> the number of its fragments, 0 when it is empty
    Unset,
    CacheCap,       \* 256 entries
    UseFallback     \* use_fallback, with a gateway_url

\* An entry of pending_fetches.
Pending == [of : Fetch, parts : SUBSET Nat, total : Nat \cup {Unset}]

ASSUME FetchAssumption ==
    /\ Pieces \in [Asset -> Nat]
    /\ Unset \notin Pending \cup {"ok", "notFound", "closed"}

VARIABLES
    stage,      \* of each fetch: "new", "waiting", "http", or how it has ended
    wants,      \* the content it is for
    resolved,   \* what was sent on the oneshot channel of its pending entry
    entry,      \* pending_fetches: Asset -> whose entry it is, the fragments
                \* that have come and the number of all of them, or Unset
    contents,   \* content_cache
    link,       \* the connection with the peer
    asked,      \* requests on the channel
    frames,     \* responses on the channel
    met         \* history: fetches of a content that another one waited for

fvars == <<stage, wants, resolved, entry, contents, link, asked, frames, met>>

FInit ==
    /\ stage = [f \in Fetch |-> "new"] /\ wants \in [Fetch -> Asset]
    /\ resolved = [f \in Fetch |-> Unset]
    /\ entry = [c \in Asset |-> Unset]
    /\ contents = {} /\ link \in {"authenticated", "connected", "none"}
    /\ asked = <<>> /\ frames = <<>> /\ met = {}

Entry(f) == [of |-> f, parts |-> {}, total |-> Unset]

Become(f, how) == stage' = [stage EXCEPT ![f] = how]

\* Where a fetch goes that has got nothing from the peer.
Instead == IF UseFallback THEN "http" ELSE "failed"

\* When the cache is full, any entry is evicted, whether c is there or not.
Cached(c) ==
    \/ Cardinality(contents) < CacheCap /\ contents' = contents \cup {c}
    \/ Cardinality(contents) >= CacheCap /\ \E d \in contents : contents' = (contents \ {d}) \cup {c}

----------------------------------------------------------------------------
(* fetch, up to its first await: fetch_p2p asks a connected peer and then  *)
(* inserts its entry, in the place of another fetch's, whose channel closes*)

Waiting == { f \in Fetch : stage[f] = "waiting" }

BeginFetch(f) ==
    LET c == wants[f] IN
    /\ stage[f] = "new"
    /\ \/ /\ c \in contents /\ Become(f, "cached")
          /\ UNCHANGED <<resolved, entry, asked, met>>
       \/ /\ c \notin contents /\ link # "authenticated" /\ Become(f, Instead)
          /\ UNCHANGED <<resolved, entry, asked, met>>
       \/ /\ c \notin contents /\ link = "authenticated" /\ Become(f, "waiting")
          /\ asked' = Append(asked, c)
          /\ entry' = [entry EXCEPT ![c] = Entry(f)]
          /\ resolved' = [g \in Fetch |-> IF entry[c] # Unset /\ entry[c].of = g
                                          THEN "closed" ELSE resolved[g]]
          /\ LET others == { g \in Waiting : wants[g] = c } IN
               met' = met \cup others \cup (IF others # {} THEN {f} ELSE {})
    /\ UNCHANGED <<wants, contents, link, frames>>

\* Mutant: the entry of a fetch that has timed out stays.
TimeOutLeaving(f) ==
    /\ f \in Waiting /\ Become(f, Instead)
    /\ UNCHANGED <<wants, resolved, entry, contents, link, asked, frames, met>>

\* The time-out wins: whatever entry there is for the content is removed, and
\* with it the channel of whoever waits on it.
TimeOut(f) ==
    LET c == wants[f] IN
    /\ f \in Waiting /\ Become(f, Instead)
    /\ entry' = [entry EXCEPT ![c] = Unset]
    /\ resolved' = [g \in Fetch |-> IF entry[c] # Unset /\ entry[c].of = g /\ g # f
                                    THEN "closed" ELSE resolved[g]]
    /\ UNCHANGED <<wants, contents, link, asked, frames, met>>

\* The channel has an answer, or was closed.
Wake(f) ==
    /\ f \in Waiting /\ resolved[f] # Unset
    /\ IF resolved[f] = "ok"
       THEN Become(f, "peer") /\ Cached(wants[f])
       ELSE Become(f, Instead) /\ UNCHANGED contents
    /\ UNCHANGED <<wants, resolved, entry, link, asked, frames, met>>

\* fetch_http_with_timeout, and the check of what it yields.
Http(f) ==
    /\ stage[f] = "http"
    /\ \/ Become(f, "gateway") /\ Cached(wants[f])
       \/ Become(f, "failed") /\ UNCHANGED contents
    /\ UNCHANGED <<wants, resolved, entry, link, asked, frames, met>>

----------------------------------------------------------------------------
(* handle_content_request of the peer, which answers all at once: that its *)
(* cache does not have the content, or with its fragments, which are none  *)
(* of an empty content, until one cannot be sent; with none when its own   *)
(* connection is not open.                                                 *)

Serve ==
    LET c == Head(asked) IN
    /\ asked # <<>> /\ asked' = Tail(asked)
    /\ \/ frames' = Append(frames, [c |-> c, part |-> 0])
       \/ \E n \in 0..Pieces[c] :
             frames' = frames \o [i \in 1..n |-> [c |-> c, part |-> i]]
    /\ UNCHANGED <<stage, wants, resolved, entry, contents, link, met>>

\* The channel closes: what it carried is lost, and nobody is told.
LinkEnds ==
    /\ link # "none" /\ link' = "none" /\ asked' = <<>> /\ frames' = <<>>
    /\ UNCHANGED <<stage, wants, resolved, entry, contents, met>>

Authenticated ==
    /\ link = "connected" /\ link' = "authenticated"
    /\ UNCHANGED <<stage, wants, resolved, entry, contents, asked, frames, met>>

----------------------------------------------------------------------------
(* handle_content_response.                                                *)

Resolve(c, how) ==
    /\ resolved' = [resolved EXCEPT ![entry[c].of] = how]
    /\ entry' = [entry EXCEPT ![c] = Unset]

\* Nobody waits for the content any more.
Ignored(m) == /\ entry[m.c] = Unset /\ UNCHANGED <<resolved, entry, contents>>

NotFound(m) == /\ entry[m.c] # Unset /\ m.part = 0 /\ Resolve(m.c, "notFound")
               /\ UNCHANGED contents

\* The last fragment completes it: it is cached, however full the cache is.
Fragment(m) ==
    /\ entry[m.c] # Unset /\ m.part # 0
    /\ LET e == [entry[m.c] EXCEPT !.parts = @ \cup {m.part}, !.total = Pieces[m.c]] IN
         IF Cardinality(e.parts) = e.total
         THEN contents' = contents \cup {m.c} /\ Resolve(m.c, "ok")
         ELSE entry' = [entry EXCEPT ![m.c] = e] /\ UNCHANGED <<resolved, contents>>

Handle ==
    /\ frames # <<>> /\ frames' = Tail(frames)
    /\ Ignored(Head(frames)) \/ NotFound(Head(frames)) \/ Fragment(Head(frames))
    /\ UNCHANGED <<stage, wants, link, asked, met>>

FNext ==
    \/ \E f \in Fetch : BeginFetch(f) \/ TimeOut(f) \/ Wake(f) \/ Http(f)
    \/ Serve \/ LinkEnds \/ Authenticated \/ Handle

FSpec == FInit /\ [][FNext]_fvars

----------------------------------------------------------------------------
(* Properties.                                                             *)

(* Who waits for the peer either has an answer already or is in            *)
(* pending_fetches, where the answer will find it, and who is in there     *)
(* waits; so a late answer to a fetch that is over reaches at most a fetch *)
(* of the same content.  Only fetches of one content that wait together    *)
(* take each other's place.                                                *)
AwaitedIsPending ==
    /\ \A c \in Asset : entry[c] # Unset =>
          entry[c].of \in Waiting /\ wants[entry[c].of] = c
    /\ \A f \in Waiting \ met :
          resolved[f] # "closed"
          /\ (resolved[f] = Unset => entry[wants[f]] # Unset /\ entry[wants[f]].of = f)

(* What a browser relies on: the connections it has negotiated lead to each *)
(* other, and the fetches over them are answered or told that they are not. *)
BrowserHolds == SettledHaveEachOther /\ AwaitedIsPending
=============================================================================
