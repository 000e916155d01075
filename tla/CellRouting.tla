---------------------------- MODULE CellRouting ----------------------------
(***************************************************************************)
(* Relay cells between event loops: requests of libp2p whose answers are   *)
(* cells as well.  Gateways build circuits; gateways (gateway/src/p2p.rs)  *)
(* and nodes (node-runner/src/p2p.rs) relay them, and acknowledge a cell in*)
(* two ways: with an empty answer, or with a padding cell.  What answers a *)
(* cell that was forwarded is sent on to where that came from, as a request*)
(* that has an answer again.                                               *)
(*                                                                         *)
(* What a relay knows of circuits is modelled in Circuits; here it accepts *)
(* a cell or refuses it.  Data cells are never sent, since no circuit      *)
(* becomes ready.                                                          *)
(***************************************************************************)
EXTENDS Naturals

CONSTANTS Gateway, Node,
          Enabled,          \* the gateways with zk_relay_enabled
          MaxBuilds, MaxPasses   \* bounds of the model

ASSUME CellAssumption == Enabled \subseteq Gateway /\ MaxBuilds \in Nat /\ MaxPasses \in Nat

VARIABLES cells,      \* those that were sent and not received
          answers,    \* cells that were received, with their answers
          started     \* circuits that were started

rvars == <<cells, answers, started>>

RInit == cells = {} /\ answers = {} /\ started = 0

\* The loop of `from` sends a cell of circuit c to `to`, and remembers, if
\* purpose is "forward", to pass what answers it on to `back`.  passes counts
\* how often that has happened already.
RelayCell(c, from, to, cell, purpose, back, passes) ==
    [c |-> c, from |-> from, to |-> to, cell |-> cell, purpose |-> purpose,
     back |-> back, passes |-> passes]

\* BuildCircuit, through two relays.
StartBuild(g) ==
    /\ g \in Enabled /\ started < MaxBuilds /\ started' = started + 1
    /\ \E entry \in (Gateway \cup Node) \ {g} :
         cells' = cells \cup {RelayCell(started', g, entry, "create", "build", g, 0)}
    /\ UNCHANGED answers

----------------------------------------------------------------------------
(* handle_relay_cell_request and handle_inbound_relay_cell.                *)

\* Mutant: gateways acknowledge as nodes do.
AckPadding(p) == "padding"

Ack(p) == IF p \in Gateway THEN "empty" ELSE "padding"

Answered(m, answer) == /\ cells' = cells \ {m}
                       /\ answers' = answers \cup {<<m, answer>>}
                       /\ UNCHANGED started

\* An error: relaying is disabled, or process_cell refuses the cell.
Refuse(m) ==
    /\ m.to \in Gateway \ Enabled \/ m.cell \in {"create", "extend"}
    /\ Answered(m, "error")

CreateCell(m) == m.cell = "create" /\ m.to \notin Gateway \ Enabled /\ Answered(m, "created")

Extend(m) ==
    /\ m.cell = "extend" /\ m.to \notin Gateway \ Enabled
    /\ \E next \in (Gateway \cup Node) \ {m.from, m.to} :
         cells' = (cells \ {m}) \cup
                         {RelayCell(m.c, m.to, next, "create", "forward", m.from, 0)}
    /\ answers' = answers \cup {<<m, Ack(m.to)>>} /\ UNCHANGED started

\* process_cell drops every other cell.
Drop(m) ==
    /\ m.cell \notin {"create", "extend"} /\ m.to \notin Gateway \ Enabled
    /\ Answered(m, Ack(m.to))

----------------------------------------------------------------------------
(* handle_content_response.                                                *)

IsAck(p, cell) == cell \in (IF p \in Gateway THEN {"empty"} ELSE {"empty", "padding"})

\* process_created_response: the second cell is sent and not tracked.
GoOn(m, answer) ==
    /\ m.purpose = "build" /\ answer = "created"
    /\ cells' = cells \cup {RelayCell(m.c, m.from, m.to, "extend", "none", m.from, 0)}

PassOn(m, answer) ==
    /\ m.purpose = "forward" /\ answer # "error" /\ ~IsAck(m.from, answer)
    /\ m.passes < MaxPasses
    /\ cells' = cells \cup {RelayCell(m.c, m.from, m.back, answer, "forward", m.back, m.passes + 1)}

\* Errors, acknowledgements, and answers of which nothing is known.
Ignore(m, answer) ==
    /\ \/ m.purpose = "none" \/ answer = "error"
       \/ m.purpose = "build" /\ answer # "created"
       \/ m.purpose = "forward" /\ IsAck(m.from, answer)
    /\ UNCHANGED cells

HandleAnswer(m, answer) ==
    /\ <<m, answer>> \in answers /\ answers' = answers \ {<<m, answer>>}
    /\ GoOn(m, answer) \/ PassOn(m, answer) \/ Ignore(m, answer)
    /\ UNCHANGED started

\* OutboundFailure, whether the peer had received the cell or not.
Lost(m) == m \in cells /\ cells' = cells \ {m} /\ UNCHANGED <<answers, started>>
LostAnswer(m, answer) ==
    /\ <<m, answer>> \in answers /\ answers' = answers \ {<<m, answer>>}
    /\ UNCHANGED <<cells, started>>

RNext ==
    \/ \E g \in Gateway : StartBuild(g)
    \/ \E m \in cells : Refuse(m) \/ CreateCell(m) \/ Extend(m) \/ Drop(m) \/ Lost(m)
    \/ \E a \in answers : HandleAnswer(a[1], a[2]) \/ LostAnswer(a[1], a[2])

RSpec == RInit /\ [][RNext]_rvars

----------------------------------------------------------------------------
\* "Acks terminate the chain": what comes back for a forwarded cell is passed
\* on once, and its acknowledgement is not, whichever kinds of programs the
\* two relays are.  (A client that acknowledges with padding, as nodes do,
\* would exchange it with a relay that is a gateway for ever; but only
\* gateways build circuits.)
ChainsEnd == \A m \in cells : m.passes <= 1
=============================================================================
