---------------------------- MODULE ContentStore ----------------------------
(***************************************************************************)
(* What a node's storage promises, one request at a time: content that can *)
(* be read back, pins that keep it, and a copy on disk that a restart      *)
(* falls back to.                                                          *)
(***************************************************************************)
CONSTANT Content        \* content identifiers

VARIABLES
    stored,     \* content that can be read back
    kept,       \* content that is pinned
    durable     \* what a restart would find stored and pinned

vars == <<stored, kept, durable>>

TypeOK ==
    /\ stored \in SUBSET Content /\ kept \in SUBSET Content
    /\ durable \in [stored : SUBSET Content, kept : SUBSET Content]

Init ==
    /\ stored = {} /\ kept = {}
    /\ durable = [stored |-> {}, kept |-> {}]

\* Content becomes readable; storing content again resets its pin.
Put(c) ==
    /\ stored' = stored \cup {c}
    /\ kept' \in {kept, kept \ {c}}
    /\ durable' \in {durable, [durable EXCEPT !.stored = @ \cup {c}]}

\* Only content that is not pinned is ever removed.  Its file disappears at
\* once, for a restart too; what else a restart finds changes at the next Flush.
Remove(c) ==
    /\ c \in stored \ kept
    /\ stored' = stored \ {c}
    /\ durable' \in {durable, [durable EXCEPT !.stored = @ \ {c}]}
    /\ UNCHANGED kept

Pin(c)   == kept' = kept \cup {c} /\ UNCHANGED <<stored, durable>>
Unpin(c) == kept' = kept \ {c} /\ UNCHANGED <<stored, durable>>

Flush ==
    /\ durable' = [stored |-> stored, kept |-> kept]
    /\ UNCHANGED <<stored, kept>>

Restart ==
    /\ stored' = durable.stored /\ kept' = durable.kept
    /\ UNCHANGED durable

Next ==
    \/ \E c \in Content : Put(c) \/ Remove(c) \/ Pin(c) \/ Unpin(c)
    \/ Flush \/ Restart

Spec == Init /\ [][Next]_vars
=============================================================================
