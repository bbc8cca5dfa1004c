---------------------------- MODULE CardDirectory ----------------------------
(****************************************************************************)
(* What the card table of the backend promises: a set of registered paths    *)
(* that never exceeds its capacity, to which a registration adds one absent  *)
(* path and from which a removal takes at most the path it names.            *)
(****************************************************************************)
EXTENDS Naturals, FiniteSets

CONSTANTS Path, Capacity

VARIABLE registered

Register(p) ==
    /\ p \notin registered
    /\ Cardinality(registered) < Capacity
    /\ registered' = registered \cup {p}

Unregister(p) == registered' = registered \ {p}

Init == registered = {}

Next == \E p \in Path : Register(p) \/ Unregister(p)

Spec == Init /\ [][Next]_registered
=============================================================================
