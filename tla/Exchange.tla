------------------------------ MODULE Exchange ------------------------------
(****************************************************************************)
(* What the message framing of message/be_acc_msg.h promises to the client   *)
(* in a guest and to the handlers of the daemon: a request is given to a     *)
(* handler as it was sent, once, and the reply that comes back answers it.   *)
(* An exchange that a side gives up, or whose connection ends, is off: then  *)
(* nothing is promised until the connection is opened again.                 *)
(****************************************************************************)
CONSTANTS
    Conn,       \* connections, one per guest
    Message,    \* requests, each with its number n
    Nothing     \* no request, and no Message

VARIABLES
    phase,      \* "idle", "asked", "served", or "off"
    asked,      \* the request of the exchange that is going on
    given,      \* the request its handler was given
    answered    \* the number of the request the last reply answered, or 0

vars == <<phase, asked, given, answered>>

Init ==
    /\ phase = [f \in Conn |-> "idle"]
    /\ asked = [f \in Conn |-> Nothing]
    /\ given = [f \in Conn |-> Nothing]
    /\ answered = [f \in Conn |-> 0]

Goto(f, from, to) == phase[f] = from /\ phase' = [phase EXCEPT ![f] = to]

Ask(f) ==
    /\ Goto(f, "idle", "asked")
    /\ \E m \in Message : asked' = [asked EXCEPT ![f] = m]
    /\ given' = [given EXCEPT ![f] = Nothing]
    /\ UNCHANGED answered

Serve(f) ==
    /\ Goto(f, "asked", "served")
    /\ given' = [given EXCEPT ![f] = asked[f]]
    /\ UNCHANGED <<asked, answered>>

(* The client ends before the first byte of its request is sent. *)
Withdraw(f) ==
    /\ Goto(f, "asked", "idle")
    /\ UNCHANGED <<asked, given, answered>>

Answer(f) ==
    /\ Goto(f, "served", "idle")
    /\ answered' = [answered EXCEPT ![f] = asked[f].n]
    /\ UNCHANGED <<asked, given>>

(* The exchanges of S end: what was asked or given is forgotten.              *)
Break(S) ==
    /\ phase' = [f \in Conn |-> IF f \in S THEN "off" ELSE phase[f]]
    /\ asked' = [f \in Conn |-> IF f \in S THEN Nothing ELSE asked[f]]
    /\ given' = [f \in Conn |-> IF f \in S THEN Nothing ELSE given[f]]
    /\ answered' = [f \in Conn |-> IF f \in S THEN 0 ELSE answered[f]]

Reopen(f) ==
    /\ Goto(f, "off", "idle")
    /\ UNCHANGED <<asked, given, answered>>

Next ==
    \/ \E f \in Conn : Ask(f) \/ Serve(f) \/ Withdraw(f) \/ Answer(f) \/ Reopen(f)
    \/ \E S \in SUBSET Conn : Break(S)

Spec == Init /\ [][Next]_vars
=============================================================================
