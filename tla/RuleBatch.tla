------------------------------ MODULE RuleBatch ------------------------------
(****************************************************************************)
(* What the rest of the daemon may assume of the Open vSwitch rule backend:  *)
(* a batch of flows, or a flush, is one step on the table of one switch,     *)
(* with one of the outcomes of SwitchRules.  A switch to which an earlier    *)
(* command arrived late is Unknown, and nothing is promised of it.           *)
(****************************************************************************)
EXTENDS SwitchRules

CONSTANTS
    Batch,      \* sequences of matches
    Cookie,     \* the cookies contexts have
    Unknown     \* not a table

VARIABLES
    rules,      \* the table of each switch, or Unknown
    answer      \* what the last batch returned, or NoAnswer

NoAnswer == 1

Init == rules = [s \in Switch |-> {}] /\ answer = NoAnswer

Known(s) == rules[s] # Unknown

(* add_rules(context, flows, n): all of it, or none that a flush could find.  *)
Add(s, k, batch) ==
    /\ Known(s)
    /\ \E out \in AddOutcomes(rules[s], k, batch, s) :
          rules' = [rules EXCEPT ![s] = out.table] /\ answer' = out.ret

(* The daemon ends while it works on a batch. *)
Cut(s, k, batch) ==
    /\ Known(s)
    /\ \E out \in AddOutcomes(rules[s], k, batch, s) :
          rules' = [rules EXCEPT ![s] = out.table]
    /\ UNCHANGED answer

(* flush_rules(context) *)
FlushRules(s, k) ==
    /\ Known(s)
    /\ \E out \in FlushOutcomes(rules[s], k) : rules' = [rules EXCEPT ![s] = out.table]
    /\ UNCHANGED answer

(* A switch nothing is known of gives any answer. *)
Blind == answer' \in {0, -1} /\ \E s \in Switch : ~Known(s) /\ UNCHANGED rules

Lose(s) == rules' = [rules EXCEPT ![s] = Unknown] /\ UNCHANGED answer

Next ==
    \/ \E s \in Switch, k \in Cookie, batch \in Batch : Add(s, k, batch) \/ Cut(s, k, batch)
    \/ \E s \in Switch, k \in Cookie : FlushRules(s, k)
    \/ Blind
    \/ \E s \in Switch : Lose(s)

Spec == Init /\ [][Next]_<<rules, answer>>
=============================================================================
