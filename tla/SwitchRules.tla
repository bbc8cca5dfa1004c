----------------------------- MODULE SwitchRules -----------------------------
(****************************************************************************)
(* What the Open vSwitch rule backend (rule/openvswitch/acc_ovs_rule.c) does *)
(* to the flow table of a switch.  A rule is the match it applies to and the *)
(* cookie of the context that installed it; its action, priority and bridge  *)
(* are the same for every property here and are left out.  A table is a set  *)
(* of rules with at most one rule per match: add-flow replaces.              *)
(****************************************************************************)
EXTENDS Integers, Sequences, Functions

CONSTANTS
    Match,          \* the match parts of the flows guests ask for
    Unsupported     \* the matches of a protocol that is neither TCP nor UDP

ASSUME MatchAssumption == Unsupported \subseteq Match

(* system() reports what a local command did; the ssh helper does not.        *)
Switch == {"local", "remote"}

(* old marks the rules an earlier life of the daemon left in the switch.      *)
Rule == [match : Match, cookie : Nat, old : BOOLEAN]

(* add-flow for every match of S under cookie k. *)
Install(table, k, S) ==
    {r \in table : r.match \notin S}
        \cup {[match |-> m, cookie |-> k, old |-> FALSE] : m \in S}

(* Mutant: del-flows without the cookie. *)
FlushEverything(table, k) == {}

(* del-flows cookie=k/-1: a cookie is all the command can tell rules by. *)
Flush(table, k) == {r \in table : r.cookie # k}

Aged(table) == {[r EXCEPT !.old = TRUE] : r \in table}

(* The matches that reach switch sw when every command of batch reported      *)
(* success: ssh_remote_exec never reads the exit status of what it ran.       *)
Reached(sw, batch) ==
    IF sw = "remote" THEN SUBSET Range(batch) ELSE {Range(batch)}

(* Mutant: the command is never sent. *)
FlushSkipped(table, k) == {[table |-> table, done |-> TRUE]}

(* acc_ovs_flush_rules: the command works, or it fails; no caller asks which. *)
FlushOutcomes(table, k) ==
    {[table |-> Flush(table, k), done |-> TRUE], [table |-> table, done |-> FALSE]}

(* acc_ovs_make_ofctl_rules finds a command for every flow of the batch. *)
Buildable(batch) == Range(batch) \cap Unsupported = {}

(* acc_ovs_edit_rules with is_delete = 0.  All commands are built before the  *)
(* first one runs, so a flow that cannot be built (or a failed calloc)        *)
(* changes nothing.  A command that reports failure may have had its effect;  *)
(* the handler then flushes the whole cookie, not what this batch added.      *)
(* BOUND: a command whose ssh connection broke has run, or never will, when   *)
(* the next one does.  OvsCommands takes the batch apart and shows this, and  *)
(* has the late command too.                                                  *)
AddOutcomes(table, k, batch, sw) ==
    LET Added(n) == {Install(table, k, S) : S \in Reached(sw, SubSeq(batch, 1, n))}
        Failed == {n \in 0 .. Len(batch) : batch # <<>>}
    IN  {[table |-> table, ret |-> -1]}
        \cup (IF ~Buildable(batch) THEN {}
              ELSE {[table |-> t, ret |-> 0] : t \in Added(Len(batch))}
                   \cup {[table |-> o.table, ret |-> -1] :
                            o \in UNION {FlushOutcomes(t, k) :
                                t \in UNION {Added(n) : n \in Failed}}})
=============================================================================
