----------------------------- MODULE OvsCommands -----------------------------
(****************************************************************************)
(* The Open vSwitch rule backend, command by command: acc_ovs_add_rules      *)
(* builds the rules of a batch and runs one ovs-ofctl for each, on the host  *)
(* with system() or on the card through an ssh session of its own, and a     *)
(* command that fails is answered by one that flushes the cookie.  The whole *)
(* daemon waits for each command; the process can end while it waits, and a  *)
(* command sent through ssh can run late, or never, without anybody knowing. *)
(****************************************************************************)
EXTENDS FlowRule, Sequences, FiniteSets, Functions

CONSTANTS
    Context,    \* what a session gives the backend: [switch, cookie]
    MaxKept,    \* bound: batches that succeed
    MaxLate,    \* bound: commands that run after the daemon gave them up
    NULL

Switch == {"local", "remote"}

ASSUME CommandAssumption ==
    /\ \A x \in Context : x.switch \in Switch /\ x.cookie \in Nat
    /\ MaxKept \in Nat
    /\ MaxLate \in Nat
    /\ NULL \notin Context

VARIABLES
    daemon,     \* "starting", "up", or what ended the process
    op,         \* "none", "add" or "flush" as asked, "undo" after a failure
    state,      \* struct acc_context*: whose rules they are
    rules,      \* the array of rules of the batch
    i,          \* the rule whose command is next, or is running
    stage,      \* how far the command is
    sessions,   \* ssh sessions allocated
    arrays,     \* arrays of rules allocated
    table,      \* the flow table of each switch
    late,       \* commands a switch may still run
    answer,     \* what the last batch returned, or NoAnswer
    before,     \* history: the table of the switch when op began
    kept,       \* history: batches that succeeded
    muddy       \* history: the switches to which a command came late

jobVars == <<op, state, rules, i, before>>
heapVars == <<sessions, arrays, kept>>
switchVars == <<table, late, muddy>>
editVars == <<daemon, jobVars, stage, heapVars, switchVars, answer>>

(* Not an answer of acc_add_rules. *)
NoAnswer == 1

SshStage == {"connect", "auth", "channel", "open", "exec", "reading"}

Cookie == {x.cookie : x \in Context}

TableRule == {[match |-> b.match, action |-> b.action, cookie |-> k] :
                 b \in OvsRule, k \in Cookie}

CommandType ==
    {[switch |-> x.switch, cookie |-> x.cookie, add |-> a] :
        x \in Context, a \in {<<>>} \cup {<<b>> : b \in OvsRule}}

EditTypeOK ==
    /\ op \in {"none", "add", "undo", "flush"}
    /\ state \in Context \cup {NULL} /\ (op # "none" => state # NULL)
    /\ rules \in Seq(OvsRule)
    /\ i \in Nat /\ (op = "add" => i \in 1 .. Len(rules) + 1)
    /\ stage \in {"none", "send", "waiting"} \cup SshStage
    /\ sessions \in Nat /\ arrays \in Nat /\ kept \in Nat
    /\ table \in [Switch -> SUBSET TableRule]
    /\ late \subseteq CommandType
    /\ answer \in {NoAnswer, 0, -1}
    /\ before \subseteq TableRule
    /\ muddy \subseteq Switch

EditInit ==
    /\ op = "none" /\ stage = "none"
    /\ state = NULL /\ rules = <<>> /\ i = 1 /\ before = {}
    /\ sessions = 0 /\ arrays = 0 /\ kept = 0
    /\ table = [s \in Switch |-> {}] /\ late = {} /\ muddy = {}
    /\ answer = NoAnswer

Idle == daemon = "up" /\ op = "none"

Busy == daemon = "up" /\ op # "none"

-----------------------------------------------------------------------------

(* One ovs-ofctl and what it does to a table. *)
Command ==
    IF op = "add" THEN [switch |-> state.switch, cookie |-> state.cookie, add |-> <<rules[i]>>]
    ELSE [switch |-> state.switch, cookie |-> state.cookie, add |-> <<>>]

Applied(t, c) ==
    IF c.add = <<>> THEN {r \in t : r.cookie # c.cookie}
    ELSE {r \in t : r.match # c.add[1].match}
         \cup {[match |-> c.add[1].match, action |-> c.add[1].action, cookie |-> c.cookie]}

Runs(c) == table' = [table EXCEPT ![c.switch] = Applied(@, c)]

(* A command the daemon stops waiting for has run, never runs, or runs later. *)
RunsOrNot == (Runs(Command) \/ UNCHANGED table) /\ UNCHANGED <<late, muddy>>

LeftBehind ==
    \/ RunsOrNot
    \/ /\ Cardinality(late) < MaxLate
       /\ late' = late \cup {Command}
       /\ UNCHANGED <<table, muddy>>

(* Nothing is asked of the backend. *)
Over ==
    /\ op' = "none" /\ stage' = "none"
    /\ state' = NULL /\ rules' = <<>> /\ i' = 1 /\ before' = {}

(* The process ends: what it held goes, what it had sent stays. *)
Die(why) ==
    /\ daemon' = why
    /\ Over
    /\ sessions' = 0 /\ arrays' = 0 /\ kept' = 0
    /\ UNCHANGED answer

-----------------------------------------------------------------------------

(* The function that was called returns. *)
Returns(ret) ==
    /\ Over
    /\ answer' = IF op = "flush" THEN answer ELSE ret
    /\ UNCHANGED daemon

(* Mutant: a rule that fails is skipped. *)
FailsSkipping ==
    IF op = "add"
    THEN /\ i' = i + 1 /\ stage' = "send"
         /\ UNCHANGED <<daemon, op, state, rules, before, answer, arrays, kept>>
    ELSE Returns(-1) /\ UNCHANGED <<arrays, kept>>

(* Mutant: a flush that fails is sent again. *)
FailsRetrying ==
    /\ op' = "undo" /\ stage' = "send"
    /\ arrays' = IF op = "add" THEN arrays - 1 ELSE arrays
    /\ UNCHANGED <<daemon, state, rules, i, before, answer, kept>>

(* execute_openflow_rule returns -1: the array is freed and the whole cookie  *)
(* flushed.  A flush that fails just returns.                                 *)
Fails ==
    IF op = "add"
    THEN /\ op' = "undo" /\ stage' = "send"
         /\ arrays' = arrays - 1
         /\ UNCHANGED <<daemon, state, rules, i, before, answer, kept>>
    ELSE Returns(-1) /\ UNCHANGED <<arrays, kept>>

(* It returns 0: the next rule is next, or the flush is over. *)
Succeeds ==
    IF op = "add"
    THEN /\ i' = i + 1 /\ stage' = "send"
         /\ UNCHANGED <<daemon, op, state, rules, before, answer, arrays, kept>>
    ELSE Returns(-1) /\ UNCHANGED <<arrays, kept>>

(* acc_ovs_make_ofctl_rules: the rules of a batch, none if one of its flows   *)
(* has none or calloc fails.                                                  *)
Built(batch) ==
    {b \in [1 .. Len(batch) -> UNION {Build(batch[n]) : n \in 1 .. Len(batch)}] :
        \A n \in 1 .. Len(batch) : b[n] \in Build(batch[n])}

(* acc_ovs_add_rules(state, flows, n_flows) *)
AddRules(x, batch) ==
    /\ Idle
    /\ kept < MaxKept
    /\ \/ /\ \E b \in Built(batch) : rules' = b
          /\ op' = "add" /\ stage' = "send" /\ i' = 1
          /\ state' = x
          /\ before' = table[x.switch]
          /\ arrays' = arrays + 1
          /\ UNCHANGED answer
       \/ answer' = -1 /\ UNCHANGED <<jobVars, stage, arrays>>
    /\ UNCHANGED <<daemon, sessions, kept, switchVars>>

(* acc_ovs_flush_rules(state) *)
FlushRules(x) ==
    /\ Idle
    /\ op' = "flush" /\ stage' = "send"
    /\ state' = x
    /\ before' = table[x.switch]
    /\ UNCHANGED <<daemon, rules, i, heapVars, switchVars, answer>>

(* The batch is through: it returns 0 and keeps its array of rules. *)
AllRun ==
    /\ Busy /\ stage = "send" /\ op = "add"
    /\ i > Len(rules)
    /\ Returns(0)
    /\ kept' = kept + 1
    /\ UNCHANGED <<sessions, arrays, switchVars>>

ToSend == Busy /\ stage = "send" /\ (op = "add" => i <= Len(rules))

At(place) == Busy /\ stage = place

Goes(place) == stage' = place /\ UNCHANGED <<daemon, jobVars, answer, arrays, kept>>

(* system(): a shell is started, or not. *)
Shell ==
    /\ ToSend /\ state.switch = "local"
    /\ Goes("waiting") \/ Fails
    /\ UNCHANGED <<sessions, switchVars>>

(* It reports that the command worked, or that it did not: then the table may *)
(* have changed all the same.                                                 *)
ShellReturns ==
    /\ At("waiting")
    /\ \/ Runs(Command) /\ Succeeds /\ UNCHANGED <<late, muddy>>
       \/ RunsOrNot /\ Fails
    /\ UNCHANGED sessions

(* The log line of a remote command prints the port as a string; then ssh_new.*)
SshNew ==
    /\ ToSend /\ state.switch = "remote"
    /\ \/ Goes("connect") /\ sessions' = sessions + 1
       \/ Fails /\ UNCHANGED sessions
       \/ Die("remote_exec")
    /\ UNCHANGED switchVars

After == [connect |-> "auth", auth |-> "channel", channel |-> "open", open |-> "exec"]

(* Mutant: an error only reports. *)
SshStepLeaks ==
    /\ \E place \in DOMAIN After : At(place) /\ (Goes(After[place]) \/ Fails)
    /\ UNCHANGED <<sessions, switchVars>>

(* Mutant: message_error and the caller both free the session. *)
SshStepFreesTwice ==
    /\ \E place \in DOMAIN After :
          /\ At(place)
          /\ \/ Goes(After[place]) /\ UNCHANGED sessions
             \/ Fails /\ sessions' = sessions - 2
    /\ UNCHANGED switchVars

(* ssh_connect, ssh_userauth_password, ssh_channel_new and _open_session; an  *)
(* error frees the session (message_error).                                   *)
SshStep ==
    /\ \E place \in DOMAIN After :
          /\ At(place)
          /\ \/ Goes(After[place]) /\ UNCHANGED sessions
             \/ Fails /\ sessions' = sessions - 1
    /\ UNCHANGED switchVars

(* ssh_channel_request_exec: an error may hide a command that runs.           *)
SshExec ==
    /\ At("exec")
    /\ \/ Goes("reading") /\ UNCHANGED <<sessions, switchVars>>
       \/ Fails /\ LeftBehind /\ sessions' = sessions - 1

(* The read loops end: success, whatever the command did.  An error of        *)
(* ssh_channel_read is taken for 2^32 - 1 bytes.                              *)
SshRead ==
    /\ At("reading")
    /\ LeftBehind
    /\ \/ Succeeds /\ sessions' = sessions - 1
       \/ Die("remote_exec")

(* A command the daemon does not wait for any more reaches its switch. *)
LateRuns ==
    /\ \E c \in late : /\ Runs(c)
                       /\ late' = late \ {c}
                       /\ muddy' = muddy \cup {c.switch}
    /\ UNCHANGED <<daemon, jobVars, stage, heapVars, answer>>

Killed ==
    /\ daemon \in {"starting", "up"}
    /\ Die("killed")
    /\ IF stage \in {"waiting", "exec", "reading"} THEN LeftBehind ELSE UNCHANGED switchVars

(* What the daemon does next by itself, and what it only waits for. *)
EditStep == AllRun \/ Shell \/ SshNew \/ SshStep \/ SshExec

EditNext == EditStep \/ ShellReturns \/ SshRead \/ LateRuns \/ Killed
=============================================================================
