---------------------------- MODULE OffloadProofs ----------------------------
(****************************************************************************)
(* Theorems about Offload: what the rule of a flow is, and the invariants of *)
(* the run "offload", for any cards, flows and batches.                      *)
(****************************************************************************)
EXTENDS Offload, FiniteSetTheorems, TLAPS

USE DEF Field

-----------------------------------------------------------------------------

(* No two fields are printed into one buffer, so whatever order the           *)
(* arguments of an snprintf are evaluated in, each buffer holds its field.    *)
LEMMA OneBufferEach ==
    ASSUME NEW fields \in SUBSET Field
    PROVE  LastPrinted(fields) = {[f \in fields |-> f]}
<1>1. \A f, g \in Field : PrintBuffer[f] = PrintBuffer[g] => f = g
    BY DEF PrintBuffer
<1>2. [f \in fields |-> f] \in LastPrinted(fields)
    BY <1>1 DEF LastPrinted
<1>3. ASSUME NEW last \in LastPrinted(fields)
      PROVE  last = [f \in fields |-> f]
    <2>1. last \in [fields -> fields]
        BY DEF LastPrinted
    <2>2. \A f \in fields : last[f] = f
        <3>1. ASSUME NEW f \in fields PROVE PrintBuffer[last[f]] = PrintBuffer[f]
            BY DEF LastPrinted
        <3>2. ASSUME NEW f \in fields PROVE f \in Field /\ last[f] \in Field
            BY <2>1
        <3>3. QED BY <1>1, <3>1, <3>2
    <2>3. QED BY <2>1, <2>2
<1>4. QED BY <1>2, <1>3

LEMMA TextsShow ==
    ASSUME NEW fields \in SUBSET Field, NEW value \in [Field -> Value]
    PROVE  Texts(fields, value) = {Shown(fields, value)}
<1>1. Texts(fields, value) =
        {[f \in fields |-> value[last[f]]] : last \in {[g \in fields |-> g]}}
    BY OneBufferEach DEF Texts
<1>2. [f \in fields |-> value[[g \in fields |-> g][f]]] = Shown(fields, value)
    BY DEF Shown
<1>3. QED BY <1>1, <1>2

(* A flow of TCP or UDP has exactly one rule, which shows the value of every  *)
(* field the flow names; any other flow has none.                             *)
THEOREM BuildExact ==
    ASSUME NEW flow \in Flow
    PROVE  Build(flow) = IF Supported(flow)
                         THEN {[match |-> MatchOf(flow), action |-> ActionOf(flow)]}
                         ELSE {}
<1> DEFINE ports == flow.mask \cap {"src_port", "dst_port"}
           addresses == flow.mask \ ports
<1>1. /\ ports \in SUBSET Field /\ addresses \in SUBSET Field
      /\ flow.update \in SUBSET Field
      /\ flow.match \in [Field -> Value] /\ flow.set \in [Field -> Value]
    BY DEF Flow
<1>2. /\ Texts(ports, flow.match) = {Shown(ports, flow.match)}
      /\ Texts(addresses, flow.match) = {Shown(addresses, flow.match)}
      /\ Texts(flow.update, flow.set) = {Shown(flow.update, flow.set)}
    <2> HIDE DEF ports, addresses
    <2>1. QED BY <1>1, TextsShow
<1>3. CASE ~Supported(flow)
    BY <1>3 DEF Build
<1>4. CASE Supported(flow)
    <2>1. Build(flow) =
            {[match |-> [protocol |-> flow.protocol, addresses |-> a, ports |-> p],
              action |-> u] :
                a \in Texts(addresses, flow.match), p \in Texts(ports, flow.match),
                u \in Texts(flow.update, flow.set)}
        BY <1>4 DEF Build
    <2>2. Build(flow) =
            {[match |-> [protocol |-> flow.protocol, addresses |-> a, ports |-> p],
              action |-> u] :
                a \in {Shown(addresses, flow.match)}, p \in {Shown(ports, flow.match)},
                u \in {Shown(flow.update, flow.set)}}
        BY <2>1, <1>2
    <2>3. /\ MatchOf(flow) = [protocol |-> flow.protocol,
                              addresses |-> Shown(addresses, flow.match),
                              ports |-> Shown(ports, flow.match)]
          /\ ActionOf(flow) = Shown(flow.update, flow.set)
        BY DEF MatchOf, ActionOf
    <2> HIDE DEF ports, addresses
    <2>4. QED BY <2>2, <2>3, <1>4
<1>5. QED BY <1>3, <1>4

-----------------------------------------------------------------------------

(* The invariant of the backend in three parts: what it was asked and its     *)
(* array of rules, its ssh session, and the switches.                         *)
JobOK ==
    /\ op \in {"none", "add", "undo", "flush"}
    /\ state \in Context \cup {NULL} /\ (op # "none" => state # NULL)
    /\ rules \in Seq(OvsRule)
    /\ i \in Nat /\ (op = "add" => i \in 1 .. Len(rules) + 1)
    /\ stage \in {"none", "send", "waiting"} \cup SshStage
    /\ arrays \in Nat /\ kept \in Nat
    /\ answer \in {NoAnswer, 0, -1}
    /\ before \subseteq TableRule
    /\ op = "none" <=> stage = "none"
    /\ (op = "add" /\ stage # "send") => i <= Len(rules)
    /\ arrays = IF op = "add" THEN kept + 1 ELSE kept

SshOK == sessions = IF stage \in SshStage THEN 1 ELSE 0

SwitchOK ==
    /\ table \in [Switch -> SUBSET TableRule]
    /\ late \subseteq CommandType
    /\ muddy \subseteq Switch

LEMMA CommandTyped ==
    ASSUME JobOK, op # "none", op = "add" => i <= Len(rules)
    PROVE  Command \in CommandType
<1>1. state \in Context
    BY DEF JobOK
<1>2. CASE op = "add"
    <2>1. rules[i] \in OvsRule
        BY <1>2 DEF JobOK
    <2>2. QED BY <1>1, <1>2, <2>1 DEF Command, CommandType
<1>3. CASE op # "add"
    BY <1>1, <1>3 DEF Command, CommandType
<1>4. QED BY <1>2, <1>3

LEMMA RunsTyped ==
    ASSUME SwitchOK, NEW c \in CommandType, Runs(c)
    PROVE  table' \in [Switch -> SUBSET TableRule] /\ c.switch \in Switch
<1>1. PICK x \in Context, a \in {<<>>} \cup {<<b>> : b \in OvsRule} :
        c = [switch |-> x.switch, cookie |-> x.cookie, add |-> a]
    BY DEF CommandType
<1>2. x.switch \in Switch /\ x.cookie \in Cookie
    BY CommandAssumption DEF Cookie
<1>3. ASSUME NEW t \in SUBSET TableRule PROVE Applied(t, c) \subseteq TableRule
    <2>1. CASE a = <<>>
        BY <1>1, <2>1 DEF Applied
    <2>2. CASE a # <<>>
        <3>1. PICK b \in OvsRule : a = <<b>>
            BY <2>2
        <3>2. [match |-> b.match, action |-> b.action, cookie |-> x.cookie] \in TableRule
            BY <1>2 DEF TableRule
        <3>3. c.add # <<>> /\ c.add[1] = b /\ c.cookie = x.cookie
            BY <1>1, <3>1
        <3>4. QED BY <3>2, <3>3 DEF Applied
    <2>3. QED BY <2>1, <2>2
<1>4. c.switch \in Switch
    BY <1>1, <1>2
<1>5. QED BY <1>3, <1>4 DEF Runs, SwitchOK

LEMMA RunsOrNotTyped ==
    ASSUME SwitchOK, Command \in CommandType, RunsOrNot
    PROVE  SwitchOK'
BY RunsTyped DEF RunsOrNot, SwitchOK

LEMMA LeftBehindTyped ==
    ASSUME SwitchOK, Command \in CommandType, LeftBehind
    PROVE  SwitchOK'
<1>1. CASE RunsOrNot
    BY <1>1, RunsOrNotTyped
<1>2. CASE late' = late \cup {Command} /\ UNCHANGED <<table, muddy>>
    BY <1>2 DEF SwitchOK, CommandType, TableRule
<1>3. QED BY <1>1, <1>2 DEF LeftBehind

LEMMA OverKeeps ==
    ASSUME JobOK, Over, arrays' = kept', kept' \in Nat, answer' \in {NoAnswer, 0, -1}
    PROVE  JobOK' /\ stage' = "none"
BY DEF JobOK, Over, TableRule

LEMMA DieKeeps ==
    ASSUME JobOK, NEW why, Die(why)
    PROVE  JobOK' /\ SshOK' /\ stage' = "none"
<1>1. JobOK' /\ stage' = "none"
    <2>1. arrays' = 0 /\ kept' = 0 /\ answer' = answer /\ Over
        BY DEF Die
    <2>2. QED BY <2>1, OverKeeps DEF JobOK
<1>2. QED BY <1>1 DEF Die, SshOK, SshStage

LEMMA FailsKeeps ==
    ASSUME JobOK, op # "none", Fails
    PROVE  JobOK' /\ stage' \in {"none", "send"}
<1>1. CASE op = "add"
    BY <1>1 DEF JobOK, Fails, TableRule
<1>2. CASE op # "add"
    <2>1. Over /\ arrays' = kept' /\ kept' \in Nat /\ answer' \in {NoAnswer, 0, -1}
        BY <1>2 DEF Fails, Returns, JobOK
    <2>2. QED BY <2>1, OverKeeps
<1>3. QED BY <1>1, <1>2

LEMMA SucceedsKeeps ==
    ASSUME JobOK, op # "none", stage # "send", Succeeds
    PROVE  JobOK' /\ stage' \in {"none", "send"}
<1>1. CASE op = "add"
    BY <1>1 DEF JobOK, Succeeds, TableRule
<1>2. CASE op # "add"
    <2>1. Over /\ arrays' = kept' /\ kept' \in Nat /\ answer' \in {NoAnswer, 0, -1}
        BY <1>2 DEF Succeeds, Returns, JobOK
    <2>2. QED BY <2>1, OverKeeps
<1>3. QED BY <1>1, <1>2

LEMMA GoesKeeps ==
    ASSUME JobOK, op # "none", op = "add" => i <= Len(rules),
           NEW place \in {"waiting"} \cup SshStage, Goes(place)
    PROVE  JobOK' /\ stage' = place
BY DEF JobOK, Goes, jobVars, TableRule, SshStage
-----------------------------------------------------------------------------

EditInv == JobOK /\ SshOK /\ SwitchOK

(* The backend's own steps, command by command. *)
LEMMA EditKeeps ==
    ASSUME EditInv, EditNext
    PROVE  EditInv'
<1> USE DEF EditInv
<1>1. CASE AllRun
    <2>1. Over /\ arrays' = kept' /\ kept' \in Nat /\ answer' \in {NoAnswer, 0, -1}
        BY <1>1 DEF AllRun, Returns, JobOK
    <2>2. JobOK' /\ stage' = "none"
        BY <2>1, OverKeeps
    <2>3. SshOK' /\ SwitchOK'
        BY <1>1, <2>2 DEF AllRun, SshOK, SshStage, SwitchOK, switchVars
    <2>4. QED BY <2>2, <2>3
<1>2. CASE Shell
    <2>1. JobOK' /\ stage' \in {"none", "send", "waiting"}
        BY <1>2, GoesKeeps, FailsKeeps DEF Shell, ToSend, Busy
    <2>2. SshOK' /\ SwitchOK'
        BY <1>2, <2>1 DEF Shell, ToSend, SshOK, SshStage, SwitchOK, switchVars
    <2>3. QED BY <2>1, <2>2
<1>3. CASE SshNew
    <2>1. SwitchOK'
        BY <1>3 DEF SshNew, SwitchOK, switchVars
    <2>2. CASE Goes("connect") /\ sessions' = sessions + 1
        <3>1. JobOK' /\ stage' = "connect"
            BY <1>3, <2>2, GoesKeeps DEF SshNew, ToSend, Busy, SshStage
        <3>2. QED BY <1>3, <2>1, <2>2, <3>1 DEF SshNew, ToSend, SshOK, SshStage
    <2>3. CASE Fails /\ UNCHANGED sessions
        <3>1. JobOK' /\ stage' \in {"none", "send"}
            BY <1>3, <2>3, FailsKeeps DEF SshNew, ToSend, Busy
        <3>2. QED BY <1>3, <2>1, <2>3, <3>1 DEF SshNew, ToSend, SshOK, SshStage
    <2>4. CASE Die("remote_exec")
        BY <2>1, <2>4, DieKeeps
    <2>5. QED BY <1>3, <2>2, <2>3, <2>4 DEF SshNew
<1>4. CASE SshStep
    <2>1. SwitchOK'
        BY <1>4 DEF SshStep, SwitchOK, switchVars
    <2>2. PICK place \in DOMAIN After :
            /\ At(place)
            /\ \/ Goes(After[place]) /\ UNCHANGED sessions
               \/ Fails /\ sessions' = sessions - 1
        BY <1>4 DEF SshStep
    <2>3. place \in SshStage /\ After[place] \in SshStage /\ place # "send"
        BY DEF After, SshStage
    <2>4. stage = place /\ op # "none" /\ (op = "add" => i <= Len(rules))
        BY <2>2, <2>3 DEF At, Busy, JobOK
    <2>5. CASE Goes(After[place]) /\ UNCHANGED sessions
        <3>1. JobOK' /\ stage' = After[place]
            BY <2>3, <2>4, <2>5, GoesKeeps
        <3>2. QED BY <2>1, <2>3, <2>4, <2>5, <3>1 DEF SshOK
    <2>6. CASE Fails /\ sessions' = sessions - 1
        <3>1. JobOK' /\ stage' \in {"none", "send"}
            BY <2>4, <2>6, FailsKeeps
        <3>2. QED BY <2>1, <2>3, <2>4, <2>6, <3>1 DEF SshOK, SshStage
    <2>7. QED BY <2>2, <2>5, <2>6
<1>5. CASE SshExec
    <2>1. stage = "exec" /\ op # "none" /\ (op = "add" => i <= Len(rules))
        BY <1>5 DEF SshExec, At, Busy, JobOK
    <2>2. CASE Goes("reading") /\ UNCHANGED <<sessions, switchVars>>
        <3>1. JobOK' /\ stage' = "reading"
            BY <2>1, <2>2, GoesKeeps DEF SshStage
        <3>2. QED BY <2>1, <2>2, <3>1 DEF SshOK, SshStage, SwitchOK, switchVars
    <2>3. CASE Fails /\ LeftBehind /\ sessions' = sessions - 1
        <3>1. JobOK' /\ stage' \in {"none", "send"}
            BY <2>1, <2>3, FailsKeeps
        <3>2. SwitchOK'
            BY <2>1, <2>3, CommandTyped, LeftBehindTyped
        <3>3. QED BY <2>1, <2>3, <3>1, <3>2 DEF SshOK, SshStage
    <2>4. QED BY <1>5, <2>2, <2>3 DEF SshExec
<1>6. CASE ShellReturns
    <2>1. stage = "waiting" /\ op # "none" /\ (op = "add" => i <= Len(rules))
        BY <1>6 DEF ShellReturns, At, Busy, JobOK
    <2>2. Command \in CommandType
        BY <2>1, CommandTyped
    <2>3. JobOK' /\ stage' \in {"none", "send"}
        BY <1>6, <2>1, SucceedsKeeps, FailsKeeps DEF ShellReturns
    <2>4. SwitchOK'
        <3>1. CASE Runs(Command) /\ UNCHANGED <<late, muddy>>
            BY <2>2, <3>1, RunsOrNotTyped DEF RunsOrNot
        <3>2. CASE RunsOrNot
            BY <2>2, <3>2, RunsOrNotTyped
        <3>3. QED BY <1>6, <3>1, <3>2 DEF ShellReturns
    <2>5. QED BY <1>6, <2>1, <2>3, <2>4 DEF ShellReturns, SshOK, SshStage
<1>7. CASE SshRead
    <2>1. stage = "reading" /\ op # "none" /\ (op = "add" => i <= Len(rules))
        BY <1>7 DEF SshRead, At, Busy, JobOK
    <2>2. SwitchOK'
        BY <1>7, <2>1, CommandTyped, LeftBehindTyped DEF SshRead
    <2>3. CASE Succeeds /\ sessions' = sessions - 1
        <3>1. JobOK' /\ stage' \in {"none", "send"}
            BY <2>1, <2>3, SucceedsKeeps
        <3>2. QED BY <2>1, <2>2, <2>3, <3>1 DEF SshOK, SshStage
    <2>4. CASE Die("remote_exec")
        BY <2>2, <2>4, DieKeeps
    <2>5. QED BY <1>7, <2>3, <2>4 DEF SshRead
<1>8. CASE LateRuns
    <2>1. PICK c \in late : Runs(c) /\ late' = late \ {c} /\ muddy' = muddy \cup {c.switch}
        BY <1>8 DEF LateRuns
    <2>2. c \in CommandType
        BY DEF SwitchOK
    <2>3. table' \in [Switch -> SUBSET TableRule] /\ c.switch \in Switch
        BY <2>1, <2>2, RunsTyped
    <2>4. SwitchOK'
        BY <2>1, <2>3 DEF SwitchOK, CommandType, TableRule
    <2>5. JobOK' /\ SshOK'
        BY <1>8 DEF LateRuns, JobOK, SshOK, jobVars, heapVars, TableRule
    <2>6. QED BY <2>4, <2>5
<1>9. CASE Killed
    <2>1. JobOK' /\ SshOK'
        BY <1>9, DieKeeps DEF Killed
    <2>2. CASE stage \in {"waiting", "exec", "reading"}
        <3>1. op # "none" /\ (op = "add" => i <= Len(rules))
            BY <2>2 DEF JobOK
        <3>2. QED BY <1>9, <2>1, <2>2, <3>1, CommandTyped, LeftBehindTyped DEF Killed
    <2>3. CASE stage \notin {"waiting", "exec", "reading"}
        BY <1>9, <2>1, <2>3 DEF Killed, SwitchOK, switchVars
    <2>4. QED BY <2>2, <2>3
<1>10. QED
    BY <1>1, <1>2, <1>3, <1>4, <1>5, <1>6, <1>7, <1>8, <1>9 DEF EditNext, EditStep

(* What the handlers ask of the backend. *)
LEMMA AddRulesKeeps ==
    ASSUME EditInv, NEW x \in Context, NEW batch \in Seq(Request), AddRules(x, batch)
    PROVE  EditInv'
<1>1. op = "none" /\ stage = "none"
    BY DEF EditInv, AddRules, Idle, JobOK
<1>2. SwitchOK' /\ UNCHANGED <<sessions, kept>>
    BY DEF EditInv, AddRules, SwitchOK, switchVars
<1>3. CASE answer' = -1 /\ UNCHANGED <<jobVars, stage, arrays>>
    BY <1>1, <1>2, <1>3 DEF EditInv, JobOK, SshOK, jobVars, TableRule
<1>4. CASE /\ \E b \in Built(batch) : rules' = b
           /\ op' = "add" /\ stage' = "send" /\ i' = 1
           /\ state' = x
           /\ before' = table[x.switch]
           /\ arrays' = arrays + 1
           /\ UNCHANGED answer
    <2>1. PICK b \in Built(batch) : rules' = b
        BY <1>4
    <2>2. b \in Seq(OvsRule)
        <3>1. /\ b \in [1 .. Len(batch) -> UNION {Build(batch[n]) : n \in 1 .. Len(batch)}]
              /\ \A n \in 1 .. Len(batch) : b[n] \in Build(batch[n])
            BY DEF Built
        <3>2. Len(batch) \in Nat /\ \A n \in 1 .. Len(batch) : batch[n] \in Request
            OBVIOUS
        <3>3. \A n \in 1 .. Len(batch) : b[n] \in OvsRule
            BY <3>1, <3>2 DEF OvsRule
        <3>4. b \in [1 .. Len(batch) -> OvsRule]
            BY <3>1, <3>3
        <3>5. QED BY <3>2, <3>4
    <2>3. x # NULL /\ x.switch \in Switch
        BY CommandAssumption
    <2>4. before' \subseteq TableRule
        BY <1>4, <2>3 DEF EditInv, SwitchOK
    <2>5. JobOK'
        <3>1. 1 \in 1 .. Len(b) + 1
            BY <2>2
        <3>2. QED
            BY <1>1, <1>2, <1>4, <2>1, <2>2, <2>3, <2>4, <3>1 DEF EditInv, JobOK, TableRule
    <2>6. SshOK'
        BY <1>1, <1>2, <1>4 DEF EditInv, SshOK, SshStage
    <2>7. QED BY <1>2, <2>5, <2>6 DEF EditInv
<1>5. QED BY <1>3, <1>4 DEF AddRules

LEMMA FlushRulesKeeps ==
    ASSUME EditInv, NEW x \in Context, FlushRules(x)
    PROVE  EditInv'
<1>1. op = "none" /\ stage = "none"
    BY DEF EditInv, FlushRules, Idle, JobOK
<1>2. x # NULL /\ x.switch \in Switch
    BY CommandAssumption
<1>3. before' \subseteq TableRule
    BY <1>2 DEF EditInv, SwitchOK, FlushRules
<1>4. JobOK'
    BY <1>1, <1>2, <1>3 DEF EditInv, JobOK, FlushRules, heapVars, TableRule
<1>5. SshOK' /\ SwitchOK'
    BY <1>1 DEF EditInv, FlushRules, SshOK, SshStage, SwitchOK, heapVars, switchVars
<1>6. QED BY <1>4, <1>5 DEF EditInv
-----------------------------------------------------------------------------

(* The registries: a plugin is registered only after its constructor ran, and *)
(* once main runs nothing is missing.                                         *)
RegistryOK ==
    /\ daemon \in {"starting", "up", "killed", "remote_exec"}
    /\ pending \subseteq Constructor
    /\ g_acc_plugins \subseteq Plugin
    /\ s_acc_rule_be \subseteq {"ovs-rule"}
    /\ s_msg_handle \subseteq {"HELLO", "ADD_FLOWS", "DISCONNECT"}
    /\ "netronome" \in pending => netronome \notin g_acc_plugins
    /\ "liquidio" \in pending => liquidio \notin g_acc_plugins
    /\ "qat" \in pending => qat \notin g_acc_plugins
    /\ "rule_be" \notin pending => "ovs-rule" \in s_acc_rule_be
    /\ "messages" \notin pending => {"HELLO", "ADD_FLOWS", "DISCONNECT"} \subseteq s_msg_handle
    /\ daemon = "up" => pending = {}

RemoteCards == {c \in Card : Remote(session[c]) = 1}

SessionOK ==
    /\ session \in [Card -> Context \cup {NULL}]
    /\ context_host_id \in 0 .. MaxHello
    /\ remotes \in Nat /\ forgotten \in Nat
    /\ remotes = forgotten + Cardinality(RemoteCards)

IInv == EditInv /\ RegistryOK /\ SessionOK

LEMMA RemoteIsBit == ASSUME NEW x PROVE Remote(x) \in {0, 1}
BY DEF Remote

LEMMA RemoteCardsFinite == IsFiniteSet(RemoteCards) /\ Cardinality(RemoteCards) \in Nat
<1>1. IsFiniteSet(RemoteCards)
    BY OffloadAssumption, FS_Subset DEF RemoteCards
<1>2. QED BY <1>1, FS_CardinalityType

(* One card's context changes: the number of remote ones changes with it.     *)
LEMMA RemoteCount ==
    ASSUME SessionOK, NEW c \in Card, NEW x \in Context \cup {NULL},
           session' = [session EXCEPT ![c] = x]
    PROVE  /\ Cardinality(RemoteCards') = Cardinality(RemoteCards) - Remote(session[c]) + Remote(x)
           /\ Cardinality(RemoteCards) - Remote(session[c]) \in Nat
<1>1. session'[c] = x /\ \A d \in Card \ {c} : session'[d] = session[d]
    BY DEF SessionOK
<1>2. RemoteCards \ {c} = RemoteCards' \ {c}
    BY <1>1 DEF RemoteCards
<1> DEFINE others == RemoteCards \ {c}
<1>3. IsFiniteSet(others) /\ c \notin others
    BY RemoteCardsFinite, FS_Subset
<1>4. Cardinality(others) \in Nat
    BY <1>3, FS_CardinalityType
<1>5. Cardinality(others \cup {c}) = Cardinality(others) + 1
    BY <1>3, FS_AddElement
<1>6. RemoteCards = IF Remote(session[c]) = 1 THEN others \cup {c} ELSE others
    BY DEF RemoteCards
<1>7. RemoteCards' = IF Remote(x) = 1 THEN others \cup {c} ELSE others
    BY <1>1, <1>2 DEF RemoteCards
<1>8. Cardinality(RemoteCards) = Cardinality(others) + Remote(session[c])
    <2> HIDE DEF others
    <2>1. CASE Remote(session[c]) = 1
        BY <1>4, <1>5, <1>6, <2>1
    <2>2. CASE Remote(session[c]) # 1
        <3>1. Remote(session[c]) = 0
            BY <2>2, RemoteIsBit
        <3>2. QED BY <1>4, <1>6, <2>2, <3>1
    <2>3. QED BY <2>1, <2>2
<1>9. Cardinality(RemoteCards') = Cardinality(others) + Remote(x)
    <2> HIDE DEF others
    <2>1. CASE Remote(x) = 1
        BY <1>4, <1>5, <1>7, <2>1
    <2>2. CASE Remote(x) # 1
        <3>1. Remote(x) = 0
            BY <2>2, RemoteIsBit
        <3>2. QED BY <1>4, <1>7, <2>2, <3>1
    <2>3. QED BY <2>1, <2>2
<1> HIDE DEF others
<1>10. QED BY <1>4, <1>8, <1>9, RemoteIsBit

LEMMA NoRemotes ==
    ASSUME session' = [c \in Card |-> NULL]
    PROVE  Cardinality(RemoteCards') = 0
<1>1. RemoteCards' = {}
    BY DEF RemoteCards, Remote
<1>2. QED BY <1>1, FS_EmptySet

LEMMA InitIInv == Init => IInv
<1> SUFFICES ASSUME Init PROVE IInv
    OBVIOUS
<1>1. EditInv
    <2>1. JobOK
        BY DEF Init, EditInit, JobOK, TableRule
    <2>2. SshOK /\ SwitchOK
        BY DEF Init, EditInit, SshOK, SshStage, SwitchOK
    <2>3. QED BY <2>1, <2>2 DEF EditInv
<1>2. RegistryOK
    BY DEF Init, RegistryOK, Constructor, Level
<1>3. SessionOK
    <2>1. RemoteCards = {}
        BY DEF Init, RemoteCards, Remote
    <2>2. Cardinality(RemoteCards) = 0
        BY <2>1, FS_EmptySet
    <2>3. QED BY <2>2, OffloadAssumption DEF Init, SessionOK
<1>4. QED BY <1>1, <1>2, <1>3 DEF IInv

LEMMA EditInvFrame ==
    ASSUME EditInv, UNCHANGED <<jobVars, stage, heapVars, switchVars, answer>>
    PROVE  EditInv'
BY DEF EditInv, JobOK, SshOK, SwitchOK, jobVars, heapVars, switchVars, TableRule, CommandType

LEMMA SessionFrame ==
    ASSUME SessionOK, UNCHANGED sessionVars
    PROVE  SessionOK'
BY DEF SessionOK, sessionVars, RemoteCards

LEMMA RegistryFrame ==
    ASSUME RegistryOK, UNCHANGED <<daemon, registryVars>>
    PROVE  RegistryOK'
BY DEF RegistryOK, registryVars

(* Three plugins, three slots. *)
LEMMA SlotsDistinct ==
    \A p, q \in Plugin : p.slot = q.slot => p = q
<1>1. /\ netronome.slot[1] = "netronome" /\ liquidio.slot[1] = "cavium"
      /\ qat.slot[1] = "intel"
    BY DEF netronome, liquidio, qat
<1>2. QED BY <1>1 DEF Plugin

LEMMA ConstructKeeps ==
    ASSUME IInv, NEW m \in Constructor, Construct(m)
    PROVE  IInv'
<1>1. EditInv' /\ SessionOK'
    BY EditInvFrame, SessionFrame DEF IInv, Construct
<1>2. ASSUME NEW p \in Plugin, p \notin g_acc_plugins, Registers(p)
      PROVE  /\ g_acc_plugins' = g_acc_plugins \cup {p} /\ UNCHANGED daemon
             /\ UNCHANGED <<s_acc_rule_be, s_msg_handle>>
    BY <1>2, SlotsDistinct DEF Registers, IInv, RegistryOK
<1>3. netronome # liquidio /\ netronome # qat /\ liquidio # qat
    BY DEF netronome, liquidio, qat
<1>4. RegistryOK'
    <2>1. daemon = "starting" /\ m \in pending /\ pending' = pending \ {m}
        BY DEF Construct
    <2>2. m \in {"rule_be", "messages", "netronome", "liquidio", "qat"}
        BY DEF Constructor, Level
    <2>3. CASE m = "rule_be"
        BY <2>1, <2>3 DEF Construct, IInv, RegistryOK
    <2>4. CASE m = "messages"
        BY <2>1, <2>4 DEF Construct, IInv, RegistryOK
    <2>5. CASE m = "netronome"
        <3>1. Registers(netronome) /\ netronome \notin g_acc_plugins /\ netronome \in Plugin
            BY <2>1, <2>5 DEF Construct, IInv, RegistryOK, Plugin
        <3>2. QED BY <1>2, <1>3, <2>1, <2>5, <3>1 DEF IInv, RegistryOK
    <2>6. CASE m = "liquidio"
        <3>1. Registers(liquidio) /\ liquidio \notin g_acc_plugins /\ liquidio \in Plugin
            BY <2>1, <2>6 DEF Construct, IInv, RegistryOK, Plugin
        <3>2. QED BY <1>2, <1>3, <2>1, <2>6, <3>1 DEF IInv, RegistryOK
    <2>7. CASE m = "qat"
        <3>1. Registers(qat) /\ qat \notin g_acc_plugins /\ qat \in Plugin
            BY <2>1, <2>7 DEF Construct, IInv, RegistryOK, Plugin
        <3>2. QED BY <1>2, <1>3, <2>1, <2>7, <3>1 DEF IInv, RegistryOK
    <2>8. QED BY <2>2, <2>3, <2>4, <2>5, <2>6, <2>7
<1>5. QED BY <1>1, <1>4 DEF IInv

LEMMA MainKeeps == ASSUME IInv, Main PROVE IInv'
<1>1. EditInv' /\ SessionOK'
    BY EditInvFrame, SessionFrame DEF IInv, Main
<1>2. RegistryOK'
    BY DEF Main, IInv, RegistryOK, registryVars
<1>3. QED BY <1>1, <1>2 DEF IInv

(* What the slot of a card that matches holds. *)
LEMMA MatchedSlot ==
    ASSUME IInv, NEW c \in Card, Matches(c)
    PROVE  SlotOf(c) \in Plugin /\ SlotOf(c) # Empty
<1>1. KindOf[c].acc_type # {}
    BY OffloadAssumption
<1>2. SlotOf(c).acc_type # {}
    BY <1>1 DEF Matches
<1>3. SlotOf(c) # Empty
    BY <1>2 DEF Empty
<1>4. SlotOf(c) \in g_acc_plugins
    BY <1>3 DEF SlotOf
<1>5. QED BY <1>3, <1>4 DEF IInv, RegistryOK

LEMMA HelloKeeps ==
    ASSUME IInv, NEW c \in Card, Hello(c)
    PROVE  IInv'
<1>1. Idle /\ daemon = "up" /\ pending = {} /\ "HELLO" \in s_msg_handle
    BY DEF Hello, Idle, IInv, RegistryOK
<1>2. ~(Matches(c) /\ SlotOf(c) = Empty)
    BY MatchedSlot
<1>3. /\ \/ /\ Matches(c)
            /\ context_host_id < MaxHello
            /\ context_host_id' = context_host_id + 1
            /\ LET x == [switch |-> SlotOf(c).switch, cookie |-> context_host_id]
               IN  /\ session' = [session EXCEPT ![c] = x]
                   /\ remotes' = Replaced(c) + Remote(x)
         \/ /\ Matches(c)
            /\ session' = [session EXCEPT ![c] = NULL]
            /\ remotes' = Replaced(c)
            /\ UNCHANGED context_host_id
         \/ /\ ~Matches(c)
            /\ UNCHANGED <<session, remotes, context_host_id>>
      /\ UNCHANGED <<editVars, registryVars, forgotten>>
    BY <1>1, <1>2 DEF Hello
<1>4. EditInv' /\ RegistryOK'
    BY <1>3, EditInvFrame, RegistryFrame DEF IInv, editVars
<1>5. SessionOK'
    <2>1. CASE /\ Matches(c)
               /\ context_host_id < MaxHello
               /\ context_host_id' = context_host_id + 1
               /\ LET x == [switch |-> SlotOf(c).switch, cookie |-> context_host_id]
                  IN  /\ session' = [session EXCEPT ![c] = x]
                      /\ remotes' = Replaced(c) + Remote(x)
        <3> DEFINE x == [switch |-> SlotOf(c).switch, cookie |-> context_host_id]
        <3>1. x \in Context
            <4>1. SlotOf(c).switch \in Switch
                BY <2>1, MatchedSlot DEF Plugin, netronome, liquidio, qat, Switch
            <4>2. context_host_id \in 0 .. MaxHello - 1
                BY <2>1, OffloadAssumption DEF IInv, SessionOK
            <4>3. QED BY <4>1, <4>2, OffloadAssumption
        <3>2. session' = [session EXCEPT ![c] = x] /\ remotes' = Replaced(c) + Remote(x)
            BY <2>1
        <3> HIDE DEF x
        <3>3. /\ Cardinality(RemoteCards') = Cardinality(RemoteCards) - Remote(session[c]) + Remote(x)
              /\ Cardinality(RemoteCards) - Remote(session[c]) \in Nat
            BY <3>1, <3>2, RemoteCount DEF IInv
        <3>4. /\ remotes' = forgotten' + Cardinality(RemoteCards')
              /\ remotes' \in Nat /\ forgotten' \in Nat
            <4>1. Remote(session[c]) \in {0, 1} /\ Remote(x) \in {0, 1}
                BY RemoteIsBit
            <4>2. forgotten' = forgotten
                BY <1>3
            <4>3. QED
                BY <3>2, <3>3, <4>1, <4>2, RemoteCardsFinite DEF Replaced, IInv, SessionOK
        <3>5. session' \in [Card -> Context \cup {NULL}]
            BY <3>1, <3>2 DEF IInv, SessionOK
        <3>6. context_host_id' \in 0 .. MaxHello
            BY <2>1, OffloadAssumption DEF IInv, SessionOK
        <3>7. QED BY <3>4, <3>5, <3>6 DEF SessionOK
    <2>2. CASE /\ session' = [session EXCEPT ![c] = NULL]
               /\ remotes' = Replaced(c)
               /\ UNCHANGED context_host_id
        <3>1. /\ Cardinality(RemoteCards') = Cardinality(RemoteCards) - Remote(session[c]) + Remote(NULL)
              /\ Cardinality(RemoteCards) - Remote(session[c]) \in Nat
            BY <2>2, RemoteCount DEF IInv
        <3>2. Remote(session[c]) \in {0, 1} /\ Remote(NULL) = 0
            BY RemoteIsBit DEF Remote
        <3>3. /\ remotes' = forgotten' + Cardinality(RemoteCards')
              /\ remotes' \in Nat /\ forgotten' \in Nat
            <4>1. forgotten' = forgotten
                BY <1>3
            <4>2. QED
                BY <2>2, <3>1, <3>2, <4>1, RemoteCardsFinite DEF Replaced, IInv, SessionOK
        <3>4. QED BY <2>2, <3>3 DEF IInv, SessionOK
    <2>3. CASE UNCHANGED <<session, remotes, context_host_id>>
        BY <1>3, <2>3, SessionFrame DEF IInv, sessionVars
    <2>4. QED BY <1>3, <2>1, <2>2, <2>3
<1>6. QED BY <1>4, <1>5 DEF IInv

LEMMA AddFlowsKeeps ==
    ASSUME IInv, NEW c \in Card, NEW batch \in Batch, AddFlows(c, batch)
    PROVE  IInv'
<1>1. session[c] \in Context /\ batch \in Seq(Request)
    BY OffloadAssumption DEF AddFlows, IInv, SessionOK
<1>2. daemon = "up" /\ Reaches("ADD_FLOWS")
    BY DEF AddFlows, Idle, Reaches, IInv, RegistryOK
<1>3. AddRules(session[c], batch) /\ UNCHANGED <<registryVars, sessionVars>>
    BY <1>2 DEF AddFlows
<1>4. EditInv'
    BY <1>1, <1>3, AddRulesKeeps DEF IInv
<1>5. RegistryOK' /\ SessionOK'
    BY <1>3, RegistryFrame, SessionFrame DEF IInv, AddRules
<1>6. QED BY <1>4, <1>5 DEF IInv

LEMMA ByeKeeps ==
    ASSUME IInv, NEW c \in Card, Bye(c)
    PROVE  IInv'
<1>1. session[c] \in Context
    BY DEF Bye, IInv, SessionOK
<1>2. daemon = "up" /\ Reaches("DISCONNECT")
    BY DEF Bye, Idle, Reaches, IInv, RegistryOK
<1>3. /\ FlushRules(session[c])
      /\ session' = [session EXCEPT ![c] = NULL]
      /\ forgotten' = forgotten + Remote(session[c])
      /\ UNCHANGED <<registryVars, context_host_id, remotes>>
    BY <1>2 DEF Bye
<1>4. EditInv'
    BY <1>1, <1>3, FlushRulesKeeps DEF IInv
<1>5. RegistryOK'
    BY <1>3, RegistryFrame DEF IInv, FlushRules
<1>6. SessionOK'
    <2>1. /\ Cardinality(RemoteCards') = Cardinality(RemoteCards) - Remote(session[c]) + Remote(NULL)
          /\ Cardinality(RemoteCards) - Remote(session[c]) \in Nat
        BY <1>3, RemoteCount DEF IInv
    <2>2. Remote(session[c]) \in {0, 1} /\ Remote(NULL) = 0
        BY RemoteIsBit DEF Remote
    <2>3. /\ remotes' = forgotten' + Cardinality(RemoteCards')
          /\ remotes' \in Nat /\ forgotten' \in Nat
        BY <1>3, <2>1, <2>2, RemoteCardsFinite DEF IInv, SessionOK
    <2>4. QED BY <1>3, <2>3 DEF IInv, SessionOK
<1>7. QED BY <1>4, <1>5, <1>6 DEF IInv

LEMMA WorksKeeps ==
    ASSUME IInv, Works
    PROVE  IInv'
<1>1. EditInv'
    BY EditKeeps DEF IInv, Works
<1>2. daemon' = daemon \/ daemon' \in {"killed", "remote_exec"}
    BY DEF Works, EditNext, EditStep, AllRun, Shell, SshNew, SshStep, SshExec, ShellReturns,
           SshRead, LateRuns, Killed, Goes, Fails, Succeeds, Returns, Die
<1>3. CASE daemon' \in {"starting", "up"}
    <2>1. UNCHANGED <<registryVars, sessionVars, daemon>>
        BY <1>2, <1>3 DEF Works
    <2>2. QED BY <1>1, <2>1, RegistryFrame, SessionFrame DEF IInv
<1>4. CASE daemon' \notin {"starting", "up"}
    <2>1. /\ session' = [c \in Card |-> NULL]
          /\ remotes' = 0 /\ forgotten' = 0
          /\ UNCHANGED <<registryVars, context_host_id>>
        BY <1>4 DEF Works
    <2>2. SessionOK'
        BY <2>1, NoRemotes DEF IInv, SessionOK
    <2>3. RegistryOK'
        BY <1>2, <1>4, <2>1 DEF IInv, RegistryOK, registryVars
    <2>4. QED BY <1>1, <2>2, <2>3 DEF IInv
<1>5. QED BY <1>3, <1>4

LEMMA NextIInv == IInv /\ [Next]_vars => IInv'
<1> SUFFICES ASSUME IInv, [Next]_vars PROVE IInv'
    OBVIOUS
<1>1. CASE UNCHANGED vars
    <2>1. UNCHANGED <<jobVars, stage, heapVars, switchVars, answer, daemon,
                     registryVars, sessionVars>>
        BY <1>1 DEF vars, editVars
    <2>2. QED BY <2>1, EditInvFrame, RegistryFrame, SessionFrame DEF IInv
<1>2. CASE Next
    BY <1>2, ConstructKeeps, MainKeeps, HelloKeeps, AddFlowsKeeps, ByeKeeps, WorksKeeps
       DEF Next
<1>3. QED BY <1>1, <1>2

THEOREM Invariance == Spec => []IInv
BY InitIInv, NextIInv, PTL DEF Spec

-----------------------------------------------------------------------------

(* Every variable keeps its type. *)
THEOREM TypeCorrect == Spec => []TypeOK
<1>1. IInv => TypeOK
    <2>1. SshOK => sessions \in Nat
        BY DEF SshOK
    <2>2. QED
        BY <2>1 DEF IInv, EditInv, JobOK, SwitchOK, RegistryOK, SessionOK, TypeOK, EditTypeOK
<1>2. QED BY <1>1, Invariance, PTL

(* No constructor fails and no NULL entry of a registry is ever called,       *)
(* whatever cards are registered.                                             *)
THEOREM NothingNullCalled == Spec => []NoNullCalls
<1>1. IInv => NoNullCalls
    BY DEF IInv, RegistryOK, NoNullCalls
<1>2. QED BY <1>1, Invariance, PTL

(* The account of what is allocated is exact: nothing but the rules of        *)
(* successful batches and the ssh_remote of ended contexts is ever lost.      *)
THEOREM HeldExactly == Spec => []NothingElseHeld
<1>1. IInv => NothingElseHeld
    BY DEF IInv, EditInv, JobOK, SshOK, SessionOK, RemoteCards, NothingElseHeld
<1>2. QED BY <1>1, Invariance, PTL

(* Every rule shows the fields of one flow some guest asked for.              *)
THEOREM RulesShowFlows == Spec => []RulesMatchFlows
<1> DEFINE Asked == {[match |-> MatchOf(flow), action |-> ActionOf(flow)] : flow \in Request}
<1>1. \A b \in OvsRule : b \in Asked
    <2>1. SUFFICES ASSUME NEW flow \in Request, NEW b \in Build(flow) PROVE b \in Asked
        BY DEF OvsRule
    <2>2. flow \in Flow
        BY FlowAssumption
    <2>3. b = [match |-> MatchOf(flow), action |-> ActionOf(flow)]
        BY <2>2, BuildExact
    <2>4. QED BY <2>3
<1>2. \A b \in OvsRule : [match |-> b.match, action |-> b.action] \in Asked
    <2>1. \A a \in Asked : [match |-> a.match, action |-> a.action] = a
        OBVIOUS
    <2>2. QED BY <1>1, <2>1
<1>3. \A r \in TableRule : [match |-> r.match, action |-> r.action] \in Asked
    BY <1>2 DEF TableRule
<1> HIDE DEF Asked
<1>4. IInv => /\ \A n \in DOMAIN rules : [match |-> rules[n].match, action |-> rules[n].action] \in Asked
              /\ \A s \in Switch : \A r \in table[s] :
                    [match |-> r.match, action |-> r.action] \in Asked
    <2> SUFFICES ASSUME IInv
                 PROVE  /\ \A n \in DOMAIN rules :
                              [match |-> rules[n].match, action |-> rules[n].action] \in Asked
                        /\ \A s \in Switch : \A r \in table[s] :
                              [match |-> r.match, action |-> r.action] \in Asked
        OBVIOUS
    <2>1. \A n \in DOMAIN rules : rules[n] \in OvsRule
        BY DEF IInv, EditInv, JobOK
    <2>2. \A s \in Switch : table[s] \subseteq TableRule
        BY DEF IInv, EditInv, SwitchOK
    <2>3. QED BY <1>2, <1>3, <2>1, <2>2
<1>5. IInv => RulesMatchFlows
    BY <1>4 DEF RulesMatchFlows, Asked
<1>6. QED BY <1>5, Invariance, PTL

-----------------------------------------------------------------------------
(* How long a batch or a flush can last.                                      *)

(* A command takes no more than seven steps of the daemon. *)
Rank == [none |-> 0, send |-> 7, connect |-> 6, auth |-> 5, channel |-> 4, open |-> 3,
         exec |-> 2, reading |-> 1, waiting |-> 1]

(* The steps left: of this command, of those behind it, and of one flush more *)
(* should one fail.                                                           *)
StepsLeft ==
    IF op = "none" THEN 0
    ELSE IF op = "add" THEN 7 * (Len(rules) + 2 - i) + Rank[stage]
    ELSE Rank[stage]

LEMMA RankBounds ==
    /\ \A s \in {"none", "send", "waiting"} \cup SshStage : Rank[s] \in 0 .. 7
    /\ \A s \in {"send", "waiting"} \cup SshStage : Rank[s] > 0
    /\ Rank["send"] = 7 /\ Rank["waiting"] = 1 /\ Rank["reading"] = 1
BY DEF Rank, SshStage

LEMMA StepsLeftTyped == JobOK => StepsLeft \in Nat
<1> SUFFICES ASSUME JobOK PROVE StepsLeft \in Nat
    OBVIOUS
<1>1. Rank[stage] \in 0 .. 7
    BY RankBounds DEF JobOK
<1>2. op = "add" => 7 * (Len(rules) + 2 - i) \in Nat
    <2>1. Len(rules) \in Nat
        BY DEF JobOK
    <2>2. op = "add" => Len(rules) + 2 - i \in Nat
        BY <2>1 DEF JobOK
    <2>3. \A n \in Nat : 7 * n \in Nat
        OBVIOUS
    <2>4. QED BY <2>2, <2>3
<1>3. QED BY <1>1, <1>2 DEF StepsLeft

(* What ends an operation leaves none, *)
LEMMA OverShortens ==
    ASSUME JobOK, op # "none", Over
    PROVE  StepsLeft' < StepsLeft
<1>1. StepsLeft' = 0
    BY DEF Over, StepsLeft
<1>2. Rank[stage] \in 0 .. 7 /\ Rank[stage] > 0
    BY RankBounds DEF JobOK
<1>3. op = "add" => Len(rules) + 2 - i \in Nat
    <2>1. Len(rules) \in Nat
        BY DEF JobOK
    <2>2. QED BY <2>1 DEF JobOK
<1>4. StepsLeft \in Nat /\ StepsLeft # 0
    BY <1>2, <1>3 DEF StepsLeft
<1>5. QED BY <1>1, <1>4

(* a failure turns what is left of a batch into one flush, and that of a flush*)
(* ends it,                                                                   *)
LEMMA FailsShortens ==
    ASSUME JobOK, op # "none", op = "add" => i <= Len(rules), Fails
    PROVE  StepsLeft' < StepsLeft
<1>1. CASE op = "add"
    <2>1. op' = "undo" /\ stage' = "send"
        BY <1>1 DEF Fails
    <2>2. StepsLeft' = 7
        BY <2>1, RankBounds DEF StepsLeft
    <2>3. /\ Len(rules) + 2 - i \in Nat /\ Len(rules) + 2 - i >= 2
          /\ Rank[stage] \in 0 .. 7
        <3>1. Len(rules) \in Nat
            BY DEF JobOK
        <3>2. Rank[stage] \in 0 .. 7
            BY RankBounds DEF JobOK
        <3>3. QED BY <1>1, <3>1, <3>2 DEF JobOK
    <2>4. StepsLeft = 7 * (Len(rules) + 2 - i) + Rank[stage]
        BY <1>1 DEF StepsLeft
    <2>5. QED BY <2>2, <2>3, <2>4
<1>2. CASE op # "add"
    BY <1>2, OverShortens DEF Fails, Returns
<1>3. QED BY <1>1, <1>2

(* a command that worked leaves those behind it,                              *)
LEMMA SucceedsShortens ==
    ASSUME JobOK, op # "none", op = "add" => i <= Len(rules), stage \in {"waiting", "reading"},
           Succeeds
    PROVE  StepsLeft' < StepsLeft
<1>1. CASE op = "add"
    <2>1. op' = "add" /\ stage' = "send" /\ rules' = rules /\ i' = i + 1
        BY <1>1 DEF Succeeds
    <2>2. StepsLeft' = 7 * (Len(rules) + 2 - (i + 1)) + 7
        BY <2>1, RankBounds DEF StepsLeft
    <2>3. StepsLeft = 7 * (Len(rules) + 2 - i) + 1
        BY <1>1, RankBounds DEF StepsLeft
    <2>4. Len(rules) \in Nat /\ i \in Nat
        BY DEF JobOK
    <2>5. QED BY <2>2, <2>3, <2>4
<1>2. CASE op # "add"
    BY <1>2, OverShortens DEF Succeeds, Returns
<1>3. QED BY <1>1, <1>2

(* and a call that worked leaves one call less.                               *)
LEMMA GoesShortens ==
    ASSUME JobOK, op # "none", NEW place \in {"waiting"} \cup SshStage, Goes(place),
           Rank[place] < Rank[stage]
    PROVE  StepsLeft' < StepsLeft
<1>1. op' = op /\ rules' = rules /\ i' = i /\ stage' = place
    BY DEF Goes, jobVars
<1>2. Rank[place] \in 0 .. 7 /\ Rank[stage] \in 0 .. 7
    BY RankBounds DEF JobOK
<1>3. op = "add" => 7 * (Len(rules) + 2 - i) \in Nat
    <2>1. Len(rules) \in Nat
        BY DEF JobOK
    <2>2. op = "add" => Len(rules) + 2 - i \in Nat
        BY <2>1 DEF JobOK
    <2>3. \A n \in Nat : 7 * n \in Nat
        OBVIOUS
    <2>4. QED BY <2>2, <2>3
<1>4. CASE op = "add"
    <2> DEFINE n == 7 * (Len(rules) + 2 - i)
    <2>1. n \in Nat
        BY <1>3, <1>4
    <2>2. StepsLeft = n + Rank[stage] /\ StepsLeft' = n + Rank[place]
        BY <1>1, <1>4 DEF StepsLeft
    <2> HIDE DEF n
    <2>3. QED BY <1>2, <2>1, <2>2
<1>5. CASE op # "add"
    BY <1>1, <1>2, <1>5 DEF StepsLeft
<1>6. QED BY <1>4, <1>5

LEMMA EditShortens ==
    ASSUME JobOK, op # "none", EditNext
    PROVE  StepsLeft' < StepsLeft \/ UNCHANGED <<jobVars, stage>>
<1>1. CASE AllRun
    BY <1>1, OverShortens DEF AllRun, Returns
<1>2. CASE Shell
    <2>1. stage = "send" /\ (op = "add" => i <= Len(rules))
        BY <1>2 DEF Shell, ToSend
    <2>2. Rank["waiting"] < Rank[stage]
        BY <2>1, RankBounds
    <2>3. QED BY <1>2, <2>1, <2>2, GoesShortens, FailsShortens DEF Shell
<1>3. CASE SshNew
    <2>1. stage = "send" /\ (op = "add" => i <= Len(rules))
        BY <1>3 DEF SshNew, ToSend
    <2>2. "connect" \in SshStage /\ Rank["connect"] < Rank[stage]
        BY <2>1 DEF Rank, SshStage
    <2>3. QED BY <1>3, <2>1, <2>2, GoesShortens, FailsShortens, OverShortens DEF SshNew, Die
<1>4. CASE SshStep
    <2>1. PICK place \in DOMAIN After : At(place) /\ (Goes(After[place]) \/ Fails)
        BY <1>4 DEF SshStep
    <2>2. stage = place /\ (op = "add" => i <= Len(rules))
        BY <2>1 DEF At, After, JobOK
    <2>3. After[place] \in SshStage /\ Rank[After[place]] < Rank[stage]
        BY <2>2 DEF Rank, After, SshStage
    <2>4. QED BY <2>1, <2>2, <2>3, GoesShortens, FailsShortens
<1>5. CASE SshExec
    <2>1. stage = "exec" /\ (op = "add" => i <= Len(rules))
        BY <1>5 DEF SshExec, At, JobOK
    <2>2. "reading" \in SshStage /\ Rank["reading"] < Rank[stage]
        BY <2>1 DEF Rank, SshStage
    <2>3. QED BY <1>5, <2>1, <2>2, GoesShortens, FailsShortens DEF SshExec
<1>6. CASE ShellReturns
    <2>1. stage = "waiting" /\ (op = "add" => i <= Len(rules))
        BY <1>6 DEF ShellReturns, At, JobOK
    <2>2. QED BY <1>6, <2>1, SucceedsShortens, FailsShortens DEF ShellReturns
<1>7. CASE SshRead
    <2>1. stage = "reading" /\ (op = "add" => i <= Len(rules))
        BY <1>7 DEF SshRead, At, JobOK
    <2>2. QED BY <1>7, <2>1, SucceedsShortens, OverShortens DEF SshRead, Die
<1>8. CASE LateRuns
    BY <1>8 DEF LateRuns
<1>9. CASE Killed
    BY <1>9, OverShortens DEF Killed, Die
<1>10. QED
    BY <1>1, <1>2, <1>3, <1>4, <1>5, <1>6, <1>7, <1>8, <1>9 DEF EditNext, EditStep

(* A batch or a flush never starts over and never goes back: every step that  *)
(* changes anything of it leaves it fewer steps, 7 for each rule to come and  *)
(* 7 for the flush of a failure.  With commands that end this is EditReturns. *)
THEOREM EditsShorten ==
    Spec => /\ [](StepsLeft \in Nat)
            /\ [][op # "none" => StepsLeft' < StepsLeft \/ UNCHANGED <<jobVars, stage>>]_vars
<1>1. ASSUME IInv, [Next]_vars, op # "none"
      PROVE  StepsLeft' < StepsLeft \/ UNCHANGED <<jobVars, stage>>
    <2>1. JobOK
        BY <1>1 DEF IInv, EditInv
    <2>2. CASE Works
        BY <1>1, <2>1, <2>2, EditShortens DEF Works
    <2>3. CASE UNCHANGED vars
        BY <2>3 DEF vars, editVars
    <2>4. ASSUME NEW m \in Constructor, Construct(m) PROVE UNCHANGED <<jobVars, stage>>
        BY <2>4 DEF Construct
    <2>5. CASE Main
        BY <2>5 DEF Main
    <2>6. ASSUME NEW c \in Card, NEW batch \in Batch, Hello(c) \/ Bye(c) \/ AddFlows(c, batch)
          PROVE  FALSE
        BY <1>1, <2>6 DEF Hello, Bye, AddFlows, Idle
    <2>7. ASSUME NEW c \in Card, Hello(c) \/ Bye(c) PROVE FALSE
        BY <1>1, <2>7 DEF Hello, Bye, Idle
    <2>8. QED BY <1>1, <2>2, <2>3, <2>4, <2>5, <2>6, <2>7 DEF Next
<1>2. IInv => StepsLeft \in Nat
    BY StepsLeftTyped DEF IInv, EditInv
<1>3. QED BY <1>1, <1>2, Invariance, PTL DEF Spec

=============================================================================
