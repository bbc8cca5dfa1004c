-------------------------- MODULE OffloadRefinement --------------------------
(****************************************************************************)
(* Offload implements RuleBatch: command by command, with every failure and  *)
(* the death of the process, a batch and a flush are what SwitchRules says   *)
(* they are in one step, until a command arrives after the daemon went on.   *)
(****************************************************************************)
EXTENDS OffloadProofs, SequenceTheorems

-----------------------------------------------------------------------------

(* Install and Flush of SwitchRules. *)
Put(t, k, S) ==
    {r \in t : r.match \notin S} \cup {[match |-> m, cookie |-> k, old |-> FALSE] : m \in S}

Wipe(t, k) == {r \in t : r.cookie # k}

(* A command on a table, seen as SwitchRules sees it. *)
LEMMA AddIsInstall ==
    ASSUME NEW t, NEW c, NEW b, c.add = <<b>>
    PROVE  AsTable(Applied(t, c)) = Put(AsTable(t), c.cookie, {b.match})
<1> DEFINE kept_ == {r \in t : r.match # b.match}
           new == {[match |-> b.match, action |-> b.action, cookie |-> c.cookie]}
           left == {r \in AsTable(t) : r.match # b.match}
           shown == {[match |-> m, cookie |-> c.cookie, old |-> FALSE] : m \in {b.match}}
<1>1. Applied(t, c) = kept_ \cup new
    BY DEF Applied
<1>2. AsTable(kept_) = left
    BY DEF AsTable
<1>3. AsTable(new) = shown
    BY DEF AsTable
<1>4. AsTable(kept_ \cup new) = AsTable(kept_) \cup AsTable(new)
    BY DEF AsTable
<1>5. Put(AsTable(t), c.cookie, {b.match}) = left \cup shown
    BY DEF Put
<1> HIDE DEF kept_, new, left, shown
<1>6. QED BY <1>1, <1>2, <1>3, <1>4, <1>5

LEMMA DelIsFlush ==
    ASSUME NEW t, NEW c, c.add = <<>>
    PROVE  AsTable(Applied(t, c)) = Wipe(AsTable(t), c.cookie)
<1>1. Applied(t, c) = {r \in t : r.cookie # c.cookie}
    BY DEF Applied
<1>2. AsTable({r \in t : r.cookie # c.cookie}) = {r \in AsTable(t) : r.cookie # c.cookie}
    BY DEF AsTable
<1>3. QED BY <1>1, <1>2 DEF Wipe

LEMMA InstallNothing ==
    ASSUME NEW t, NEW k
    PROVE  Put(t, k, {}) = t
BY DEF Put

LEMMA InstallMore ==
    ASSUME NEW t, NEW k, NEW S, NEW M
    PROVE  Put(Put(t, k, S), k, M) = Put(t, k, S \cup M)
<1> DEFINE Rules(N) == {[match |-> n, cookie |-> k, old |-> FALSE] : n \in N}
           Rest(x, N) == {r \in x : r.match \notin N}
<1>1. \A x, N : Put(x, k, N) = Rest(x, N) \cup Rules(N)
    BY DEF Put
<1>2. Rest(Rules(S), M) \cup Rules(M) = Rules(S \cup M)
    <2>1. ASSUME NEW r \in Rules(S) PROVE r \in Rest(Rules(S), M) \cup Rules(M)
        <3>1. PICK n \in S : r = [match |-> n, cookie |-> k, old |-> FALSE]
            OBVIOUS
        <3>2. CASE n \in M
            BY <3>1, <3>2
        <3>3. CASE n \notin M
            BY <3>1, <3>3
        <3>4. QED BY <3>2, <3>3
    <2>2. Rules(S \cup M) = Rules(S) \cup Rules(M)
        OBVIOUS
    <2>3. Rest(Rules(S), M) \subseteq Rules(S)
        OBVIOUS
    <2> HIDE DEF Rules, Rest
    <2>4. QED BY <2>1, <2>2, <2>3
<1>3. Rest(Rest(t, S), M) = Rest(t, S \cup M)
    OBVIOUS
<1>4. \A x, y : Rest(x \cup y, M) = Rest(x, M) \cup Rest(y, M)
    OBVIOUS
<1> HIDE DEF Rules, Rest
<1>5. Put(Put(t, k, S), k, M) = Rest(Rest(t, S), M) \cup Rest(Rules(S), M) \cup Rules(M)
    <2>1. Put(t, k, S) = Rest(t, S) \cup Rules(S)
        BY <1>1
    <2>2. Put(Put(t, k, S), k, M) = Rest(Put(t, k, S), M) \cup Rules(M)
        BY <1>1
    <2>3. Rest(Rest(t, S) \cup Rules(S), M) = Rest(Rest(t, S), M) \cup Rest(Rules(S), M)
        BY <1>4
    <2>4. QED BY <2>1, <2>2, <2>3
<1>6. Put(t, k, S \cup M) = Rest(t, S \cup M) \cup Rules(S \cup M)
    BY <1>1
<1>7. QED BY <1>2, <1>3, <1>5, <1>6

-----------------------------------------------------------------------------

(* The matches of the first n commands, and a table t they can have led to    *)
(* from t0: on the host they all worked, behind ssh any of them may have had  *)
(* no effect.                                                                 *)
Sent(rs, n) == {rs[m].match : m \in 1 .. n}

Reached(sw, k, rs, t0, t, n) ==
    \E S \in SUBSET Sent(rs, n) :
        /\ sw = "local" => S = Sent(rs, n)
        /\ AsTable(t) = Put(AsTable(t0), k, S)

(* rs are the rules of the flows of b. *)
Made(rs, b) ==
    /\ Len(rs) = Len(b)
    /\ \A n \in 1 .. Len(b) : Supported(b[n]) /\ rs[n].match = MatchOf(b[n])

Got(t, n) == Reached(state.switch, state.cookie, rules, before, t, n)

Progress ==
    /\ op = "add" => Got(table[state.switch], i - 1)
    /\ op = "undo" => Got(table[state.switch], i - 1) \/ Got(table[state.switch], i)
    /\ op = "flush" => table[state.switch] = before

RInv ==
    /\ stage = "waiting" => state.switch = "local"
    /\ stage \in SshStage => state.switch = "remote"
    /\ op \in {"add", "undo"} => \E b \in Batch : Made(rules, b)
    /\ op = "undo" => i \in 1 .. Len(rules)
    /\ (op # "none" /\ state.switch \notin muddy) => Progress

LEMMA SentMore ==
    ASSUME NEW rs, NEW n \in Nat \ {0}
    PROVE  Sent(rs, n) = Sent(rs, n - 1) \cup {rs[n].match}
<1>1. 1 .. n = (1 .. (n - 1)) \cup {n}
    OBVIOUS
<1>2. QED BY <1>1 DEF Sent

LEMMA ReachedNothing ==
    ASSUME NEW sw, NEW k, NEW rs, NEW t
    PROVE  Reached(sw, k, rs, t, t, 0)
<1>1. Sent(rs, 0) = {}
    BY DEF Sent
<1>2. QED BY <1>1, InstallNothing DEF Reached

LEMMA ReachedMore ==
    ASSUME NEW sw, NEW k, NEW rs, NEW t0, NEW t, NEW u, NEW n \in Nat \ {0},
           Reached(sw, k, rs, t0, t, n - 1),
           \/ AsTable(u) = Put(AsTable(t), k, {rs[n].match})
           \/ sw # "local" /\ u = t
    PROVE  Reached(sw, k, rs, t0, u, n)
<1>1. PICK S \in SUBSET Sent(rs, n - 1) :
        /\ sw = "local" => S = Sent(rs, n - 1)
        /\ AsTable(t) = Put(AsTable(t0), k, S)
    BY DEF Reached
<1>2. Sent(rs, n) = Sent(rs, n - 1) \cup {rs[n].match}
    BY SentMore
<1>3. CASE AsTable(u) = Put(AsTable(t), k, {rs[n].match})
    <2>1. AsTable(u) = Put(AsTable(t0), k, S \cup {rs[n].match})
        BY <1>1, <1>3, InstallMore
    <2>2. QED BY <1>1, <1>2, <2>1 DEF Reached
<1>4. CASE sw # "local" /\ u = t
    BY <1>1, <1>2, <1>4 DEF Reached
<1>5. QED BY <1>3, <1>4

-----------------------------------------------------------------------------

(* The five things a step of the backend can be. *)
Tried ==
    /\ op # "none"
    /\ op = "add" => i <= Len(rules)
    /\ Runs(Command) \/ UNCHANGED table

Moved ==
    /\ stage' \in {"waiting"} \cup SshStage
    /\ stage' = "waiting" => state.switch = "local"
    /\ stage' \in SshStage => state.switch = "remote"
    /\ op # "none"
    /\ UNCHANGED <<jobVars, answer, table>>

Failed == Tried /\ Fails

Worked == Tried /\ Succeeds /\ (state.switch = "local" => Runs(Command))

Ended == (\E why \in {"killed", "remote_exec"} : Die(why)) /\ (Tried \/ UNCHANGED table)

LEMMA Shapes ==
    ASSUME IInv, RInv, EditNext, ~LateRuns
    PROVE  /\ UNCHANGED muddy
           /\ \/ Moved \/ Failed \/ Worked \/ Ended
              \/ AllRun /\ UNCHANGED table
<1>1. /\ stage # "none" => op # "none"
      /\ (op = "add" /\ stage # "send") => i <= Len(rules)
    BY DEF IInv, EditInv, JobOK
<1>2. CASE AllRun
    BY <1>2 DEF AllRun, switchVars
<1>3. CASE Shell
    BY <1>1, <1>3 DEF Shell, ToSend, Busy, Goes, switchVars, Moved, Failed, Tried, SshStage
<1>4. CASE SshNew
    BY <1>1, <1>4 DEF SshNew, ToSend, Busy, Goes, switchVars, Moved, Failed, Tried, Ended, SshStage
<1>5. CASE SshStep
    <2>1. PICK place \in DOMAIN After :
            At(place) /\ (Goes(After[place]) \/ Fails)
        BY <1>5 DEF SshStep
    <2>2. place \in SshStage /\ After[place] \in SshStage
        BY DEF After, SshStage
    <2>3. stage = place /\ state.switch = "remote" /\ stage # "send" /\ stage # "none"
        BY <2>1, <2>2 DEF At, RInv, SshStage
    <2>4. UNCHANGED <<table, muddy>>
        BY <1>5 DEF SshStep, switchVars
    <2>5. CASE Goes(After[place])
        BY <1>1, <2>2, <2>3, <2>4, <2>5 DEF Goes, Moved, SshStage
    <2>6. CASE Fails
        BY <1>1, <2>2, <2>3, <2>4, <2>6 DEF Failed, Tried
    <2>7. QED BY <2>1, <2>5, <2>6
<1>6. CASE SshExec
    BY <1>1, <1>6 DEF SshExec, At, Busy, Goes, LeftBehind, RunsOrNot, switchVars, Moved, Failed,
       Tried, RInv, SshStage
<1>7. CASE ShellReturns
    BY <1>1, <1>7 DEF ShellReturns, At, Busy, RunsOrNot, Worked, Failed, Tried
<1>8. CASE SshRead
    BY <1>1, <1>8 DEF SshRead, At, Busy, LeftBehind, RunsOrNot, Worked, Ended, Tried, RInv, SshStage
<1>9. CASE Killed
    BY <1>1, <1>9 DEF Killed, LeftBehind, RunsOrNot, Ended, Tried, switchVars
<1>10. QED
    BY <1>2, <1>3, <1>4, <1>5, <1>6, <1>7, <1>8, <1>9 DEF EditNext, EditStep

(* What a command leaves of the tables. *)
LEMMA TriedTable ==
    ASSUME IInv, Tried
    PROVE  /\ state.switch \in Switch
           /\ \A s \in Switch : s # state.switch => table'[s] = table[s]
           /\ \/ ~Runs(Command) /\ table'[state.switch] = table[state.switch]
              \/ AsTable(table'[state.switch]) =
                    IF op = "add"
                    THEN Put(AsTable(table[state.switch]), state.cookie, {rules[i].match})
                    ELSE Wipe(AsTable(table[state.switch]), state.cookie)
<1>1. state \in Context /\ state.switch \in Switch
    BY CommandAssumption DEF Tried, IInv, EditInv, JobOK
<1>2. Command.switch = state.switch /\ Command.cookie = state.cookie
    BY DEF Command
<1>3. CASE Runs(Command)
    <2>1. /\ \A s \in Switch : s # state.switch => table'[s] = table[s]
          /\ table'[state.switch] = Applied(table[state.switch], Command)
        BY <1>1, <1>2, <1>3 DEF Runs, IInv, EditInv, SwitchOK
    <2>2. CASE op = "add"
        <3>1. Command.add = <<rules[i]>>
            BY <2>2 DEF Command
        <3>2. QED BY <1>1, <1>2, <2>1, <2>2, <3>1, AddIsInstall
    <2>3. CASE op # "add"
        <3>1. Command.add = <<>>
            BY <2>3 DEF Command
        <3>2. QED BY <1>1, <1>2, <2>1, <2>3, <3>1, DelIsFlush
    <2>4. QED BY <2>2, <2>3
<1>4. CASE ~Runs(Command)
    BY <1>1, <1>4 DEF Tried
<1>5. QED BY <1>3, <1>4
-----------------------------------------------------------------------------

LEMMA OverRInv == ASSUME Over PROVE RInv'
BY DEF Over, RInv, SshStage

(* One more command has been tried. *)
LEMMA TriedProgress ==
    ASSUME IInv, Tried, op = "add", Got(table[state.switch], i - 1)
    PROVE  /\ Got(table'[state.switch], i - 1) \/ Got(table'[state.switch], i)
           /\ (state.switch = "local" => Runs(Command)) => Got(table'[state.switch], i)
<1>1. i \in Nat \ {0}
    BY DEF IInv, EditInv, JobOK
<1>2. CASE ~Runs(Command) /\ table'[state.switch] = table[state.switch]
    <2>1. Got(table'[state.switch], i - 1)
        BY <1>2
    <2>2. ASSUME state.switch # "local" PROVE Got(table'[state.switch], i)
        BY <1>1, <1>2, <2>2, ReachedMore DEF Got
    <2>3. QED BY <1>2, <2>1, <2>2
<1>3. CASE AsTable(table'[state.switch])
             = Put(AsTable(table[state.switch]), state.cookie, {rules[i].match})
    <2>1. Got(table'[state.switch], i)
        BY <1>1, <1>3, ReachedMore DEF Got
    <2>2. QED BY <2>1
<1>4. QED BY <1>2, <1>3, TriedTable

LEMMA EditRInv ==
    ASSUME IInv, RInv, EditNext
    PROVE  RInv'
<1>1. CASE LateRuns
    <2>1. PICK c \in late : Runs(c) /\ muddy' = muddy \cup {c.switch}
        BY <1>1 DEF LateRuns
    <2>2. UNCHANGED <<op, state, rules, i, before, stage>>
        BY <1>1 DEF LateRuns, jobVars
    <2>3. ASSUME op # "none", state.switch \notin muddy'
          PROVE  table'[state.switch] = table[state.switch]
        <3>1. state.switch \in Switch
            BY <2>3, CommandAssumption DEF IInv, EditInv, JobOK
        <3>2. c.switch # state.switch
            BY <2>1, <2>3
        <3>3. QED BY <2>1, <3>1, <3>2 DEF Runs, IInv, EditInv, SwitchOK
    <2>4. QED BY <2>1, <2>2, <2>3 DEF RInv, Progress, Got
<1>2. CASE ~LateRuns
    <2> USE <1>2
    <2>1. UNCHANGED muddy
        BY Shapes
    <2>2. CASE Moved
        <3>1. UNCHANGED <<op, state, rules, i, before, table>>
            BY <2>2 DEF Moved, jobVars
        <3>2. stage' \notin {"none", "send"}
            BY <2>2 DEF Moved, SshStage
        <3>3. QED BY <2>1, <2>2, <3>1, <3>2 DEF RInv, Progress, Got, Moved
    <2>3. CASE Failed
        <3>1. CASE op = "add"
            <4>1. /\ op' = "undo" /\ stage' = "send"
                  /\ UNCHANGED <<state, rules, i, before>>
                BY <2>3, <3>1 DEF Failed, Fails
            <4>2. i \in 1 .. Len(rules)
                BY <2>3, <3>1 DEF Failed, Tried, IInv, EditInv, JobOK
            <4>3. state.switch \notin muddy =>
                    Got(table'[state.switch], i - 1) \/ Got(table'[state.switch], i)
                BY <2>3, <3>1, TriedProgress DEF Failed, RInv, Progress
            <4>4. QED BY <2>1, <3>1, <4>1, <4>2, <4>3 DEF RInv, Progress, Got, SshStage
        <3>2. CASE op # "add"
            BY <2>3, <3>2, OverRInv DEF Failed, Fails, Returns
        <3>3. QED BY <3>1, <3>2
    <2>4. CASE Worked
        <3>1. CASE op = "add"
            <4>1. /\ op' = "add" /\ stage' = "send" /\ i' = i + 1
                  /\ UNCHANGED <<state, rules, before>>
                BY <2>4, <3>1 DEF Worked, Succeeds
            <4>2. state.switch \notin muddy => Got(table'[state.switch], i)
                BY <2>4, <3>1, TriedProgress DEF Worked, RInv, Progress, Tried
            <4>3. i' - 1 = i
                BY <4>1 DEF IInv, EditInv, JobOK
            <4>4. QED BY <2>1, <3>1, <4>1, <4>2, <4>3 DEF RInv, Progress, Got, SshStage
        <3>2. CASE op # "add"
            BY <2>4, <3>2, OverRInv DEF Worked, Succeeds, Returns
        <3>3. QED BY <3>1, <3>2
    <2>5. CASE Ended
        BY <2>5, OverRInv DEF Ended, Die
    <2>6. CASE AllRun
        BY <2>6, OverRInv DEF AllRun, Returns
    <2>7. QED BY Shapes, <2>2, <2>3, <2>4, <2>5, <2>6
<1>3. QED BY <1>1, <1>2

(* The rules of a batch are those of its flows, all of them supported. *)
LEMMA BuiltMade ==
    ASSUME NEW batch \in Seq(Request), NEW b \in Built(batch)
    PROVE  Made(b, batch)
<1>1. /\ b \in [1 .. Len(batch) -> UNION {Build(batch[n]) : n \in 1 .. Len(batch)}]
      /\ \A n \in 1 .. Len(batch) : b[n] \in Build(batch[n])
    BY DEF Built
<1>2. Len(batch) \in Nat /\ \A n \in 1 .. Len(batch) : batch[n] \in Flow
    BY FlowAssumption
<1>3. \A n \in 1 .. Len(batch) : Supported(batch[n]) /\ b[n].match = MatchOf(batch[n])
    BY <1>1, <1>2, BuildExact
<1>4. Len(b) = Len(batch)
    BY <1>1, <1>2
<1>5. QED BY <1>3, <1>4 DEF Made

LEMMA AddRulesRInv ==
    ASSUME IInv, RInv, NEW x \in Context, NEW batch \in Batch, AddRules(x, batch)
    PROVE  RInv'
<1>1. UNCHANGED <<table, muddy>>
    BY DEF AddRules, switchVars
<1>2. CASE UNCHANGED <<jobVars, stage>>
    BY <1>1, <1>2 DEF jobVars, RInv, Progress, Got
<1>3. CASE /\ \E b \in Built(batch) : rules' = b
           /\ op' = "add" /\ stage' = "send" /\ i' = 1
           /\ state' = x
           /\ before' = table[x.switch]
    <2>1. Made(rules', batch)
        BY <1>3, BuiltMade, OffloadAssumption
    <2>2. Reached(x.switch, x.cookie, rules', table[x.switch], table[x.switch], 0)
        BY ReachedNothing
    <2>3. Progress'
        BY <1>1, <1>3, <2>2 DEF Progress, Got
    <2>4. QED BY <1>3, <2>1, <2>3 DEF RInv, SshStage
<1>4. QED BY <1>2, <1>3 DEF AddRules

LEMMA NextRInv == IInv /\ RInv /\ [Next]_vars => RInv'
<1> SUFFICES ASSUME IInv, RInv, [Next]_vars PROVE RInv'
    OBVIOUS
<1>1. ASSUME UNCHANGED <<jobVars, stage, switchVars>> PROVE RInv'
    BY <1>1 DEF jobVars, switchVars, RInv, Progress, Got
<1>2. CASE UNCHANGED vars
    BY <1>1, <1>2 DEF vars, editVars
<1>3. ASSUME NEW m \in Constructor, Construct(m) PROVE RInv'
    BY <1>1, <1>3 DEF Construct
<1>4. CASE Main
    BY <1>1, <1>4 DEF Main
<1>5. ASSUME NEW c \in Card, Hello(c) PROVE RInv'
    <2>1. "HELLO" \in s_msg_handle /\ ~(Matches(c) /\ SlotOf(c) = Empty)
        BY <1>5, MatchedSlot DEF Hello, Idle, IInv, RegistryOK
    <2>2. UNCHANGED editVars
        BY <1>5, <2>1 DEF Hello
    <2>3. QED BY <1>1, <2>2 DEF editVars
<1>6. ASSUME NEW c \in Card, Bye(c) PROVE RInv'
    <2>1. Reaches("DISCONNECT")
        BY <1>6 DEF Bye, Idle, Reaches, IInv, RegistryOK
    <2>2. FlushRules(session[c])
        BY <1>6, <2>1 DEF Bye
    <2>3. QED BY <2>2 DEF FlushRules, switchVars, RInv, Progress, Got, SshStage
<1>7. ASSUME NEW c \in Card, NEW batch \in Batch, AddFlows(c, batch) PROVE RInv'
    <2>1. Reaches("ADD_FLOWS")
        BY <1>7 DEF AddFlows, Idle, Reaches, IInv, RegistryOK
    <2>2. AddRules(session[c], batch) /\ session[c] \in Context
        BY <1>7, <2>1 DEF AddFlows, IInv, SessionOK
    <2>3. QED BY <2>2, AddRulesRInv
<1>8. CASE Works
    BY <1>8, EditRInv DEF Works
<1>9. QED BY <1>2, <1>3, <1>4, <1>5, <1>6, <1>7, <1>8 DEF Next
-----------------------------------------------------------------------------

(* The batch of SwitchRules a batch of flows is. *)
LEMMA BatchSeen ==
    ASSUME NEW batch \in Seq(Request)
    PROVE  /\ AsBatch(batch) \in Seq({MatchOf(flow) : flow \in Request})
           /\ Len(AsBatch(batch)) = Len(batch)
           /\ \A n \in 1 .. Len(batch) : AsBatch(batch)[n] = MatchOf(batch[n])
           /\ AsBatch(batch) = <<>> <=> Len(batch) = 0
<1>1. DOMAIN batch = 1 .. Len(batch) /\ Len(batch) \in Nat
    OBVIOUS
<1>2. AsBatch(batch) = [n \in 1 .. Len(batch) |-> MatchOf(batch[n])]
    BY <1>1 DEF AsBatch
<1>3. \A n \in 1 .. Len(batch) : MatchOf(batch[n]) \in {MatchOf(flow) : flow \in Request}
    OBVIOUS
<1>4. AsBatch(batch) \in Seq({MatchOf(flow) : flow \in Request})
    BY <1>1, <1>2, <1>3
<1>5. Len(AsBatch(batch)) = Len(batch)
    BY <1>1, <1>2
<1>6. QED BY <1>1, <1>2, <1>4, <1>5

(* What SwitchRules lets the first n commands reach. *)
LEMMA ReachedSeen ==
    ASSUME NEW batch \in Seq(Request), NEW rs, Made(rs, batch),
           NEW sw \in Switch, NEW k, NEW t0, NEW t, NEW n \in 0 .. Len(batch),
           Reached(sw, k, rs, t0, t, n)
    PROVE  \E S \in Batches!Reached(sw, SubSeq(AsBatch(batch), 1, n)) :
                AsTable(t) = Batches!Install(AsTable(t0), k, S)
<1> DEFINE sub == SubSeq(AsBatch(batch), 1, n)
<1>1. n \in Nat /\ Len(batch) \in Nat /\ n <= Len(batch)
    OBVIOUS
<1>2. ASSUME NEW m \in 1 .. n
      PROVE  AsBatch(batch)[m] \in {MatchOf(flow) : flow \in Request}
    <2>1. m \in 1 .. Len(batch) /\ batch[m] \in Request
        BY <1>1
    <2>2. AsBatch(batch)[m] = MatchOf(batch[m])
        BY <2>1, BatchSeen
    <2>3. QED BY <2>1, <2>2
<1>3. sub \in Seq({MatchOf(flow) : flow \in Request}) /\ Len(sub) = n
      /\ \A m \in 1 .. n : sub[m] = AsBatch(batch)[m]
    <2>1. 1 \in Int /\ n \in Int
        BY <1>1
    <2>2. sub \in Seq({MatchOf(flow) : flow \in Request})
          /\ Len(sub) = (IF 1 <= n THEN n - 1 + 1 ELSE 0)
          /\ \A m \in 1 .. n - 1 + 1 : sub[m] = AsBatch(batch)[1 + m - 1]
        BY <1>2, <2>1, SubSeqProperties
    <2> HIDE DEF sub
    <2>3. n - 1 + 1 = n /\ \A m \in 1 .. n : 1 + m - 1 = m
        BY <1>1
    <2>4. QED BY <1>1, <2>2, <2>3
<1> HIDE DEF sub
<1>4. Batches!Range(sub) = Sent(rs, n)
    <2>1. DOMAIN sub = 1 .. n
        BY <1>3
    <2>2. \A m \in 1 .. n : sub[m] = rs[m].match
        BY <1>1, <1>3, BatchSeen DEF Made
    <2>3. QED BY <2>1, <2>2 DEF Batches!Range, Sent
<1>5. PICK S \in SUBSET Sent(rs, n) :
        /\ sw = "local" => S = Sent(rs, n)
        /\ AsTable(t) = Put(AsTable(t0), k, S)
    BY DEF Reached
<1>6. S \in Batches!Reached(sw, sub)
    BY <1>4, <1>5 DEF Batches!Reached, Switch, Batches!Range
<1>7. AsTable(t) = Batches!Install(AsTable(t0), k, S)
    BY <1>5 DEF Put, Batches!Install
<1>8. QED BY <1>6, <1>7 DEF sub

LEMMA MadeBuildable ==
    ASSUME NEW batch \in Seq(Request), NEW rs, Made(rs, batch)
    PROVE  Batches!Buildable(AsBatch(batch))
<1>1. SUFFICES ASSUME NEW m \in 1 .. Len(batch), NEW flow \in Request, ~Supported(flow)
               PROVE  MatchOf(batch[m]) # MatchOf(flow)
    <2>1. DOMAIN AsBatch(batch) = 1 .. Len(batch)
        BY DEF AsBatch
    <2>2. \A m \in 1 .. Len(batch) : AsBatch(batch)[m] = MatchOf(batch[m])
        BY BatchSeen
    <2>3. Batches!Range(AsBatch(batch)) = {MatchOf(batch[m]) : m \in 1 .. Len(batch)}
        BY <2>1, <2>2 DEF Batches!Range
    <2>4. ASSUME NEW x \in {MatchOf(batch[m]) : m \in 1 .. Len(batch)},
                 x \in {MatchOf(flow) : flow \in {f \in Request : ~Supported(f)}}
          PROVE  FALSE
        <3>1. PICK m \in 1 .. Len(batch) : x = MatchOf(batch[m])
            OBVIOUS
        <3>2. PICK flow \in Request : ~Supported(flow) /\ x = MatchOf(flow)
            BY <2>4
        <3>3. QED BY <1>1, <3>1, <3>2
    <2>5. QED BY <2>3, <2>4 DEF Batches!Buildable
<1>2. Supported(batch[m])
    BY DEF Made
<1>3. MatchOf(batch[m]).protocol = batch[m].protocol /\ MatchOf(flow).protocol = flow.protocol
    BY DEF MatchOf
<1>4. QED BY <1>1, <1>2, <1>3 DEF Supported

LEMMA OutcomeDone ==
    ASSUME NEW batch \in Seq(Request), NEW rs, Made(rs, batch),
           NEW sw \in Switch, NEW k, NEW t0, NEW t,
           Reached(sw, k, rs, t0, t, Len(batch))
    PROVE  [table |-> AsTable(t), ret |-> 0]
             \in Batches!AddOutcomes(AsTable(t0), k, AsBatch(batch), sw)
<1>1. Len(batch) \in 0 .. Len(batch) /\ Len(AsBatch(batch)) = Len(batch)
    <2>1. Len(batch) \in Nat
        OBVIOUS
    <2>2. Len(AsBatch(batch)) = Len(batch)
        BY BatchSeen
    <2>3. QED BY <2>1, <2>2
<1>2. PICK S \in Batches!Reached(sw, SubSeq(AsBatch(batch), 1, Len(AsBatch(batch)))) :
        AsTable(t) = Batches!Install(AsTable(t0), k, S)
    BY <1>1, ReachedSeen
<1>3. Batches!Buildable(AsBatch(batch))
    BY MadeBuildable
<1>4. QED BY <1>2, <1>3 DEF Batches!AddOutcomes

LEMMA OutcomeUndone ==
    ASSUME NEW batch \in Seq(Request), NEW rs, Made(rs, batch), Len(batch) # 0,
           NEW sw \in Switch, NEW k, NEW t0, NEW t, NEW n \in 0 .. Len(batch),
           Reached(sw, k, rs, t0, t, n),
           NEW u, u = AsTable(t) \/ u = Wipe(AsTable(t), k)
    PROVE  [table |-> u, ret |-> -1]
             \in Batches!AddOutcomes(AsTable(t0), k, AsBatch(batch), sw)
<1> DEFINE Added(m) == {Batches!Install(AsTable(t0), k, S) :
                          S \in Batches!Reached(sw, SubSeq(AsBatch(batch), 1, m))}
           Failures == {m \in 0 .. Len(AsBatch(batch)) : AsBatch(batch) # <<>>}
<1>1. n \in Failures
    BY BatchSeen
<1>2. AsTable(t) \in Added(n)
    BY ReachedSeen
<1>3. \/ [table |-> u, done |-> FALSE] \in Batches!FlushOutcomes(AsTable(t), k)
      \/ [table |-> u, done |-> TRUE] \in Batches!FlushOutcomes(AsTable(t), k)
    BY DEF Batches!FlushOutcomes, Batches!Flush, Wipe
<1>4. PICK o \in Batches!FlushOutcomes(AsTable(t), k) : o.table = u
    BY <1>3
<1>5. Batches!Buildable(AsBatch(batch))
    BY MadeBuildable
<1>6. Batches!AddOutcomes(AsTable(t0), k, AsBatch(batch), sw)
        = {[table |-> AsTable(t0), ret |-> -1]}
          \cup {[table |-> x, ret |-> 0] : x \in Added(Len(AsBatch(batch)))}
          \cup {[table |-> q.table, ret |-> -1] :
                    q \in UNION {Batches!FlushOutcomes(x, k) :
                        x \in UNION {Added(m) : m \in Failures}}}
    BY <1>5 DEF Batches!AddOutcomes
<1> HIDE DEF Added, Failures
<1>7. AsTable(t) \in UNION {Added(m) : m \in Failures}
    BY <1>1, <1>2
<1>8. o \in UNION {Batches!FlushOutcomes(x, k) : x \in UNION {Added(m) : m \in Failures}}
    BY <1>4, <1>7
<1>9. QED BY <1>4, <1>6, <1>8

LEMMA OutcomeNothing ==
    ASSUME NEW t, NEW k, NEW batch, NEW sw
    PROVE  [table |-> t, ret |-> -1] \in Batches!AddOutcomes(t, k, batch, sw)
BY DEF Batches!AddOutcomes
-----------------------------------------------------------------------------

(* No table is taken for an unknown one. *)
LEMMA TablesKnown ==
    ASSUME NEW t
    PROVE  AsTable(t) # NotATable
<1>1. SUFFICES ASSUME AsTable(t) = NotATable PROVE FALSE
    OBVIOUS
<1>2. [unknown |-> TRUE] \in AsTable(t)
    BY <1>1 DEF NotATable
<1>3. PICK r \in t : [unknown |-> TRUE] = [match |-> r.match, cookie |-> r.cookie, old |-> FALSE]
    BY <1>2 DEF AsTable
<1>4. DOMAIN [unknown |-> TRUE] = {"unknown"}
    OBVIOUS
<1>5. "match" \in DOMAIN [match |-> r.match, cookie |-> r.cookie, old |-> FALSE]
    OBVIOUS
<1>6. QED BY <1>3, <1>4, <1>5

(* The tables as the rest of the daemon sees them while nothing it could see  *)
(* changes, and when a batch or a flush on switch s ends.                     *)
LEMMA SameSeen ==
    ASSUME UNCHANGED muddy, \A s \in Switch : Seen(s)' = Seen(s)
    PROVE  UNCHANGED AsRules
BY DEF AsRules

LEMMA EndSeen ==
    ASSUME UNCHANGED muddy, op # "none", op' = "none", state.switch \in Switch,
           \A s \in Switch : s # state.switch => table'[s] = table[s]
    PROVE  /\ state.switch \in muddy => UNCHANGED AsRules
           /\ state.switch \notin muddy =>
                /\ AsRules[state.switch] = AsTable(before)
                /\ AsRules' = [AsRules EXCEPT ![state.switch] = AsTable(table'[state.switch])]
<1>1. \A s \in Switch : s # state.switch => Seen(s)' = Seen(s)
    BY DEF Seen
<1>2. Seen(state.switch) = before
    BY DEF Seen
<1>3. CASE state.switch \in muddy
    BY <1>1, <1>3 DEF AsRules
<1>4. CASE state.switch \notin muddy
    <2>1. AsRules[state.switch] = AsTable(before)
        BY <1>2, <1>4 DEF AsRules
    <2>2. AsRules'[state.switch] = AsTable(table'[state.switch])
        BY <1>4 DEF AsRules, Seen
    <2>3. \A s \in Switch : s # state.switch => AsRules'[s] = AsRules[s]
        BY <1>1 DEF AsRules
    <2>4. QED BY <1>4, <2>1, <2>2, <2>3 DEF AsRules
<1>5. QED BY <1>3, <1>4

(* What a step that ends a batch or a flush is to SwitchRules. *)
LEMMA EndAsAdd ==
    ASSUME NEW s \in Switch, NEW k \in Cookie, NEW batch \in Batch, NEW ret, NEW t0, NEW u,
           AsRules[s] = AsTable(t0), AsRules' = [AsRules EXCEPT ![s] = u],
           [table |-> u, ret |-> ret] \in Batches!AddOutcomes(AsTable(t0), k, AsBatch(batch), s),
           answer' = ret \/ answer' = answer
    PROVE  Batches!Next
<1>1. s \in Batches!Switch /\ AsBatch(batch) \in {AsBatch(b) : b \in Batch}
    BY DEF Switch, Batches!Switch
<1>2. Batches!Known(s)
    BY TablesKnown DEF Batches!Known
<1> DEFINE outcomes == Batches!AddOutcomes(AsRules[s], k, AsBatch(batch), s)
<1>3. PICK out \in outcomes : out.table = u /\ out.ret = ret
    <2>1. outcomes = Batches!AddOutcomes(AsTable(t0), k, AsBatch(batch), s)
        OBVIOUS
    <2> HIDE DEF outcomes
    <2>2. [table |-> u, ret |-> ret] \in outcomes
        BY <2>1
    <2>3. QED BY <2>2
<1>4. CASE answer' = ret
    <2>1. Batches!Add(s, k, AsBatch(batch))
        BY <1>2, <1>3, <1>4 DEF Batches!Add
    <2>2. QED BY <1>1, <2>1 DEF Batches!Next
<1>5. CASE answer' = answer
    <2>1. Batches!Cut(s, k, AsBatch(batch))
        BY <1>2, <1>3, <1>5 DEF Batches!Cut
    <2>2. QED BY <1>1, <2>1 DEF Batches!Next
<1>6. QED BY <1>4, <1>5

LEMMA EndAsFlush ==
    ASSUME NEW s \in Switch, NEW k \in Cookie, NEW t0, NEW u,
           AsRules[s] = AsTable(t0), AsRules' = [AsRules EXCEPT ![s] = u],
           u = AsTable(t0) \/ u = Wipe(AsTable(t0), k), answer' = answer
    PROVE  Batches!Next
<1>1. s \in Batches!Switch /\ Batches!Known(s)
    BY TablesKnown DEF Switch, Batches!Switch, Batches!Known
<1>2. \E out \in Batches!FlushOutcomes(AsTable(t0), k) : out.table = u
    BY DEF Batches!FlushOutcomes, Batches!Flush, Wipe
<1>3. Batches!FlushRules(s, k)
    BY <1>1, <1>2 DEF Batches!FlushRules
<1>4. QED BY <1>1, <1>3 DEF Batches!Next

LEMMA EndSim ==
    ASSUME IInv, RInv, op # "none", UNCHANGED muddy,
           \/ (Failed \/ Worked) /\ op # "add"
           \/ Ended
           \/ AllRun /\ UNCHANGED table
    PROVE  Batches!Next \/ UNCHANGED <<AsRules, answer>>
<1> DEFINE s == state.switch
           t == table[s]
           u == table'[s]
<1>1. state \in Context /\ s \in Switch /\ state.cookie \in Cookie
    BY CommandAssumption DEF IInv, EditInv, JobOK, Cookie
<1>2. op' = "none"
    BY DEF Failed, Fails, Worked, Succeeds, Ended, Die, AllRun, Returns, Over
<1>3. (Failed \/ Worked) => Tried
    BY DEF Failed, Worked
<1>4. \A r \in Switch : r # s => table'[r] = table[r]
    BY <1>3, TriedTable DEF Ended
<1>5. \/ u = t
      \/ /\ Tried
         /\ AsTable(u) = IF op = "add" THEN Put(AsTable(t), state.cookie, {rules[i].match})
                         ELSE Wipe(AsTable(t), state.cookie)
    BY <1>3, TriedTable DEF Ended
<1>6. /\ s \in muddy => UNCHANGED AsRules
      /\ s \notin muddy => /\ AsRules[s] = AsTable(before)
                          /\ AsRules' = [AsRules EXCEPT ![s] = AsTable(u)]
    BY <1>1, <1>2, <1>4, EndSeen
<1>7. CASE s \in muddy
    <2>1. answer' \in {answer, 0, -1}
        BY DEF Failed, Fails, Worked, Succeeds, Ended, Die, AllRun, Returns
    <2>2. s \in Batches!Switch /\ ~Batches!Known(s)
        BY <1>1, <1>7 DEF Switch, Batches!Switch, Batches!Known, AsRules
    <2>3. CASE answer' \in {0, -1}
        <3>1. Batches!Blind
            BY <1>6, <1>7, <2>2, <2>3 DEF Batches!Blind
        <3>2. QED BY <3>1 DEF Batches!Next
    <2>4. CASE answer' = answer
        BY <1>6, <1>7, <2>4
    <2>5. QED BY <2>1, <2>3, <2>4
<1>8. CASE s \notin muddy
    <2>1. Progress
        BY <1>8 DEF RInv
    <2>2. CASE op = "flush"
        <3>1. answer' = answer
            BY <2>2 DEF Failed, Fails, Worked, Succeeds, Ended, Die, AllRun, Returns
        <3>2. t = before
            BY <2>1, <2>2 DEF Progress
        <3>3. AsTable(u) = AsTable(before) \/ AsTable(u) = Wipe(AsTable(before), state.cookie)
            BY <1>5, <2>2, <3>2
        <3> HIDE DEF s, t, u
        <3>4. QED BY <1>1, <1>6, <1>8, <3>1, <3>3, EndAsFlush
    <2>3. ASSUME op \in {"add", "undo"}
          PROVE  \E b \in Batch : b \in Seq(Request) /\ Made(rules, b) /\ Len(rules) = Len(b)
        BY <2>3, OffloadAssumption DEF RInv, Made
    <2>4. i \in Nat /\ Len(rules) \in Nat
        BY DEF IInv, EditInv, JobOK
    <2>5. CASE op = "undo"
        <3>1. PICK b \in Batch : b \in Seq(Request) /\ Made(rules, b) /\ Len(rules) = Len(b)
            BY <2>3, <2>5
        <3>2. answer' = -1 \/ answer' = answer
            BY <2>5 DEF Failed, Fails, Worked, Succeeds, Ended, Die, AllRun, Returns
        <3>3. AsTable(u) = AsTable(t) \/ AsTable(u) = Wipe(AsTable(t), state.cookie)
            BY <1>5, <2>5
        <3>4. i \in 1 .. Len(rules)
            BY <2>5 DEF RInv
        <3>5. PICK n \in 0 .. Len(b) : Got(t, n)
            <4>1. i \in 0 .. Len(b) /\ i - 1 \in 0 .. Len(b)
                BY <2>4, <3>1, <3>4
            <4>2. Got(t, i - 1) \/ Got(t, i)
                BY <2>1, <2>5 DEF Progress
            <4>3. QED BY <4>1, <4>2
        <3>6. Len(b) # 0
            BY <2>4, <3>1, <3>4
        <3>7. Reached(s, state.cookie, rules, before, t, n)
            BY <3>5 DEF Got
        <3> HIDE DEF s, t, u
        <3>8. [table |-> AsTable(u), ret |-> -1]
                \in Batches!AddOutcomes(AsTable(before), state.cookie, AsBatch(b), s)
            BY <1>1, <3>1, <3>3, <3>6, <3>7, OutcomeUndone
        <3>9. QED BY <1>1, <1>6, <1>8, <3>2, <3>8, EndAsAdd
    <2>6. CASE op = "add" /\ AllRun /\ UNCHANGED table
        <3>1. PICK b \in Batch : b \in Seq(Request) /\ Made(rules, b) /\ Len(rules) = Len(b)
            BY <2>3, <2>6
        <3>2. answer' = 0 /\ i > Len(rules)
            BY <2>6 DEF AllRun, Returns
        <3>3. i - 1 = Len(b)
            BY <2>4, <2>6, <3>1, <3>2 DEF IInv, EditInv, JobOK
        <3>4. Reached(s, state.cookie, rules, before, u, Len(b))
            BY <2>1, <2>6, <3>3 DEF Progress, Got
        <3> HIDE DEF s, t, u
        <3>5. [table |-> AsTable(u), ret |-> 0]
                \in Batches!AddOutcomes(AsTable(before), state.cookie, AsBatch(b), s)
            BY <1>1, <3>1, <3>4, OutcomeDone
        <3>6. QED BY <1>1, <1>6, <1>8, <3>2, <3>5, EndAsAdd
    <2>7. CASE op = "add" /\ Ended
        <3>1. PICK b \in Batch : b \in Seq(Request) /\ Made(rules, b) /\ Len(rules) = Len(b)
            BY <2>3, <2>7
        <3>2. answer' = answer
            BY <2>7 DEF Ended, Die
        <3>3. Got(t, i - 1) /\ i \in 1 .. Len(rules) + 1
            BY <2>1, <2>7 DEF Progress, IInv, EditInv, JobOK
        <3>4. CASE Len(b) = 0
            <4>1. ~Tried /\ i = 1
                BY <2>4, <2>7, <3>1, <3>3, <3>4 DEF Tried
            <4>2. u = t
                BY <1>5, <4>1
            <4>3. Reached(s, state.cookie, rules, before, u, 0)
                BY <3>3, <4>1, <4>2 DEF Got
            <4>4. AsTable(u) = AsTable(before)
                BY <4>3, InstallNothing DEF Reached, Sent
            <4> HIDE DEF s, t, u
            <4>5. [table |-> AsTable(u), ret |-> -1]
                    \in Batches!AddOutcomes(AsTable(before), state.cookie, AsBatch(b), s)
                BY <4>4, OutcomeNothing
            <4>6. QED BY <1>1, <1>6, <1>8, <3>1, <3>2, <4>5, EndAsAdd
        <3>5. CASE Len(b) # 0
            <4>1. PICK n \in 0 .. Len(b) : Got(u, n)
                <5>1. CASE u = t
                    <6>1. i - 1 \in 0 .. Len(b)
                        BY <2>4, <3>1, <3>3
                    <6>2. QED BY <3>3, <5>1, <6>1
                <5>2. CASE Tried
                    <6>1. i - 1 \in 0 .. Len(b) /\ i \in 0 .. Len(b)
                        BY <2>4, <2>7, <3>1, <3>3, <5>2 DEF Tried
                    <6>2. Got(u, i - 1) \/ Got(u, i)
                        BY <2>7, <3>3, <5>2, TriedProgress
                    <6>3. QED BY <6>1, <6>2
                <5>3. QED BY <1>5, <5>1, <5>2
            <4>2. Reached(s, state.cookie, rules, before, u, n)
                BY <4>1 DEF Got
            <4> HIDE DEF s, t, u
            <4>3. [table |-> AsTable(u), ret |-> -1]
                    \in Batches!AddOutcomes(AsTable(before), state.cookie, AsBatch(b), s)
                BY <1>1, <3>1, <3>5, <4>2, OutcomeUndone
            <4>4. QED BY <1>1, <1>6, <1>8, <3>1, <3>2, <4>3, EndAsAdd
        <3>6. QED BY <3>4, <3>5
    <2>8. op \in {"add", "undo", "flush"}
        BY DEF IInv, EditInv, JobOK
    <2>9. QED BY <2>2, <2>5, <2>6, <2>7, <2>8
<1>9. QED BY <1>7, <1>8

(* A step while the batch or the flush goes on shows nothing. *)
LEMMA OngoingSeen ==
    ASSUME op # "none", op' # "none", UNCHANGED <<state, before, muddy, answer>>,
           \A s \in Switch : s # state.switch => table'[s] = table[s]
    PROVE  UNCHANGED <<AsRules, answer>>
<1>1. \A s \in Switch : Seen(s)' = Seen(s)
    BY DEF Seen
<1>2. QED BY <1>1, SameSeen

LEMMA LateSim ==
    ASSUME IInv, LateRuns
    PROVE  Batches!Next
<1>1. PICK c \in late : Runs(c) /\ muddy' = muddy \cup {c.switch}
    BY DEF LateRuns
<1>2. c.switch \in Switch /\ c.switch \in Batches!Switch
    <2>1. c \in CommandType
        BY DEF IInv, EditInv, SwitchOK
    <2>2. c.switch \in Switch
        BY <1>1, <2>1, RunsTyped DEF IInv, EditInv
    <2>3. QED BY <2>2 DEF Switch, Batches!Switch
<1>3. UNCHANGED <<op, state, before, answer>>
    BY DEF LateRuns, jobVars
<1>4. \A s \in Switch : s # c.switch => Seen(s)' = Seen(s)
    BY <1>1, <1>3 DEF Runs, Seen, IInv, EditInv, SwitchOK
<1>5. AsRules' = [AsRules EXCEPT ![c.switch] = NotATable]
    BY <1>1, <1>2, <1>4 DEF AsRules
<1>6. Batches!Lose(c.switch)
    BY <1>3, <1>5 DEF Batches!Lose
<1>7. QED BY <1>2, <1>6 DEF Batches!Next

LEMMA EditSim ==
    ASSUME IInv, RInv, EditNext, ~LateRuns
    PROVE  Batches!Next \/ UNCHANGED <<AsRules, answer>>
<1>1. /\ UNCHANGED muddy
      /\ \/ Moved \/ Failed \/ Worked \/ Ended
         \/ AllRun /\ UNCHANGED table
    BY Shapes
<1>2. CASE Moved
    <2>1. op # "none" /\ UNCHANGED <<op, state, before, table, answer>>
        BY <1>2 DEF Moved, jobVars
    <2>2. QED BY <1>1, <2>1, OngoingSeen
<1>3. CASE (Failed \/ Worked) /\ op = "add"
    <2>1. op' # "none" /\ UNCHANGED <<state, before, answer>>
        BY <1>3 DEF Failed, Fails, Worked, Succeeds
    <2>2. \A s \in Switch : s # state.switch => table'[s] = table[s]
        BY <1>3, TriedTable DEF Failed, Worked
    <2>3. QED BY <1>1, <1>3, <2>1, <2>2, OngoingSeen
<1>4. CASE (Failed \/ Worked) /\ op # "add"
    <2>1. op # "none"
        BY <1>4 DEF Failed, Worked, Tried
    <2>2. QED BY <1>1, <1>4, <2>1, EndSim
<1>5. CASE Ended
    <2>1. CASE op = "none"
        <3>1. op' = "none" /\ UNCHANGED <<table, answer>>
            BY <1>5, <2>1 DEF Ended, Die, Over, Tried
        <3>2. \A s \in Switch : Seen(s)' = Seen(s)
            BY <2>1, <3>1 DEF Seen
        <3>3. QED BY <1>1, <3>1, <3>2, SameSeen
    <2>2. CASE op # "none"
        BY <1>1, <1>5, <2>2, EndSim
    <2>3. QED BY <2>1, <2>2
<1>6. CASE AllRun /\ UNCHANGED table
    <2>1. op # "none"
        BY <1>6 DEF AllRun
    <2>2. QED BY <1>1, <1>6, <2>1, EndSim
<1>7. QED BY <1>1, <1>2, <1>3, <1>4, <1>5, <1>6

LEMMA AddRulesSim ==
    ASSUME IInv, NEW x \in Context, NEW batch \in Batch, AddRules(x, batch)
    PROVE  Batches!Next \/ UNCHANGED <<AsRules, answer>>
<1>1. op = "none" /\ UNCHANGED <<table, muddy>>
    BY DEF AddRules, Idle, switchVars
<1>2. x.switch \in Switch /\ x.cookie \in Cookie
    BY CommandAssumption DEF Cookie
<1>3. CASE /\ op' = "add" /\ state' = x /\ before' = table[x.switch]
           /\ UNCHANGED answer
    <2>1. \A s \in Switch : Seen(s)' = Seen(s)
        BY <1>1, <1>3 DEF Seen
    <2>2. QED BY <1>1, <1>3, <2>1, SameSeen
<1>4. CASE answer' = -1 /\ UNCHANGED jobVars
    <2>1. op' = "none"
        BY <1>1, <1>4 DEF jobVars
    <2>2. \A s \in Switch : Seen(s)' = Seen(s) /\ Seen(s) = table[s]
        BY <1>1, <2>1 DEF Seen
    <2>3. UNCHANGED AsRules
        BY <1>1, <2>2, SameSeen
    <2>4. CASE x.switch \in muddy
        <3>1. x.switch \in Batches!Switch /\ ~Batches!Known(x.switch)
            BY <1>2, <2>4 DEF Switch, Batches!Switch, Batches!Known, AsRules
        <3>2. Batches!Blind
            BY <1>4, <2>3, <3>1 DEF Batches!Blind
        <3>3. QED BY <3>2 DEF Batches!Next
    <2>5. CASE x.switch \notin muddy
        <3>1. AsRules[x.switch] = AsTable(table[x.switch])
            BY <1>2, <2>2, <2>5 DEF AsRules
        <3>2. AsRules' = [AsRules EXCEPT ![x.switch] = AsTable(table[x.switch])]
            BY <2>3, <3>1 DEF AsRules
        <3>3. [table |-> AsTable(table[x.switch]), ret |-> -1] \in
                Batches!AddOutcomes(AsTable(table[x.switch]), x.cookie, AsBatch(batch), x.switch)
            BY OutcomeNothing
        <3>4. QED BY <1>2, <1>4, <3>1, <3>2, <3>3, EndAsAdd
    <2>6. QED BY <2>4, <2>5
<1>5. QED BY <1>3, <1>4 DEF AddRules

LEMMA NextSim ==
    IInv /\ RInv /\ [Next]_vars => Batches!Next \/ UNCHANGED <<AsRules, answer>>
<1> SUFFICES ASSUME IInv, RInv, [Next]_vars
             PROVE  Batches!Next \/ UNCHANGED <<AsRules, answer>>
    OBVIOUS
<1>1. ASSUME UNCHANGED <<jobVars, switchVars, answer>>
      PROVE  UNCHANGED <<AsRules, answer>>
    <2>1. \A s \in Switch : Seen(s)' = Seen(s)
        BY <1>1 DEF Seen, jobVars, switchVars
    <2>2. QED BY <1>1, <2>1, SameSeen DEF switchVars
<1>2. CASE UNCHANGED vars
    BY <1>1, <1>2 DEF vars, editVars
<1>3. ASSUME NEW m \in Constructor, Construct(m) PROVE UNCHANGED <<AsRules, answer>>
    BY <1>1, <1>3 DEF Construct
<1>4. CASE Main
    BY <1>1, <1>4 DEF Main
<1>5. ASSUME NEW c \in Card, Hello(c) PROVE UNCHANGED <<AsRules, answer>>
    <2>1. "HELLO" \in s_msg_handle /\ ~(Matches(c) /\ SlotOf(c) = Empty)
        BY <1>5, MatchedSlot DEF Hello, Idle, IInv, RegistryOK
    <2>2. UNCHANGED editVars
        BY <1>5, <2>1 DEF Hello
    <2>3. QED BY <1>1, <2>2 DEF editVars
<1>6. ASSUME NEW c \in Card, Bye(c) PROVE UNCHANGED <<AsRules, answer>>
    <2>1. Reaches("DISCONNECT")
        BY <1>6 DEF Bye, Idle, Reaches, IInv, RegistryOK
    <2>2. FlushRules(session[c]) /\ op = "none"
        BY <1>6, <2>1 DEF Bye, Idle
    <2>3. /\ op' = "flush" /\ state' = session[c]
          /\ before' = table[session[c].switch]
          /\ UNCHANGED <<table, muddy, answer>>
        BY <2>2 DEF FlushRules, switchVars
    <2>4. \A s \in Switch : Seen(s)' = Seen(s)
        BY <2>2, <2>3 DEF Seen
    <2>5. QED BY <2>3, <2>4, SameSeen
<1>7. ASSUME NEW c \in Card, NEW batch \in Batch, AddFlows(c, batch)
      PROVE  Batches!Next \/ UNCHANGED <<AsRules, answer>>
    <2>1. Reaches("ADD_FLOWS")
        BY <1>7 DEF AddFlows, Idle, Reaches, IInv, RegistryOK
    <2>2. AddRules(session[c], batch) /\ session[c] \in Context
        BY <1>7, <2>1 DEF AddFlows, IInv, SessionOK
    <2>3. QED BY <2>2, AddRulesSim
<1>8. CASE Works
    BY <1>8, LateSim, EditSim DEF Works
<1>9. QED BY <1>2, <1>3, <1>4, <1>5, <1>6, <1>7, <1>8 DEF Next

LEMMA InitSim == Init => RInv /\ Batches!Init
<1> SUFFICES ASSUME Init PROVE RInv /\ Batches!Init
    OBVIOUS
<1>1. RInv
    BY DEF Init, EditInit, RInv, SshStage
<1>2. \A s \in Switch : AsTable(Seen(s)) = {} /\ s \notin muddy
    BY DEF Init, EditInit, Seen, AsTable
<1>3. AsRules = [s \in Batches!Switch |-> {}]
    BY <1>2 DEF AsRules, Switch, Batches!Switch
<1>4. answer = Batches!NoAnswer
    BY DEF Init, EditInit, NoAnswer, Batches!NoAnswer
<1>5. QED BY <1>1, <1>3, <1>4 DEF Batches!Init

(* Every behaviour of the commands is one of the batches: what BackEnd takes  *)
(* for one step (acc_ovs_edit_rules and acc_ovs_flush_rules with every        *)
(* command, failure and end of the process in them) is one, for any batches   *)
(* and any number of contexts.                                                *)
THEOREM BatchesImplemented == Spec => BatchSpec
<1>1. Spec => [](IInv /\ RInv)
    <2>1. Init => IInv /\ RInv
        BY InitIInv, InitSim
    <2>2. (IInv /\ RInv) /\ [Next]_vars => (IInv /\ RInv)'
        BY NextIInv, NextRInv
    <2>3. QED BY <2>1, <2>2, PTL DEF Spec
<1>2. Init => Batches!Init
    BY InitSim
<1>3. (IInv /\ RInv) /\ [Next]_vars => [Batches!Next]_<<AsRules, answer>>
    BY NextSim
<1>4. QED BY <1>1, <1>2, <1>3, PTL DEF Spec, BatchSpec, Batches!Spec
=============================================================================
