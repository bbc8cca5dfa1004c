---------------------------- MODULE BackEndProofs ----------------------------
(* Proofs about the backend for every number of cards, paths and descriptors. *)
EXTENDS BackEnd, CardTableProofs

-----------------------------------------------------------------------------
(* What the commands sent to a switch can do to its table. *)

(* The rules a context with cookie k can own. *)
OwnRules(k) == {[match |-> m, cookie |-> k, old |-> FALSE] : m \in Match}

(* Installing and flushing for k leaves every rule of another cookie alone,   *)
(* except the ones whose match is installed.                                  *)
Preserves(t, u, k, S) ==
    /\ u \subseteq t \cup OwnRules(k)
    /\ \A r \in t : (r.cookie # k /\ r.match \notin S) => r \in u

LEMMA FlushPreserves ==
    ASSUME NEW t, NEW k, NEW o \in FlushOutcomes(t, k)
    PROVE  /\ o.table \subseteq t
           /\ \A r \in t : r.cookie # k => r \in o.table
           /\ o.done => \A r \in o.table : r.cookie # k
BY DEF FlushOutcomes, Flush

LEMMA ReachedBatch ==
    ASSUME NEW batch \in Seq(Match), NEW sw, NEW n \in 0 .. Len(batch),
           NEW S \in Reached(sw, SubSeq(batch, 1, n))
    PROVE  S \subseteq Range(batch) /\ Range(batch) \subseteq Match
<1>1. Range(batch) \subseteq Match
  BY DEF Range
<1>2. Range(SubSeq(batch, 1, n)) \subseteq Range(batch)
  BY DEF Range
<1> QED  BY <1>1, <1>2 DEF Reached

LEMMA AddPreserves ==
    ASSUME NEW t, NEW k, NEW batch \in Seq(Match), NEW sw,
           NEW o \in AddOutcomes(t, k, batch, sw)
    PROVE  Preserves(t, o.table, k, Range(batch))
<1> DEFINE Added(n) == {Install(t, k, S) : S \in Reached(sw, SubSeq(batch, 1, n))}
<1>1. ASSUME NEW n \in 0 .. Len(batch), NEW u \in Added(n)
      PROVE  Preserves(t, u, k, Range(batch))
  <2>1. PICK S \in Reached(sw, SubSeq(batch, 1, n)) : u = Install(t, k, S)
    BY <1>1
  <2>2. S \subseteq Range(batch) /\ S \subseteq Match
    BY ReachedBatch
  <2> QED  BY <2>1, <2>2 DEF Install, Preserves, OwnRules
<1>2. CASE o = [table |-> t, ret |-> -1]
  BY <1>2 DEF Preserves
<1>3. CASE \E u \in Added(Len(batch)) : o = [table |-> u, ret |-> 0]
  BY <1>1, <1>3
<1>4. CASE \E n \in 0 .. Len(batch) : \E u \in Added(n) :
             \E q \in FlushOutcomes(u, k) : o = [table |-> q.table, ret |-> -1]
  <2>1. PICK n \in 0 .. Len(batch) : \E u \in Added(n) :
           \E q \in FlushOutcomes(u, k) : o = [table |-> q.table, ret |-> -1]
    BY <1>4
  <2>2. PICK u \in Added(n) :
           \E q \in FlushOutcomes(u, k) : o = [table |-> q.table, ret |-> -1]
    BY <2>1
  <2>3. PICK q \in FlushOutcomes(u, k) : o = [table |-> q.table, ret |-> -1]
    BY <2>2
  <2>4. Preserves(t, u, k, Range(batch))
    BY <1>1
  <2>5. q.table \subseteq u /\ \A r \in u : r.cookie # k => r \in q.table
    BY FlushPreserves
  <2> QED  BY <2>3, <2>4, <2>5 DEF Preserves
<1> QED  BY <1>2, <1>3, <1>4 DEF AddOutcomes

(* A context's own rules and what was there are rules of the right type.      *)
LEMMA PreservesType ==
    ASSUME NEW t \in SUBSET Rule, NEW k \in Nat, NEW u, NEW S, Preserves(t, u, k, S)
    PROVE  u \in SUBSET Rule
<1>1. \A m \in Match : [match |-> m, cookie |-> k, old |-> FALSE] \in Rule
  BY DEF Rule
<1>2. OwnRules(k) \subseteq Rule
  BY <1>1 DEF OwnRules
<1> QED  BY <1>2 DEF Preserves

-----------------------------------------------------------------------------
(* The inductive invariant.  It strengthens what the runs check by where a    *)
(* cookie comes from: it was issued, to one block only, and only to a card    *)
(* whose path has a switch; no rule of this life carries one not yet issued.  *)

CookiesIssued ==
    /\ \A c \in Card : context[c] # NULL =>
          /\ context[c] < context_host_id
          /\ vmpath[c] \in Path
          /\ SwitchOf[vmpath[c]] \in Switch
    /\ \A s \in Switch : \A r \in rules[s] : ~r.old => r.cookie < context_host_id

CookiesDistinct ==
    \A c, d \in Card : (context[c] # NULL /\ context[c] = context[d]) => c = d

(* A callback's card was registered once, so its path field has a value.      *)
EventsNamed == \A f \in Fd : event[f] # NULL => vmpath[event[f]] \in Path

BackEndInv ==
    /\ TypeOK
    /\ TableInv
    /\ ContextIffPlugin
    /\ CookiesIssued
    /\ CookiesDistinct
    /\ EventsNamed

(* TableInvImplies of the next state. *)
LEMMA NextTableType == TableInv' => TableTypeOK'
BY TableInvImplies, PTL

(* The empty table of a process that has just ended. *)
LEMMA EmptiedTable ==
    ASSUME acc_cards' = [i \in Slots |-> NULL], reg_num' = 0, vmpath' = [c \in Card |-> NULL]
    PROVE  TableInv' /\ TableTypeOK' /\ Registered' = {} /\ Occupied' = {}
<1>1. Occupied' = {}
  BY DEF Occupied
<1>2. RegNumCounts'
  BY <1>1, FS_EmptySet DEF RegNumCounts
<1>3. UniquePath'
  BY DEF UniquePath
<1>4. 0 \in 0 .. ACC_CARD_MAX_NUM
  BY TableAssumption
<1> QED  BY <1>1, <1>2, <1>3, <1>4 DEF TableInv, TableTypeOK, Registered

LEMMA AgedType ==
    ASSUME NEW t \in SUBSET Rule
    PROVE  Aged(t) \in SUBSET Rule /\ \A r \in Aged(t) : r.old
BY DEF Aged, Rule

(* The death of the process restores the invariant, whatever it had sent to   *)
(* the switches.                                                              *)
LEMMA DieKeeps ==
    ASSUME TypeOK, NEW why \in Fault, NEW w \in [Switch -> SUBSET Rule], Die(why, w)
    PROVE  BackEndInv'
<1>1. TableInv' /\ TableTypeOK'
  BY EmptiedTable DEF Die
<1>2. rules' \in [Switch -> SUBSET Rule] /\ \A s \in Switch : \A r \in rules'[s] : r.old
  BY AgedType DEF Die
<1>3. TypeOK'
  BY <1>1, <1>2, BackEndAssumption DEF Die, TypeOK
<1>4. ContextIffPlugin' /\ CookiesDistinct' /\ EventsNamed'
  BY DEF Die, ContextIffPlugin, CookiesDistinct, EventsNamed
<1>5. CookiesIssued'
  BY <1>2 DEF Die, CookiesIssued
<1> QED  BY <1>1, <1>3, <1>4, <1>5 DEF BackEndInv

LEMMA InitBackEndInv == Init => BackEndInv
<1> SUFFICES ASSUME Init PROVE BackEndInv
  OBVIOUS
<1>1. TableInv /\ TableTypeOK
  BY InitTableInv, TableInvImplies DEF Init
<1>2. TypeOK
  BY <1>1, BackEndAssumption DEF Init, TypeOK
<1>3. ContextIffPlugin /\ CookiesDistinct /\ CookiesIssued /\ EventsNamed
  BY DEF Init, ContextIffPlugin, CookiesDistinct, CookiesIssued, EventsNamed
<1> QED  BY <1>1, <1>2, <1>3 DEF BackEndInv

LEMMA RegisterCmdKeeps ==
    ASSUME BackEndInv, NEW p \in Path, RegisterCmd(p)
    PROVE  BackEndInv'
<1>1. PICK c \in Card, i \in Slots :
          /\ Reg(p, c, i)
          /\ OpenChannel(p, c)
          /\ plugin' = [plugin EXCEPT ![c] = NULL]
          /\ context' = [context EXCEPT ![c] = NULL]
  BY DEF RegisterCmd
<1>2. TableInv' /\ TableTypeOK'
  BY <1>1, RegKeeps, NextTableType DEF BackEndInv
<1>3. UNCHANGED worldVars /\ vmpath' = [vmpath EXCEPT ![c] = p]
  BY <1>1 DEF RegisterCmd, Reg
<1>4. /\ read_event' \in [Card -> Fd \cup {NULL}]
      /\ sock' \in [Fd -> {"free", "open", "eof", "leaked"}]
      /\ peer' \in [Fd -> Path \cup {NULL}]
      /\ event' \in [Fd -> Card \cup {NULL}]
  BY <1>1 DEF OpenChannel, BackEndInv, TypeOK
<1>5. TypeOK'
  BY <1>1, <1>2, <1>3, <1>4 DEF BackEndInv, TypeOK, worldVars
<1>6. ContextIffPlugin'
  BY <1>1 DEF BackEndInv, TypeOK, ContextIffPlugin
<1>7. CookiesDistinct'
  BY <1>1 DEF BackEndInv, TypeOK, CookiesDistinct
<1>8. CookiesIssued'
  BY <1>1, <1>3 DEF BackEndInv, TypeOK, TableInv, CookiesIssued, worldVars
<1>9. EventsNamed'
  BY <1>1, <1>3 DEF BackEndInv, TypeOK, TableInv, EventsNamed, OpenChannel
<1> QED  BY <1>2, <1>5, <1>6, <1>7, <1>8, <1>9 DEF BackEndInv

LEMMA UnregisterCmdKeeps ==
    ASSUME BackEndInv, NEW p \in Path, UnregisterCmd(p)
    PROVE  BackEndInv'
<1>1. CASE Unreg(p) /\ UNCHANGED <<cardVars, channelVars, worldVars>>
  <2>1. TableInv' /\ TableTypeOK' /\ vmpath' = vmpath
    BY <1>1, UnregKeeps, NextTableType DEF BackEndInv, Unreg
  <2> QED  BY <1>1, <2>1 DEF BackEndInv, TypeOK, ContextIffPlugin, CookiesIssued,
                CookiesDistinct, EventsNamed, cardVars, channelVars, worldVars
<1>2. CASE Die("unreg_garbage", rules)
  BY <1>2, DieKeeps DEF BackEndInv, TypeOK, Fault
<1> QED  BY <1>1, <1>2 DEF UnregisterCmd

(* What a reply leaves alone: the table, the channels, the types.             *)
LEMMA RepliedKeeps ==
    ASSUME BackEndInv, NEW f \in Fd, NEW w \in [Switch -> SUBSET Rule], NEW b \in BOOLEAN,
           Replied(f, w, b),
           plugin' \in [Card -> Switch \cup {NULL}], context' \in [Card -> Nat \cup {NULL}],
           context_host_id' \in 0 .. MaxHostId, abandoned' \subseteq Nat
    PROVE  TypeOK' /\ TableInv' /\ EventsNamed' /\ vmpath' = vmpath
<1>1. TableInv' /\ TableTypeOK'
  BY DEF BackEndInv, TypeOK, Replied, tableVars, TableInv, TableTypeOK,
         UniquePath, HoldsPath, RegNumCounts, Occupied
<1>2. EventsNamed' /\ vmpath' = vmpath
  BY DEF BackEndInv, EventsNamed, Replied, channelVars, tableVars
<1> QED  BY <1>1, <1>2 DEF BackEndInv, TypeOK, Replied, channelVars

(* A flush changes one switch, and only takes rules away from it. *)
LEMMA FlushLeavesType ==
    ASSUME BackEndInv, NEW c \in Card, context[c] # NULL, NEW flush \in FlushLeaves(c)
    PROVE  /\ flush.tables \in [Switch -> SUBSET Rule]
           /\ \A s \in Switch : flush.tables[s] \subseteq rules[s]
<1>1. SwitchOf[vmpath[c]] \in Switch /\ rules \in [Switch -> SUBSET Rule]
  BY DEF BackEndInv, TypeOK, CookiesIssued
<1>2. PICK o \in FlushOutcomes(rules[SwitchOf[vmpath[c]]], context[c]) :
             flush = [tables |-> [rules EXCEPT ![SwitchOf[vmpath[c]]] = o.table],
                      done |-> o.done]
  BY DEF FlushLeaves
<1>3. o.table \subseteq rules[SwitchOf[vmpath[c]]]
  BY FlushPreserves
<1> QED  BY <1>1, <1>2, <1>3

(* The context of c ends, whatever the flush left in the switches.            *)
LEMMA EndedContext ==
    ASSUME BackEndInv, NEW c \in Card, context[c] # NULL,
           NEW flush \in FlushLeaves(c), ContextEnds(c, flush),
           UNCHANGED context_host_id, vmpath' = vmpath, rules' = flush.tables
    PROVE  /\ plugin' \in [Card -> Switch \cup {NULL}]
           /\ context' \in [Card -> Nat \cup {NULL}]
           /\ abandoned' \subseteq Nat
           /\ ContextIffPlugin' /\ CookiesIssued' /\ CookiesDistinct'
<1>1. /\ plugin' = [plugin EXCEPT ![c] = NULL]
      /\ context' = [context EXCEPT ![c] = NULL]
      /\ abandoned' \subseteq abandoned \cup {context[c]}
  BY DEF ContextEnds
<1>2. /\ plugin' \in [Card -> Switch \cup {NULL}]
      /\ context' \in [Card -> Nat \cup {NULL}]
      /\ abandoned' \subseteq Nat
  BY <1>1 DEF BackEndInv, TypeOK
<1>3. ContextIffPlugin' /\ CookiesDistinct'
  BY <1>1 DEF BackEndInv, TypeOK, ContextIffPlugin, CookiesDistinct
<1>4. \A s \in Switch : rules'[s] \subseteq rules[s]
  BY FlushLeavesType
<1>5. CookiesIssued'
  BY <1>1, <1>4 DEF BackEndInv, TypeOK, CookiesIssued
<1> QED  BY <1>2, <1>3, <1>5

(* A new context takes the next cookie; a refused HELLO leaves none.          *)
LEMMA HelloKeeps ==
    ASSUME BackEndInv, NEW f \in Fd, NEW c \in Card, Hello(f, c)
    PROVE  BackEndInv'
<1>1. CASE Die("sigpipe", rules)
  BY <1>1, DieKeeps DEF BackEndInv, TypeOK, Fault
<1>2. vmpath[c] \in Path
  BY BackEndAssumption, TableAssumption DEF Hello, Serves, BackEndInv, EventsNamed
<1>3. CASE /\ SwitchOf[vmpath[c]] = NULL
           /\ plugin' = [plugin EXCEPT ![c] = NULL]
           /\ Replied(f, rules, FALSE)
           /\ UNCHANGED <<context, context_host_id, abandoned>>
  <2>1. context[c] = NULL
    BY <1>3, BackEndAssumption DEF BackEndInv, CookiesIssued
  <2>2. TypeOK' /\ TableInv' /\ EventsNamed' /\ vmpath' = vmpath /\ rules' = rules
    BY <1>3, RepliedKeeps DEF BackEndInv, TypeOK, Replied
  <2> QED  BY <1>3, <2>1, <2>2 DEF BackEndInv, TypeOK, ContextIffPlugin, CookiesIssued,
                CookiesDistinct
<1>4. CASE /\ SwitchOf[vmpath[c]] # NULL
           /\ context_host_id < MaxHostId
           /\ plugin' = [plugin EXCEPT ![c] = SwitchOf[vmpath[c]]]
           /\ context' = [context EXCEPT ![c] = context_host_id]
           /\ context_host_id' = NextHostId
           /\ Replied(f, rules, TRUE)
           /\ abandoned' = abandoned \cup ({context[c]} \ {NULL})
  <2>1. SwitchOf[vmpath[c]] \in Switch
    BY <1>2, <1>4, BackEndAssumption
  <2>2. context_host_id \in Nat /\ context_host_id' = context_host_id + 1
        /\ context_host_id' \in 0 .. MaxHostId
    BY <1>4, BackEndAssumption DEF NextHostId, BackEndInv, TypeOK
  <2>3. TypeOK' /\ TableInv' /\ EventsNamed' /\ vmpath' = vmpath /\ rules' = rules
    <3>1. abandoned' \subseteq Nat
      BY <1>4 DEF BackEndInv, TypeOK
    <3>2. /\ plugin' \in [Card -> Switch \cup {NULL}]
          /\ context' \in [Card -> Nat \cup {NULL}]
      BY <1>4, <2>1, <2>2 DEF BackEndInv, TypeOK
    <3> QED  BY <1>4, <2>2, <3>1, <3>2, RepliedKeeps DEF BackEndInv, TypeOK, Replied
  <2>4. ContextIffPlugin'
    BY <1>4, <2>1, <2>2, BackEndAssumption DEF BackEndInv, TypeOK, ContextIffPlugin
  <2>5. CookiesIssued'
    <3>1. ASSUME NEW d \in Card, context'[d] # NULL
          PROVE  context'[d] < context_host_id' /\ vmpath[d] \in Path
                 /\ SwitchOf[vmpath[d]] \in Switch
      <4>1. CASE d = c
        BY <1>2, <1>4, <2>1, <2>2, <4>1 DEF BackEndInv, TypeOK
      <4>2. CASE d # c
        BY <1>4, <2>2, <3>1, <4>2 DEF BackEndInv, TypeOK, CookiesIssued
      <4> QED  BY <4>1, <4>2
    <3>2. \A s \in Switch : \A r \in rules[s] : ~r.old => r.cookie < context_host_id'
      BY <2>2 DEF BackEndInv, TypeOK, CookiesIssued, Rule
    <3> QED  BY <2>3, <3>1, <3>2 DEF CookiesIssued
  <2>6. CookiesDistinct'
    BY <1>4, <2>2 DEF BackEndInv, TypeOK, CookiesIssued, CookiesDistinct
  <2> QED  BY <2>3, <2>4, <2>5, <2>6 DEF BackEndInv
<1>5. CASE /\ plugin' = [plugin EXCEPT ![c] = NULL]
           /\ context' = [context EXCEPT ![c] = NULL]
           /\ UNCHANGED context_host_id
           /\ Replied(f, rules, FALSE)
           /\ abandoned' = abandoned \cup ({context[c]} \ {NULL})
  <2>1. TypeOK' /\ TableInv' /\ EventsNamed' /\ vmpath' = vmpath /\ rules' = rules
    BY <1>5, RepliedKeeps DEF BackEndInv, TypeOK, Replied
  <2> QED  BY <1>5, <2>1 DEF BackEndInv, TypeOK, ContextIffPlugin, CookiesIssued,
                CookiesDistinct
<1> QED  BY <1>1, <1>3, <1>4, <1>5 DEF Hello, Matches

(* Rules come and go only in the table of the card's own switch, and the new  *)
(* ones carry its cookie, which was issued.                                   *)
LEMMA AddFlowsKeeps ==
    ASSUME BackEndInv, NEW f \in Fd, NEW c \in Card, NEW batch \in Batch, AddFlows(f, c, batch)
    PROVE  BackEndInv'
<1>1. CASE context[c] = NULL
  BY <1>1, DieKeeps DEF AddFlows, BackEndInv, TypeOK, Fault
<1>2. CASE context[c] # NULL
  <2> DEFINE s == SwitchOf[vmpath[c]]
  <2>1. /\ s \in Switch
        /\ context[c] \in Nat
        /\ context[c] < context_host_id
        /\ rules \in [Switch -> SUBSET Rule]
        /\ batch \in Seq(Match)
    BY <1>2, BackEndAssumption DEF BackEndInv, TypeOK, CookiesIssued
  <2>2. PICK out \in AddOutcomes(rules[s], context[c], batch, s) :
           LET w == [rules EXCEPT ![s] = out.table]
           IN  \/ /\ Replied(f, w, TRUE)
                  /\ UNCHANGED <<plugin, context, context_host_id, abandoned>>
               \/ \E why \in Fault : Die(why, w)
    BY <1>2 DEF AddFlows, Ends, Fault
  <2> DEFINE w == [rules EXCEPT ![s] = out.table]
  <2>3. Preserves(rules[s], out.table, context[c], Range(batch))
    BY <2>1, AddPreserves
  <2>4. out.table \in SUBSET Rule
    BY <2>1, <2>3, PreservesType
  <2>5. w \in [Switch -> SUBSET Rule]
    BY <2>1, <2>4
  <2>6. CASE \E why \in Fault : Die(why, w)
    BY <2>5, <2>6, DieKeeps DEF BackEndInv
  <2>7. CASE Replied(f, w, TRUE) /\ UNCHANGED <<plugin, context, context_host_id, abandoned>>
    <3>1. TypeOK' /\ TableInv' /\ EventsNamed' /\ vmpath' = vmpath
      BY <2>5, <2>7, RepliedKeeps DEF BackEndInv, TypeOK
    <3>2. rules' = w
      BY <2>7 DEF Replied
    <3>3. \A r \in out.table : ~r.old => r.cookie < context_host_id
      BY <2>1, <2>3 DEF Preserves, OwnRules, BackEndInv, CookiesIssued
    <3>4. \A t \in Switch : \A r \in w[t] : ~r.old => r.cookie < context_host_id
      BY <2>1, <3>3 DEF BackEndInv, CookiesIssued
    <3>5. CookiesIssued'
      BY <2>7, <3>1, <3>2, <3>4 DEF BackEndInv, CookiesIssued
    <3>6. ContextIffPlugin' /\ CookiesDistinct'
      BY <2>7 DEF BackEndInv, ContextIffPlugin, CookiesDistinct
    <3> QED  BY <3>1, <3>5, <3>6 DEF BackEndInv
  <2> QED  BY <2>2, <2>6, <2>7
<1> QED  BY <1>1, <1>2

LEMMA DisconnectKeeps ==
    ASSUME BackEndInv, NEW f \in Fd, NEW c \in Card, Disconnect(f, c)
    PROVE  BackEndInv'
<1>1. CASE context[c] = NULL
  BY <1>1, DieKeeps DEF Disconnect, BackEndInv, TypeOK, Fault
<1>2. CASE context[c] # NULL
  <2>1. PICK flush \in FlushLeaves(c) :
           \/ /\ ContextEnds(c, flush)
              /\ Replied(f, flush.tables, FALSE)
              /\ UNCHANGED context_host_id
           \/ \E why \in Fault : Die(why, flush.tables)
    BY <1>2 DEF Disconnect, Ends, Fault
  <2>2. flush.tables \in [Switch -> SUBSET Rule]
    BY <1>2, FlushLeavesType
  <2>3. CASE \E why \in Fault : Die(why, flush.tables)
    BY <2>2, <2>3, DieKeeps DEF BackEndInv
  <2>4. CASE /\ ContextEnds(c, flush)
             /\ Replied(f, flush.tables, FALSE)
             /\ UNCHANGED context_host_id
    <3>1. rules' = flush.tables /\ vmpath' = vmpath
      BY <2>4 DEF Replied, tableVars
    <3>2. /\ plugin' \in [Card -> Switch \cup {NULL}]
          /\ context' \in [Card -> Nat \cup {NULL}]
          /\ abandoned' \subseteq Nat
          /\ ContextIffPlugin' /\ CookiesIssued' /\ CookiesDistinct'
      BY <1>2, <2>4, <3>1, EndedContext
    <3>3. TypeOK' /\ TableInv' /\ EventsNamed'
      BY <2>2, <2>4, <3>2, RepliedKeeps DEF BackEndInv, TypeOK
    <3> QED  BY <3>2, <3>3 DEF BackEndInv
  <2> QED  BY <2>1, <2>3, <2>4
<1> QED  BY <1>1, <1>2

LEMMA EofKeeps ==
    ASSUME BackEndInv, NEW f \in Fd, NEW c \in Card, Eof(f, c)
    PROVE  BackEndInv'
<1>1. CASE read_event[c] = NULL \/ context[c] = NULL
  BY <1>1, DieKeeps DEF Eof, BackEndInv, TypeOK, Fault
<1>2. CASE context[c] # NULL /\ \E flush \in FlushLeaves(c) : Die("remote_exec", flush.tables)
  <2>1. PICK flush \in FlushLeaves(c) : Die("remote_exec", flush.tables)
    BY <1>2
  <2> QED  BY <1>2, <2>1, FlushLeavesType, DieKeeps DEF BackEndInv, Fault
<1>3. CASE /\ context[c] # NULL
           /\ sock' = [sock EXCEPT ![f] = "free"]
           /\ event' = [event EXCEPT ![read_event[c]] = NULL]
           /\ read_event' = [read_event EXCEPT ![c] = NULL]
           /\ \E flush \in FlushLeaves(c) : ContextEnds(c, flush) /\ rules' = flush.tables
           /\ Unreg(vmpath[c])
           /\ UNCHANGED <<peer, daemon, context_host_id, handle>>
  <2>2. PICK flush \in FlushLeaves(c) : ContextEnds(c, flush) /\ rules' = flush.tables
    BY <1>3
  <2>3. TableInv' /\ TableTypeOK' /\ vmpath' = vmpath
    BY <1>3, UnregKeeps, UnregEffect, NextTableType DEF BackEndInv
  <2>4. /\ plugin' \in [Card -> Switch \cup {NULL}]
        /\ context' \in [Card -> Nat \cup {NULL}]
        /\ abandoned' \subseteq Nat
        /\ ContextIffPlugin' /\ CookiesIssued' /\ CookiesDistinct'
    BY <1>3, <2>2, <2>3, EndedContext
  <2>5. rules' \in [Switch -> SUBSET Rule]
    BY <1>3, <2>2, FlushLeavesType
  <2>6. TypeOK'
    BY <1>3, <2>3, <2>4, <2>5 DEF BackEndInv, TypeOK
  <2>7. EventsNamed'
    BY <1>3, <2>3 DEF BackEndInv, TypeOK, EventsNamed
  <2> QED  BY <2>3, <2>4, <2>6, <2>7 DEF BackEndInv
<1> QED  BY <1>1, <1>2, <1>3 DEF Eof, Closed

(* The steps that touch neither a card's session nor a cookie. *)
LEMMA QuietKeeps ==
    ASSUME BackEndInv,
           UNCHANGED <<tableVars, cardVars, context_host_id, rules, abandoned>>,
           UNCHANGED <<peer, event>>,
           daemon' \in {"up"} \cup Fault,
           sock' \in [Fd -> {"free", "open", "eof", "leaked"}],
           handle' \in [Path -> BOOLEAN]
    PROVE  BackEndInv'
<1>1. TableInv' /\ TableTypeOK'
  BY DEF BackEndInv, TypeOK, tableVars, TableInv, TableTypeOK,
         UniquePath, HoldsPath, RegNumCounts, Occupied
<1>2. TypeOK'
  BY <1>1 DEF BackEndInv, TypeOK, cardVars
<1> QED  BY <1>1, <1>2 DEF BackEndInv, ContextIffPlugin, CookiesIssued, CookiesDistinct,
             EventsNamed, tableVars, cardVars

LEMMA StepBackEndInv == BackEndInv /\ [Next]_vars => BackEndInv'
<1> SUFFICES ASSUME BackEndInv, [Next]_vars PROVE BackEndInv'
  OBVIOUS
<1>1. ASSUME NEW p \in Path, RegisterCmd(p) PROVE BackEndInv'
  BY <1>1, RegisterCmdKeeps
<1>2. ASSUME NEW p \in Unregisters, UnregisterCmd(p) PROVE BackEndInv'
  BY <1>2, UnregisterCmdKeeps, BackEndAssumption
<1>3. ASSUME NEW f \in Fd, NEW c \in Card, Handler(f, c) PROVE BackEndInv'
  <2>1. CASE UseAfterFree(f, c)
    BY <2>1, DieKeeps DEF UseAfterFree, BackEndInv, TypeOK, Fault
  <2> QED  BY <1>3, <2>1, HelloKeeps, AddFlowsKeeps, DisconnectKeeps, EofKeeps DEF Handler
<1>4. ASSUME NEW f \in Fd, ReadError(f) PROVE BackEndInv'
  BY <1>4, DieKeeps DEF ReadError, BackEndInv, TypeOK, Fault
<1>5. ASSUME NEW f \in Fd, VmCloses(f) PROVE BackEndInv'
  BY <1>5, QuietKeeps DEF VmCloses, worldVars, BackEndInv, TypeOK
<1>6. ASSUME NEW p \in Path, GuestLoses(p) PROVE BackEndInv'
  BY <1>6, QuietKeeps DEF GuestLoses, channelVars, BackEndInv, TypeOK
<1>7. CASE Killed
  BY <1>7, DieKeeps DEF Killed, BackEndInv, TypeOK, Fault
<1>8. CASE Restart
  BY <1>8, QuietKeeps DEF Restart, channelVars, BackEndInv, TypeOK
<1>9. CASE UNCHANGED vars
  BY <1>9, QuietKeeps DEF vars, channelVars, worldVars, BackEndInv, TypeOK
<1> QED  BY <1>1, <1>2, <1>3, <1>4, <1>5, <1>6, <1>7, <1>8, <1>9 DEF Next

LEMMA BackEndInvariant == Spec => []BackEndInv
BY InitBackEndInv, StepBackEndInv, PTL DEF Spec

(* Every variable keeps its type, the operator's removals included. *)
THEOREM BackEndTypes == Spec => []TypeOK
BY BackEndInvariant, PTL DEF BackEndInv

(* The card table inside the daemon stays consistent. *)
THEOREM BackEndTable == Spec => []TableConsistent
BY BackEndInvariant, TableInvImplies, PTL DEF BackEndInv

(* Plugin and context come and go together. *)
THEOREM SessionsWhole == Spec => []ContextIffPlugin
BY BackEndInvariant, PTL DEF BackEndInv

LEMMA DistinctLive == BackEndInv => LiveCookiesDistinct
BY TableAssumption DEF BackEndInv, TypeOK, TableTypeOK, Registered, Occupied,
       CookiesDistinct, LiveCookiesDistinct

(* No two cards of the table share a cookie, for any number of HELLOs below   *)
(* the bound.                                                                 *)
THEOREM CookiesUnique == Spec => []LiveCookiesDistinct
BY BackEndInvariant, DistinctLive, PTL
=============================================================================
