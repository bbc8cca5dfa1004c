--------------------------- MODULE BackEndOwnership ---------------------------
(* Proofs about who may touch what in the backend, as long as no operator     *)
(* unregisters a card by command (Unregisters = {}): the card table, the      *)
(* channels and the rules agree, and one guest cannot cost another a rule.    *)
EXTENDS BackEndProofs

(* The rules of a session stand in the switch of its card, so the one flush   *)
(* that ends the session reaches all of them.                                 *)
RuleHome ==
    \A c \in Card, s \in Switch : \A r \in rules[s] :
        (~r.old /\ r.cookie = context[c]) => s = SwitchOf[vmpath[c]]

OwnerInv == ChannelOwnership /\ NoOrphanRules /\ RuleHome

(* Distinct registered cards have distinct paths. *)
LEMMA UniqueCards ==
    ASSUME TableInv
    PROVE  \A c, d \in Registered : vmpath[c] = vmpath[d] => c = d
BY DEF TableInv, UniquePath, HoldsPath, Registered, Occupied

(* A cookie is never NULL, so a rule that carries context[c] shows c has one. *)
LEMMA CookieNotNull ==
    ASSUME TypeOK
    PROVE  \A s \in Switch : \A r \in rules[s] : r.cookie # NULL
BY BackEndAssumption DEF TypeOK, Rule

LEMMA InitOwnerInv == Init => OwnerInv
BY DEF Init, OwnerInv, ChannelOwnership, NoOrphanRules, RuleHome

LEMMA DieOwner ==
    ASSUME TypeOK, NEW why \in Fault, NEW w \in [Switch -> SUBSET Rule], Die(why, w)
    PROVE  OwnerInv'
<1>1. \A s \in Switch : \A r \in rules'[s] : r.old
  BY AgedType DEF Die
<1>2. NoOrphanRules' /\ RuleHome'
  BY <1>1 DEF NoOrphanRules, RuleHome
<1>3. ChannelOwnership'
  BY DEF Die, ChannelOwnership
<1> QED  BY <1>2, <1>3 DEF OwnerInv

(* A fresh block, a fresh event: the others keep theirs. *)
LEMMA RegisterCmdOwner ==
    ASSUME BackEndInv, OwnerInv, NEW p \in Path, RegisterCmd(p)
    PROVE  OwnerInv'
<1>1. PICK c \in Card, i \in Slots :
          /\ Reg(p, c, i)
          /\ OpenChannel(p, c)
          /\ plugin' = [plugin EXCEPT ![c] = NULL]
          /\ context' = [context EXCEPT ![c] = NULL]
  BY DEF RegisterCmd
<1>2. /\ Registered' = Registered \cup {c}
      /\ c \notin Registered
      /\ \A d \in Registered : vmpath'[d] = vmpath[d]
      /\ vmpath'[c] = p
      /\ vmpath' = [vmpath EXCEPT ![c] = p]
      /\ UNCHANGED <<rules, abandoned>>
  BY <1>1, RegEffect DEF RegisterCmd, worldVars, BackEndInv, Reg
<1>3. context[c] = NULL /\ read_event[c] = NULL
  BY <1>2, TableAssumption DEF OwnerInv, ChannelOwnership, BackEndInv, TypeOK
<1>4. ChannelOwnership'
  <2>1. CASE \E f \in Fd :
          /\ sock[f] = "free" /\ event[f] = NULL
          /\ sock' = [sock EXCEPT ![f] = "open"]
          /\ peer' = [peer EXCEPT ![f] = p]
          /\ event' = [event EXCEPT ![f] = c]
          /\ read_event' = [read_event EXCEPT ![c] = f]
    <3>1. PICK f \in Fd :
          /\ sock[f] = "free" /\ event[f] = NULL
          /\ sock' = [sock EXCEPT ![f] = "open"]
          /\ peer' = [peer EXCEPT ![f] = p]
          /\ event' = [event EXCEPT ![f] = c]
          /\ read_event' = [read_event EXCEPT ![c] = f]
      BY <2>1
    <3>2. ASSUME NEW g \in Fd, event'[g] # NULL
          PROVE  /\ event'[g] \in Registered'
                 /\ read_event'[event'[g]] = g
                 /\ peer'[g] = vmpath'[event'[g]]
      <4>1. CASE g = f
        BY <1>2, <3>1, <4>1 DEF BackEndInv, TypeOK
      <4>2. CASE g # f
        BY <1>2, <3>1, <3>2, <4>2 DEF BackEndInv, TypeOK, OwnerInv, ChannelOwnership
      <4> QED  BY <4>1, <4>2
    <3>3. \A g \in Fd : event'[g] # NULL <=> sock'[g] \in {"open", "eof"}
      BY <3>1, TableAssumption DEF BackEndInv, TypeOK, OwnerInv, ChannelOwnership
    <3>4. \A d \in Card : read_event'[d] # NULL => event'[read_event'[d]] = d
      <4>1. ASSUME NEW d \in Card, d # c, read_event'[d] # NULL
            PROVE  event'[read_event'[d]] = d
        <5>1. read_event'[d] = read_event[d] /\ event[read_event[d]] = d /\ read_event[d] \in Fd
          BY <3>1, <4>1 DEF BackEndInv, TypeOK, OwnerInv, ChannelOwnership
        <5>2. read_event[d] # f
          BY <3>1, <5>1, TableAssumption
        <5> QED  BY <3>1, <5>1, <5>2 DEF BackEndInv, TypeOK
      <4>2. event'[read_event'[c]] = c
        BY <3>1 DEF BackEndInv, TypeOK
      <4> QED  BY <4>1, <4>2
    <3>5. \A d \in Card : context'[d] # NULL => d \in Registered' /\ read_event'[d] # NULL
      BY <1>1, <1>2, <1>3, <3>1 DEF BackEndInv, TypeOK, OwnerInv, ChannelOwnership
    <3> QED  BY <3>2, <3>3, <3>4, <3>5 DEF ChannelOwnership
  <2>2. CASE /\ \/ UNCHANGED sock
                \/ \E f \in Fd : sock[f] = "free" /\ sock' = [sock EXCEPT ![f] = "leaked"]
             /\ read_event' = [read_event EXCEPT ![c] = NULL]
             /\ UNCHANGED <<peer, event>>
    <3>1. read_event' = read_event
      BY <1>3, <2>2 DEF BackEndInv, TypeOK
    <3>2. \A g \in Fd : sock'[g] \in {"open", "eof"} <=> sock[g] \in {"open", "eof"}
      BY <2>2 DEF BackEndInv, TypeOK
    <3>3. context' = context
      BY <1>1, <1>3 DEF BackEndInv, TypeOK
    <3> QED  BY <1>2, <2>2, <3>1, <3>2, <3>3 DEF OwnerInv, ChannelOwnership
  <2> QED  BY <1>1, <2>1, <2>2 DEF OpenChannel
<1>5. context' = context
  BY <1>1, <1>3 DEF BackEndInv, TypeOK
<1>6. LiveCookies' = LiveCookies
  BY <1>2, <1>3, <1>5 DEF LiveCookies
<1>7. NoOrphanRules'
  BY <1>2, <1>6 DEF OwnerInv, NoOrphanRules
<1>8. RuleHome'
  <2>1. \A s \in Switch : \A r \in rules[s] : r.cookie # context[c]
    BY <1>3, CookieNotNull DEF BackEndInv
  <2> QED  BY <1>2, <1>5, <2>1 DEF BackEndInv, TableInv, OwnerInv, RuleHome
<1> QED  BY <1>4, <1>7, <1>8 DEF OwnerInv

(* A reply leaves the channels alone; only the card that was served may gain  *)
(* a context.                                                                 *)
LEMMA RepliedOwner ==
    ASSUME BackEndInv, ChannelOwnership, NEW f \in Fd, NEW c \in Card, Serves(f, c),
           NEW w, NEW b, Replied(f, w, b),
           \A d \in Card \ {c} : context'[d] = context[d]
    PROVE  ChannelOwnership' /\ Registered' = Registered /\ c \in Registered
<1>1. UNCHANGED <<acc_cards, vmpath, sock, peer, event, read_event>> /\ rules' = w
  BY DEF Replied, tableVars, channelVars
<1>2. Registered' = Registered
  BY <1>1 DEF Registered, Occupied
<1>3. c \in Registered /\ read_event[c] = f /\ f # NULL
  BY TableAssumption, BackEndAssumption DEF Serves, ChannelOwnership
<1>4. \A d \in Card : context'[d] # NULL => d \in Registered /\ read_event[d] # NULL
  BY <1>3 DEF ChannelOwnership
<1> QED  BY <1>1, <1>2, <1>3, <1>4 DEF ChannelOwnership

(* A HELLO gives the card a cookie no rule carries, or takes its cookie away; *)
(* either way the old cookie is abandoned.                                    *)
LEMMA HelloOwner ==
    ASSUME BackEndInv, OwnerInv, NEW f \in Fd, NEW c \in Card, Hello(f, c)
    PROVE  OwnerInv'
<1>1. CASE Die("sigpipe", rules)
  BY <1>1, DieOwner DEF BackEndInv, TypeOK, Fault
<1>2. CASE /\ \E b \in BOOLEAN : Replied(f, rules, b)
           /\ \A d \in Card \ {c} : context'[d] = context[d]
           /\ context'[c] \in {NULL, context[c], context_host_id}
           /\ abandoned \subseteq abandoned'
           /\ context'[c] # context[c] /\ context[c] # NULL => context[c] \in abandoned'
  <2>1. rules' = rules /\ vmpath' = vmpath
    BY <1>2 DEF Replied, tableVars
  <2>2. ChannelOwnership' /\ Registered' = Registered /\ c \in Registered
    BY <1>2, RepliedOwner DEF Hello, OwnerInv
  <2>3. LiveCookies \subseteq LiveCookies' \cup abandoned'
    <3>1. ASSUME NEW d \in Registered, context[d] # NULL
          PROVE  context[d] \in LiveCookies' \cup abandoned'
      <4>1. d \in Card
        BY TableAssumption DEF Registered, Occupied, BackEndInv, TableInv
      <4> QED  BY <1>2, <2>2, <3>1, <4>1 DEF LiveCookies
    <3> QED  BY <3>1 DEF LiveCookies
  <2>4. NoOrphanRules'
    BY <1>2, <2>1, <2>3 DEF OwnerInv, NoOrphanRules
  <2>5. RuleHome'
    <3>1. ASSUME NEW d \in Card, NEW s \in Switch, NEW r \in rules[s], ~r.old,
                 r.cookie = context'[d]
          PROVE  s = SwitchOf[vmpath[d]]
      <4>1. r.cookie < context_host_id /\ r.cookie # NULL /\ r.cookie \in Nat
        BY <3>1, CookieNotNull DEF BackEndInv, CookiesIssued, TypeOK, Rule
      <4>2. context'[d] = context[d]
        BY <1>2, <3>1, <4>1 DEF BackEndInv, TypeOK
      <4> QED  BY <3>1, <4>2 DEF OwnerInv, RuleHome
    <3> QED  BY <2>1, <3>1 DEF RuleHome
  <2> QED  BY <2>2, <2>4, <2>5 DEF OwnerInv
<1>3. Die("sigpipe", rules) \/
         /\ \E b \in BOOLEAN : Replied(f, rules, b)
         /\ \A d \in Card \ {c} : context'[d] = context[d]
         /\ context'[c] \in {NULL, context[c], context_host_id}
         /\ abandoned \subseteq abandoned'
         /\ context'[c] # context[c] /\ context[c] # NULL => context[c] \in abandoned'
  BY DEF Hello, BackEndInv, TypeOK
<1> QED  BY <1>1, <1>2, <1>3

(* New rules carry the cookie of a registered card and go to its own switch.  *)
LEMMA AddFlowsOwner ==
    ASSUME BackEndInv, OwnerInv, NEW f \in Fd, NEW c \in Card, NEW batch \in Batch,
           AddFlows(f, c, batch)
    PROVE  OwnerInv'
<1>1. CASE context[c] = NULL
  BY <1>1, DieOwner DEF AddFlows, BackEndInv, TypeOK, Fault
<1>2. CASE context[c] # NULL
  <2> DEFINE s == SwitchOf[vmpath[c]]
  <2>1. /\ s \in Switch
        /\ context[c] \in Nat
        /\ rules \in [Switch -> SUBSET Rule]
        /\ batch \in Seq(Match)
    BY <1>2, BackEndAssumption DEF BackEndInv, TypeOK, CookiesIssued
  <2>2. PICK out \in AddOutcomes(rules[s], context[c], batch, s) :
           LET w == [rules EXCEPT ![s] = out.table]
           IN  \/ /\ Replied(f, w, TRUE)
                  /\ UNCHANGED <<plugin, context, context_host_id, abandoned>>
               \/ \E why \in Fault : Die(why, w)
    BY <1>2 DEF AddFlows, Ends, Fault
  <2> DEFINE w == [rules EXCEPT ![s] = out.table]
  <2>3. Preserves(rules[s], out.table, context[c], Range(batch))
    BY <2>1, AddPreserves
  <2>4. w \in [Switch -> SUBSET Rule]
    BY <2>1, <2>3, PreservesType
  <2>5. CASE \E why \in Fault : Die(why, w)
    BY <2>4, <2>5, DieOwner DEF BackEndInv
  <2>6. CASE Replied(f, w, TRUE) /\ UNCHANGED <<plugin, context, context_host_id, abandoned>>
    <3>1. rules' = w /\ vmpath' = vmpath /\ context' = context /\ abandoned' = abandoned
      BY <2>6 DEF Replied, tableVars
    <3>2. ChannelOwnership' /\ Registered' = Registered /\ c \in Registered
      BY <2>6, RepliedOwner DEF AddFlows, OwnerInv
    <3>3. LiveCookies' = LiveCookies /\ context[c] \in LiveCookies
      BY <1>2, <3>1, <3>2 DEF LiveCookies
    <3>4. \A t \in Switch : \A r \in w[t] :
            r \in rules[t] \/ (t = s /\ r.cookie = context[c])
      BY <2>1, <2>3 DEF Preserves, OwnRules
    <3>5. NoOrphanRules'
      BY <3>1, <3>3, <3>4 DEF OwnerInv, NoOrphanRules
    <3>6. RuleHome'
      BY <1>2, <3>1, <3>4 DEF OwnerInv, RuleHome, BackEndInv, CookiesDistinct
    <3> QED  BY <3>2, <3>5, <3>6 DEF OwnerInv
  <2> QED  BY <2>2, <2>5, <2>6
<1> QED  BY <1>1, <1>2

(* A session that ends leaves no rule of its cookie, or abandons it. *)
LEMMA EndedOwner ==
    ASSUME BackEndInv, NoOrphanRules, RuleHome, NEW c \in Card, context[c] # NULL,
           NEW flush \in FlushLeaves(c), ContextEnds(c, flush),
           vmpath' = vmpath, rules' = flush.tables, Registered \ {c} \subseteq Registered'
    PROVE  NoOrphanRules' /\ RuleHome'
<1> DEFINE s == SwitchOf[vmpath[c]]
<1>1. s \in Switch /\ rules \in [Switch -> SUBSET Rule]
  BY DEF BackEndInv, TypeOK, CookiesIssued
<1>2. PICK o \in FlushOutcomes(rules[s], context[c]) :
             flush = [tables |-> [rules EXCEPT ![s] = o.table], done |-> o.done]
  BY DEF FlushLeaves
<1>3. /\ o.table \subseteq rules[s]
      /\ o.done => \A r \in o.table : r.cookie # context[c]
  BY FlushPreserves
<1>4. rules' = [rules EXCEPT ![s] = o.table] /\ flush.done = o.done
  BY <1>2
<1>5. /\ context' = [context EXCEPT ![c] = NULL]
      /\ abandoned' = IF o.done THEN abandoned ELSE abandoned \cup {context[c]}
  BY <1>4 DEF ContextEnds
<1>6. \A t \in Switch : rules'[t] \subseteq rules[t]
  BY <1>1, <1>3, <1>4
<1>7. ASSUME NEW t \in Switch, NEW r \in rules'[t], ~r.old, r.cookie = context[c]
      PROVE  context[c] \in abandoned'
  <2>1. t = s
    BY <1>6, <1>7 DEF RuleHome
  <2> QED  BY <1>1, <1>3, <1>4, <1>5, <1>7, <2>1
<1>8. LiveCookies \ {context[c]} \subseteq LiveCookies'
  <2>1. ASSUME NEW d \in Registered, context[d] # NULL, context[d] # context[c]
        PROVE  context[d] \in LiveCookies'
    <3>1. d \in Card
      BY TableAssumption DEF Registered, Occupied, BackEndInv, TableInv
    <3>2. d \in Registered' /\ context'[d] = context[d]
      BY <1>5, <2>1, <3>1 DEF BackEndInv, TypeOK
    <3> QED  BY <2>1, <3>2 DEF LiveCookies
  <2> QED  BY <2>1 DEF LiveCookies
<1>9. NoOrphanRules'
  BY <1>5, <1>6, <1>7, <1>8 DEF NoOrphanRules
<1>10. RuleHome'
  <2>1. ASSUME NEW d \in Card, NEW t \in Switch, NEW r \in rules'[t], ~r.old,
               r.cookie = context'[d]
        PROVE  t = SwitchOf[vmpath[d]]
    <3>1. r \in rules[t] /\ r.cookie # NULL
      BY <1>6, CookieNotNull DEF BackEndInv
    <3>2. context'[d] = context[d]
      BY <1>5, <2>1, <3>1 DEF BackEndInv, TypeOK
    <3> QED  BY <2>1, <3>1, <3>2 DEF RuleHome
  <2> QED  BY <2>1 DEF RuleHome
<1> QED  BY <1>9, <1>10

LEMMA DisconnectOwner ==
    ASSUME BackEndInv, OwnerInv, NEW f \in Fd, NEW c \in Card, Disconnect(f, c)
    PROVE  OwnerInv'
<1>1. CASE context[c] = NULL
  BY <1>1, DieOwner DEF Disconnect, BackEndInv, TypeOK, Fault
<1>2. CASE context[c] # NULL
  <2>1. PICK flush \in FlushLeaves(c) :
           \/ /\ ContextEnds(c, flush)
              /\ Replied(f, flush.tables, FALSE)
              /\ UNCHANGED context_host_id
           \/ \E why \in Fault : Die(why, flush.tables)
    BY <1>2 DEF Disconnect, Ends, Fault
  <2>2. CASE \E why \in Fault : Die(why, flush.tables)
    BY <1>2, <2>2, FlushLeavesType, DieOwner DEF BackEndInv
  <2>3. CASE ContextEnds(c, flush) /\ Replied(f, flush.tables, FALSE)
    <3>1. rules' = flush.tables /\ vmpath' = vmpath
      BY <2>3 DEF Replied, tableVars
    <3>2. \A d \in Card \ {c} : context'[d] = context[d]
      BY <2>3 DEF ContextEnds, BackEndInv, TypeOK
    <3>3. ChannelOwnership' /\ Registered' = Registered
      BY <2>3, <3>2, RepliedOwner DEF Disconnect, OwnerInv
    <3>4. NoOrphanRules' /\ RuleHome'
      BY <1>2, <2>3, <3>1, <3>3, EndedOwner DEF OwnerInv
    <3> QED  BY <3>3, <3>4 DEF OwnerInv
  <2> QED  BY <2>1, <2>2, <2>3
<1> QED  BY <1>1, <1>2

(* The event that fired is the card's own, and the card its path finds is the *)
(* one whose connection ended.                                                *)
LEMMA EofRemoves ==
    ASSUME BackEndInv, ChannelOwnership, NEW f \in Fd, NEW c \in Card,
           event[f] = c, Unreg(vmpath[c])
    PROVE  /\ c \in Registered /\ read_event[c] = f
           /\ Registered' = Registered \ {c}
           /\ vmpath' = vmpath
<1>1. c \in Registered /\ read_event[c] = f
  BY TableAssumption DEF ChannelOwnership
<1>2. Registered' = {d \in Registered : vmpath[d] # vmpath[c]} /\ vmpath' = vmpath
  BY UnregEffect DEF BackEndInv
<1> QED  BY <1>1, <1>2, UniqueCards DEF BackEndInv

LEMMA EofOwner ==
    ASSUME BackEndInv, OwnerInv, NEW f \in Fd, NEW c \in Card, Eof(f, c)
    PROVE  OwnerInv'
<1>1. CASE read_event[c] = NULL \/ context[c] = NULL
  BY <1>1, DieOwner DEF Eof, BackEndInv, TypeOK, Fault
<1>2. CASE context[c] # NULL /\ \E flush \in FlushLeaves(c) : Die("remote_exec", flush.tables)
  <2>1. PICK flush \in FlushLeaves(c) : Die("remote_exec", flush.tables)
    BY <1>2
  <2> QED  BY <1>2, <2>1, FlushLeavesType, DieOwner DEF BackEndInv, Fault
<1>3. CASE /\ context[c] # NULL
           /\ event[f] = c
           /\ sock' = [sock EXCEPT ![f] = "free"]
           /\ event' = [event EXCEPT ![read_event[c]] = NULL]
           /\ read_event' = [read_event EXCEPT ![c] = NULL]
           /\ \E flush \in FlushLeaves(c) : ContextEnds(c, flush) /\ rules' = flush.tables
           /\ Unreg(vmpath[c])
           /\ peer' = peer
  <2>2. PICK flush \in FlushLeaves(c) : ContextEnds(c, flush) /\ rules' = flush.tables
    BY <1>3
  <2>3. /\ c \in Registered /\ read_event[c] = f
        /\ Registered' = Registered \ {c}
        /\ vmpath' = vmpath
    BY <1>3, EofRemoves DEF OwnerInv
  <2>4. NoOrphanRules' /\ RuleHome'
    BY <1>3, <2>2, <2>3, EndedOwner DEF OwnerInv
  <2>5. event' = [event EXCEPT ![f] = NULL] /\ context' = [context EXCEPT ![c] = NULL]
    BY <1>3, <2>2, <2>3 DEF ContextEnds
  <2>6. ASSUME NEW g \in Fd, event'[g] # NULL
        PROVE  /\ event'[g] \in Registered'
               /\ read_event'[event'[g]] = g
               /\ peer'[g] = vmpath'[event'[g]]
    <3>1. g # f /\ event'[g] = event[g]
      BY <2>5, <2>6 DEF BackEndInv, TypeOK
    <3>2. event[g] \in Registered /\ read_event[event[g]] = g /\ peer[g] = vmpath[event[g]]
      BY <2>6, <3>1 DEF OwnerInv, ChannelOwnership
    <3>3. event[g] # c /\ event[g] \in Card
      BY <2>3, <2>6, <3>1, <3>2 DEF BackEndInv, TypeOK
    <3> QED  BY <1>3, <2>3, <3>1, <3>2, <3>3 DEF BackEndInv, TypeOK
  <2>7. \A g \in Fd : event'[g] # NULL <=> sock'[g] \in {"open", "eof"}
    BY <1>3, <2>5 DEF OwnerInv, ChannelOwnership, BackEndInv, TypeOK
  <2>8. \A d \in Card : read_event'[d] # NULL => event'[read_event'[d]] = d
    BY <1>3, <2>3, <2>5 DEF OwnerInv, ChannelOwnership, BackEndInv, TypeOK
  <2>9. \A d \in Card : context'[d] # NULL => d \in Registered' /\ read_event'[d] # NULL
    BY <1>3, <2>3, <2>5 DEF OwnerInv, ChannelOwnership, BackEndInv, TypeOK
  <2>10. ChannelOwnership'
    BY <2>6, <2>7, <2>8, <2>9 DEF ChannelOwnership
  <2> QED  BY <2>4, <2>10 DEF OwnerInv
<1> QED  BY <1>1, <1>2, <1>3 DEF Eof, Closed

(* The steps that touch neither a card nor a rule; a descriptor may go from   *)
(* open to end of stream.                                                     *)
LEMMA QuietOwner ==
    ASSUME OwnerInv, UNCHANGED <<tableVars, cardVars, peer, event, rules, abandoned>>,
           \A g \in Fd : sock'[g] \in {"open", "eof"} <=> sock[g] \in {"open", "eof"}
    PROVE  OwnerInv'
<1>1. Registered' = Registered
  BY DEF tableVars, Registered, Occupied
<1>2. LiveCookies' = LiveCookies
  BY <1>1 DEF cardVars, LiveCookies
<1> QED  BY <1>1, <1>2 DEF OwnerInv, ChannelOwnership, NoOrphanRules, RuleHome,
             tableVars, cardVars

LEMMA StepOwnerInv ==
    ASSUME Unregisters = {}
    PROVE  BackEndInv /\ OwnerInv /\ [Next]_vars => OwnerInv'
<1> SUFFICES ASSUME BackEndInv, OwnerInv, [Next]_vars PROVE OwnerInv'
  OBVIOUS
<1>1. ASSUME NEW p \in Path, RegisterCmd(p) PROVE OwnerInv'
  BY <1>1, RegisterCmdOwner
<1>2. ASSUME NEW f \in Fd, NEW c \in Card, Handler(f, c) PROVE OwnerInv'
  <2>1. CASE UseAfterFree(f, c)
    BY <2>1, DieOwner DEF UseAfterFree, BackEndInv, TypeOK, Fault
  <2> QED  BY <1>2, <2>1, HelloOwner, AddFlowsOwner, DisconnectOwner, EofOwner DEF Handler
<1>3. ASSUME NEW f \in Fd, ReadError(f) PROVE OwnerInv'
  BY <1>3, DieOwner DEF ReadError, BackEndInv, TypeOK, Fault
<1>4. ASSUME NEW f \in Fd, VmCloses(f) PROVE OwnerInv'
  BY <1>4, QuietOwner DEF VmCloses, worldVars, BackEndInv, TypeOK
<1>5. ASSUME NEW p \in Path, GuestLoses(p) PROVE OwnerInv'
  BY <1>5, QuietOwner DEF GuestLoses, channelVars
<1>6. CASE Killed
  BY <1>6, DieOwner DEF Killed, BackEndInv, TypeOK, Fault
<1>7. CASE Restart
  BY <1>7, QuietOwner DEF Restart, channelVars
<1>8. CASE UNCHANGED vars
  BY <1>8, QuietOwner DEF vars, channelVars, worldVars
<1> QED  BY <1>1, <1>2, <1>3, <1>4, <1>5, <1>6, <1>7, <1>8 DEF Next

LEMMA OwnerInvariant ==
    ASSUME Unregisters = {}
    PROVE  Spec => [](BackEndInv /\ OwnerInv)
<1>1. BackEndInv /\ OwnerInv /\ [Next]_vars => OwnerInv'
  BY StepOwnerInv
<1> QED  BY <1>1, BackEndInvariant, InitOwnerInv, PTL DEF Spec

(* Without the unregister command a callback only ever runs on a registered   *)
(* card, the one whose descriptor and path it belongs to.                     *)
THEOREM Ownership ==
    ASSUME Unregisters = {}
    PROVE  Spec => []ChannelOwnership
<1>1. OwnerInv => ChannelOwnership
  BY DEF OwnerInv
<1> QED  BY <1>1, OwnerInvariant, PTL

(* Without the unregister command a rule of this life of the daemon without a *)
(* live owner is one whose session ended without a working flush.             *)
THEOREM RulesOwned ==
    ASSUME Unregisters = {}
    PROVE  Spec => []NoOrphanRules
<1>1. OwnerInv => NoOrphanRules
  BY DEF OwnerInv
<1> QED  BY <1>1, OwnerInvariant, PTL

-----------------------------------------------------------------------------
(* One guest cannot take a rule from another. *)

(* The death of the daemon leaves the rules it had sent, marked as old.       *)
LEMMA DieKeepsRules ==
    ASSUME NEW why, NEW w \in [Switch -> SUBSET Rule], Die(why, w),
           NEW s \in Switch, NEW r \in w[s]
    PROVE  \E q \in rules'[s] : q.match = r.match /\ q.cookie = r.cookie
<1>1. r \in Rule /\ rules'[s] = Aged(w[s])
  BY DEF Die
<1> DEFINE q == [r EXCEPT !.old = TRUE]
<1>2. q \in rules'[s]
  BY <1>1 DEF Aged
<1>3. q.match = r.match /\ q.cookie = r.cookie
  BY <1>1 DEF Rule
<1> QED  BY <1>2, <1>3

(* A step that changes only rules of c's cookie, and rules of the matches S,  *)
(* before the daemon possibly dies, keeps the others' rules.                  *)
LEMMA OthersKept ==
    ASSUME BackEndInv, OwnerInv, NEW f \in Fd, NEW c \in Card, event[f] = c, NEW S,
           NEW w \in [Switch -> SUBSET Rule],
           \A s \in Switch : \A r \in rules[s] :
              (r.cookie # context[c] /\ r.match \notin S) => r \in w[s],
           rules' = w \/ \E why \in Fault : Die(why, w)
    PROVE  OthersKeep(f, S)
<1> SUFFICES ASSUME NEW d \in Registered, NEW s \in Switch, vmpath[d] # peer[f],
                    NEW r \in rules[s], ~r.old, r.cookie = context[d], r.match \notin S
             PROVE  \E q \in rules'[s] : q.match = r.match /\ q.cookie = r.cookie
  BY DEF OthersKeep
<1>1. peer[f] = vmpath[c] /\ d \in Card
  BY TableAssumption DEF OwnerInv, ChannelOwnership, BackEndInv, TableInv, Registered, Occupied
<1>2. r.cookie # context[c]
  BY <1>1, CookieNotNull DEF BackEndInv, CookiesDistinct
<1>3. r \in w[s]
  BY <1>2
<1> QED  BY <1>3, DieKeepsRules

(* A flush reaches the rules of its own cookie only. *)
LEMMA FlushKeepsOthers ==
    ASSUME BackEndInv, NEW c \in Card, context[c] # NULL, NEW flush \in FlushLeaves(c)
    PROVE  \A s \in Switch : \A r \in rules[s] :
              r.cookie # context[c] => r \in flush.tables[s]
<1>1. SwitchOf[vmpath[c]] \in Switch /\ rules \in [Switch -> SUBSET Rule]
  BY DEF BackEndInv, TypeOK, CookiesIssued
<1>2. PICK o \in FlushOutcomes(rules[SwitchOf[vmpath[c]]], context[c]) :
             flush = [tables |-> [rules EXCEPT ![SwitchOf[vmpath[c]]] = o.table],
                      done |-> o.done]
  BY DEF FlushLeaves
<1>3. \A r \in rules[SwitchOf[vmpath[c]]] : r.cookie # context[c] => r \in o.table
  BY FlushPreserves
<1> QED  BY <1>1, <1>2, <1>3

LEMMA AddFlowsKeepsOthers ==
    ASSUME BackEndInv, OwnerInv, NEW f \in Fd, NEW c \in Card, NEW batch \in Batch,
           AddFlows(f, c, batch)
    PROVE  OthersKeep(f, Range(batch))
<1>0. event[f] = c /\ rules \in [Switch -> SUBSET Rule]
  BY DEF AddFlows, Serves, BackEndInv, TypeOK
<1>1. CASE context[c] = NULL
  BY <1>0, <1>1, OthersKept DEF AddFlows, Fault
<1>2. CASE context[c] # NULL
  <2> DEFINE s == SwitchOf[vmpath[c]]
  <2>1. s \in Switch /\ context[c] \in Nat /\ batch \in Seq(Match)
    BY <1>2, BackEndAssumption DEF BackEndInv, TypeOK, CookiesIssued
  <2>2. PICK out \in AddOutcomes(rules[s], context[c], batch, s) :
           LET w == [rules EXCEPT ![s] = out.table]
           IN  Replied(f, w, TRUE) \/ \E why \in Fault : Die(why, w)
    BY <1>2 DEF AddFlows, Ends, Fault
  <2> DEFINE w == [rules EXCEPT ![s] = out.table]
  <2>3. Preserves(rules[s], out.table, context[c], Range(batch))
    BY <2>1, AddPreserves
  <2>4. w \in [Switch -> SUBSET Rule]
    BY <1>0, <2>1, <2>3, PreservesType
  <2>5. \A t \in Switch : \A r \in rules[t] :
           (r.cookie # context[c] /\ r.match \notin Range(batch)) => r \in w[t]
    BY <1>0, <2>1, <2>3 DEF Preserves
  <2>6. rules' = w \/ \E why \in Fault : Die(why, w)
    BY <2>2 DEF Replied
  <2> HIDE DEF s, w
  <2> QED  BY <1>0, <2>4, <2>5, <2>6, OthersKept
<1> QED  BY <1>1, <1>2

LEMMA HandlersKeepOthers ==
    ASSUME BackEndInv, OwnerInv, NEW f \in Fd, NEW c \in Card,
           Hello(f, c) \/ Disconnect(f, c) \/ Eof(f, c)
    PROVE  OthersKeep(f, {})
<1>0. event[f] = c /\ rules \in [Switch -> SUBSET Rule]
  BY DEF Hello, Disconnect, Eof, Serves, BackEndInv, TypeOK
<1>1. CASE rules' = rules \/ \E why \in Fault : Die(why, rules)
  BY <1>0, <1>1, OthersKept
<1>2. CASE context[c] # NULL /\ \E flush \in FlushLeaves(c) :
             rules' = flush.tables \/ \E why \in Fault : Die(why, flush.tables)
  <2>1. PICK flush \in FlushLeaves(c) :
             rules' = flush.tables \/ \E why \in Fault : Die(why, flush.tables)
    BY <1>2
  <2>2. flush.tables \in [Switch -> SUBSET Rule]
    BY <1>2, FlushLeavesType
  <2>3. \A s \in Switch : \A r \in rules[s] :
            (r.cookie # context[c] /\ r.match \notin {}) => r \in flush.tables[s]
    BY <1>2, FlushKeepsOthers
  <2> QED  BY <1>0, <2>1, <2>2, <2>3, OthersKept
<1>3. CASE Hello(f, c)
  BY <1>1, <1>3 DEF Hello, Replied, Fault
<1>4. CASE Disconnect(f, c)
  BY <1>1, <1>2, <1>4 DEF Disconnect, Ends, Replied, Fault
<1>5. CASE Eof(f, c)
  BY <1>1, <1>2, <1>5 DEF Eof, Closed, Fault
<1> QED  BY <1>3, <1>4, <1>5

(* Without the unregister command nothing a guest sends, and nothing that     *)
(* happens to its connection, takes a rule from a card of another path, but   *)
(* for a match it asked for itself.                                           *)
THEOREM GuestsIsolated ==
    ASSUME Unregisters = {}
    PROVE  Spec => Isolation
<1> DEFINE Keeps == \A f \in Fd, c \in Card :
         /\ \A batch \in Batch : AddFlows(f, c, batch) => OthersKeep(f, Range(batch))
         /\ (Hello(f, c) \/ Disconnect(f, c) \/ Eof(f, c)) => OthersKeep(f, {})
<1>1. BackEndInv /\ OwnerInv => Keeps
  BY AddFlowsKeepsOthers, HandlersKeepOthers
<1>2. Spec => [][Keeps]_vars
  <2> HIDE DEF Keeps
  <2> QED  BY <1>1, OwnerInvariant, PTL DEF Spec
<1> QED  BY <1>2 DEF Isolation

-----------------------------------------------------------------------------
(* A card without a connection stays. *)

(* Only the end of its own connection takes a card out of the table, and a    *)
(* deaf card has none.                                                        *)
LEMMA DeafStays ==
    ASSUME Unregisters = {}, BackEndInv, OwnerInv, [Next]_vars,
           NEW p \in Path, Deaf(p)
    PROVE  Deaf(p)' \/ ~Up'
<1>1. PICK c \in Registered : vmpath[c] = p /\ read_event[c] = NULL
  BY DEF Deaf
<1>2. c \in Card
  BY TableAssumption DEF BackEndInv, TableInv, Registered, Occupied
<1>3. CASE UNCHANGED <<acc_cards, vmpath, read_event>>
  <2>1. Registered' = Registered
    BY <1>3 DEF Registered, Occupied
  <2> QED  BY <1>1, <1>3, <2>1 DEF Deaf
<1>4. CASE \E why \in Fault : Die(why, rules)
  BY <1>4 DEF Die, Fault, Up
<1>5. ASSUME NEW q \in Path, RegisterCmd(q) PROVE Deaf(p)'
  <2>1. PICK d \in Card, i \in Slots : Reg(q, d, i) /\ OpenChannel(q, d)
    BY <1>5 DEF RegisterCmd
  <2>2. c \in Registered' /\ vmpath'[c] = p /\ d \notin Registered
    BY <1>1, <2>1, RegEffect DEF BackEndInv, Reg
  <2>3. read_event'[c] = read_event[c]
    BY <1>1, <1>2, <2>1, <2>2 DEF OpenChannel, BackEndInv, TypeOK
  <2> QED  BY <1>1, <2>2, <2>3 DEF Deaf
<1>6. ASSUME NEW f \in Fd, NEW d \in Card, Eof(f, d) PROVE Deaf(p)' \/ ~Up'
  <2>1. CASE ~Up'
    BY <2>1
  <2>2. CASE event[f] = d /\ Unreg(vmpath[d]) /\ read_event' = [read_event EXCEPT ![d] = NULL]
             /\ read_event[d] # NULL
    <3>1. event[f] = d /\ Unreg(vmpath[d]) /\ read_event' = [read_event EXCEPT ![d] = NULL]
      BY <2>2
    <3>2. Registered' = Registered \ {d} /\ vmpath' = vmpath /\ c # d
      BY <1>1, <2>2, <3>1, EofRemoves DEF OwnerInv
    <3>3. read_event'[c] = NULL
      BY <1>1, <1>2, <3>1, <3>2 DEF BackEndInv, TypeOK
    <3> QED  BY <1>1, <3>2, <3>3 DEF Deaf
  <2> QED  BY <1>6, <2>1, <2>2 DEF Eof, Closed, Die, Up
<1>7. ASSUME NEW f \in Fd, NEW d \in Card,
             Hello(f, d) \/ Disconnect(f, d) \/ UseAfterFree(f, d)
             \/ \E batch \in Batch : AddFlows(f, d, batch)
      PROVE  Deaf(p)' \/ ~Up'
  <2>1. ASSUME NEW w, NEW b, Replied(f, w, b) PROVE Deaf(p)' \/ ~Up'
    BY <1>3, <2>1 DEF Replied, tableVars
  <2>2. ASSUME NEW why \in Fault, NEW w, Die(why, w) PROVE ~Up'
    BY <2>2 DEF Die, Fault, Up
  <2>3. CASE Hello(f, d)
    BY <2>1, <2>2, <2>3 DEF Hello, Fault
  <2>4. CASE Disconnect(f, d)
    BY <2>1, <2>2, <2>4 DEF Disconnect, Ends, Fault
  <2>5. CASE UseAfterFree(f, d)
    BY <2>2, <2>5 DEF UseAfterFree, Fault
  <2>6. CASE \E batch \in Batch : AddFlows(f, d, batch)
    <3>1. PICK batch \in Batch : AddFlows(f, d, batch)
      BY <2>6
    <3>2. CASE context[d] = NULL
      BY <2>2, <3>1, <3>2 DEF AddFlows, Fault
    <3>3. CASE context[d] # NULL
      BY <2>1, <2>2, <3>1, <3>3 DEF AddFlows, Ends, Fault
    <3> QED  BY <3>2, <3>3
  <2> QED  BY <1>7, <2>3, <2>4, <2>5, <2>6
<1>8. ASSUME NEW f \in Fd, NEW d \in Card, Handler(f, d) PROVE Deaf(p)' \/ ~Up'
  BY <1>6, <1>7, <1>8 DEF Handler
<1>9. ASSUME NEW f \in Fd, ReadError(f) \/ VmCloses(f) PROVE Deaf(p)' \/ ~Up'
  BY <1>3, <1>4, <1>9 DEF ReadError, VmCloses, Fault, tableVars, cardVars
<1>10. ASSUME NEW q \in Path, GuestLoses(q) PROVE Deaf(p)' \/ ~Up'
  BY <1>3, <1>10 DEF GuestLoses, tableVars, cardVars
<1>11. CASE Killed
  BY <1>4, <1>11 DEF Killed, Fault
<1>12. CASE Restart \/ UNCHANGED vars
  BY <1>3, <1>12 DEF Restart, vars, tableVars, cardVars
<1> QED  BY <1>5, <1>8, <1>9, <1>10, <1>11, <1>12 DEF Next

(* Without the unregister command a card whose connection failed holds its    *)
(* path for as long as the daemon lives.                                      *)
THEOREM DeafCardsStay ==
    ASSUME Unregisters = {}
    PROVE  Spec => DeafForever
<1> DEFINE Stays == \A p \in Path : Deaf(p) => (Deaf(p)' \/ ~Up')
<1>1. BackEndInv /\ OwnerInv /\ [Next]_vars => Stays
  BY DeafStays
<1>2. Spec => [][Stays]_vars
  <2> HIDE DEF Stays
  <2> QED  BY <1>1, OwnerInvariant, PTL DEF Spec
<1> QED  BY <1>2 DEF DeafForever
=============================================================================
