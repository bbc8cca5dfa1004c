------------------------------ MODULE Offload ------------------------------
(****************************************************************************)
(* From a guest's message to the switch, one handler taken apart.  The       *)
(* constructors fill three registries before main (vendor plugins, rule      *)
(* backends, message handlers); HELLO looks a plugin and a backend up and    *)
(* keeps them in a context; ADD_FLOWS and the end of a session call through  *)
(* them (OvsCommands).  BackEnd has the channels and the cards' lives; here  *)
(* every card of the table keeps its connection.                             *)
(****************************************************************************)
EXTENDS OvsCommands

CONSTANTS
    Card,       \* cards in the table
    KindOf,     \* vendor, model and acc_type of each card
    Batch,      \* the sequences of flows a guest sends in one message
    MaxHello    \* bound: contexts created

(* be_la_vendor.h, as the sets of bits of the enum's values.                  *)
FLOW == {1}
CRYPTO == {2}
DECRYPTO == {4}
COMPRESS == {8}
UNCOMPRESS == {2, 4, 16}

(* The plugins of the build; context_init gives a remote switch to LiquidIO.  *)
netronome == [slot |-> <<"netronome", "agilio">>, acc_type |-> FLOW \cup COMPRESS,
              switch |-> "local"]
liquidio == [slot |-> <<"cavium", "liquidio_2">>, acc_type |-> FLOW, switch |-> "remote"]
qat == [slot |-> <<"intel", "dh8950">>,
        acc_type |-> CRYPTO \cup DECRYPTO \cup COMPRESS \cup UNCOMPRESS, switch |-> "local"]

Plugin == {netronome, liquidio, qat}

(* The constructors (module_init) and their priorities. *)
Level == [rule_be |-> 1, messages |-> 2, netronome |-> 10, liquidio |-> 10, qat |-> 10]

Constructor == DOMAIN Level

ASSUME OffloadAssumption ==
    /\ IsFiniteSet(Card)
    /\ \A c \in Card : KindOf[c].acc_type # {}
    /\ Batch \subseteq Seq(Request)
    /\ MaxHello \in Nat
    /\ [switch : Switch, cookie : 0 .. MaxHello - 1] \subseteq Context

VARIABLES
    pending,        \* constructors that have not run
    g_acc_plugins,  \* the plugins that are registered
    s_acc_rule_be,  \* the rule backends that are registered
    s_msg_handle,   \* the message types that have a handler
    session,        \* card->context, or NULL
    context_host_id,
    remotes,        \* struct ssh_remote_execute allocated
    forgotten       \* history: contexts freed without their plugin

registryVars == <<pending, g_acc_plugins, s_acc_rule_be, s_msg_handle>>
sessionVars == <<session, context_host_id, remotes, forgotten>>
vars == <<editVars, registryVars, sessionVars>>

Init ==
    /\ EditInit
    /\ daemon = "starting"
    /\ pending = Constructor
    /\ g_acc_plugins = {} /\ s_acc_rule_be = {} /\ s_msg_handle = {}
    /\ session = [c \in Card |-> NULL]
    /\ context_host_id = 0
    /\ remotes = 0 /\ forgotten = 0

-----------------------------------------------------------------------------

(* be_plugin_register: a slot that is taken ends the process (module_init).   *)
Registers(plugin) ==
    /\ IF \E q \in g_acc_plugins : q.slot = plugin.slot
       THEN daemon' = "constructor" /\ UNCHANGED g_acc_plugins
       ELSE g_acc_plugins' = g_acc_plugins \cup {plugin} /\ UNCHANGED daemon
    /\ UNCHANGED <<s_acc_rule_be, s_msg_handle>>

(* One constructor: those of a lower priority have run. *)
Construct(m) ==
    /\ daemon = "starting"
    /\ m \in pending /\ \A n \in pending : Level[m] <= Level[n]
    /\ pending' = pending \ {m}
    /\ CASE m = "rule_be" -> /\ s_acc_rule_be' = s_acc_rule_be \cup {"ovs-rule"}
                             /\ UNCHANGED <<daemon, g_acc_plugins, s_msg_handle>>
         [] m = "messages" -> /\ s_msg_handle' = {"HELLO", "ADD_FLOWS", "DISCONNECT"}
                              /\ UNCHANGED <<daemon, g_acc_plugins, s_acc_rule_be>>
         [] m = "netronome" -> Registers(netronome)
         [] m = "liquidio" -> Registers(liquidio)
         [] m = "qat" -> Registers(qat)
    /\ UNCHANGED <<jobVars, stage, heapVars, switchVars, answer, sessionVars>>

Main ==
    /\ daemon = "starting" /\ pending = {}
    /\ daemon' = "up"
    /\ UNCHANGED <<jobVars, stage, heapVars, switchVars, answer, registryVars, sessionVars>>

-----------------------------------------------------------------------------

(* The slot of a card nobody registered for: its pointers are NULL. *)
Empty == [acc_type |-> {}, switch |-> NULL]

SlotOf(c) ==
    IF \E q \in g_acc_plugins : q.slot = KindOf[c].slot
    THEN CHOOSE q \in g_acc_plugins : q.slot = KindOf[c].slot
    ELSE Empty

(* Mutant: the operands of the test are swapped. *)
MatchesReversed(c) == SlotOf(c).acc_type \subseteq KindOf[c].acc_type

(* be_plugin_match: the slot's plugin does all the card is registered for.    *)
Matches(c) == KindOf[c].acc_type \subseteq SlotOf(c).acc_type

Remote(x) == IF x = NULL THEN 0 ELSE IF x.switch = "remote" THEN 1 ELSE 0

(* The process calls a function pointer that is NULL. *)
NullCall == Die("null_call") /\ UNCHANGED <<switchVars, registryVars, sessionVars>>

(* context_destroy of the old context: LiquidIO's frees its ssh_remote too.   *)
Replaced(c) == remotes - Remote(session[c])

(* hello_message_handle *)
Hello(c) ==
    /\ Idle
    /\ IF "HELLO" \notin s_msg_handle \/ (Matches(c) /\ SlotOf(c) = Empty)
       THEN NullCall
       ELSE /\ \/ /\ Matches(c)
                  /\ context_host_id < MaxHello
                  /\ context_host_id' = context_host_id + 1
                  /\ LET x == [switch |-> SlotOf(c).switch, cookie |-> context_host_id]
                     IN  /\ session' = [session EXCEPT ![c] = x]
                         /\ remotes' = Replaced(c) + Remote(x)
               \/ /\ Matches(c)
                  /\ session' = [session EXCEPT ![c] = NULL]
                  /\ remotes' = Replaced(c)
                  /\ UNCHANGED context_host_id
               \/ /\ ~Matches(c)
                  /\ UNCHANGED <<session, remotes, context_host_id>>
            /\ UNCHANGED <<editVars, registryVars, forgotten>>

(* The handler of a message type and the backend of its context exist. *)
Reaches(type) == type \in s_msg_handle /\ "ovs-rule" \in s_acc_rule_be

(* add_flows_message_handle; without a session BackEnd shows what it does.    *)
AddFlows(c, batch) ==
    /\ Idle
    /\ session[c] # NULL
    /\ IF ~Reaches("ADD_FLOWS") THEN NullCall
       ELSE AddRules(session[c], batch) /\ UNCHANGED <<registryVars, sessionVars>>

(* be_acc_flush_rules, for DISCONNECT or the end of the connection: the       *)
(* context is freed by itself, not by its plugin.  It goes when the flush is  *)
(* over; nothing looks at the card before.                                    *)
Bye(c) ==
    /\ Idle
    /\ session[c] # NULL
    /\ IF ~Reaches("DISCONNECT") THEN NullCall
       ELSE /\ FlushRules(session[c])
            /\ session' = [session EXCEPT ![c] = NULL]
            /\ forgotten' = forgotten + Remote(session[c])
            /\ UNCHANGED <<registryVars, context_host_id, remotes>>

(* The process works on what it was asked, or ends. *)
Works ==
    /\ EditNext
    /\ IF daemon' \in {"starting", "up"} THEN UNCHANGED <<registryVars, sessionVars>>
       ELSE /\ session' = [c \in Card |-> NULL]
            /\ remotes' = 0 /\ forgotten' = 0
            /\ UNCHANGED <<registryVars, context_host_id>>

Next ==
    \/ \E m \in Constructor : Construct(m)
    \/ Main
    \/ \E c \in Card : Hello(c) \/ Bye(c) \/ \E batch \in Batch : AddFlows(c, batch)
    \/ Works

Spec == Init /\ [][Next]_vars

(* The one thread of the daemon goes on whenever it is not waiting for a      *)
(* command; nothing says that a command ever answers.                         *)
FairSpec == Spec /\ WF_vars(EditStep /\ Works)

-----------------------------------------------------------------------------

TypeOK ==
    /\ EditTypeOK
    /\ daemon \in {"starting", "up", "killed", "remote_exec", "constructor", "null_call"}
    /\ pending \subseteq Constructor
    /\ g_acc_plugins \subseteq Plugin
    /\ s_acc_rule_be \subseteq {"ovs-rule"}
    /\ s_msg_handle \subseteq {"HELLO", "ADD_FLOWS", "DISCONNECT"}
    /\ session \in [Card -> Context \cup {NULL}]
    /\ context_host_id \in 0 .. MaxHello
    /\ remotes \in Nat /\ forgotten \in Nat

(* No constructor fails and no call goes through an entry of a registry that  *)
(* nobody filled: what HELLO finds in an empty slot never matches, whatever   *)
(* plugins are built in.                                                      *)
NoNullCalls == daemon \notin {"constructor", "null_call"}

(* What the daemon has allocated, to the piece: the ssh session of the        *)
(* command that runs, the rules of the batch that runs and of every batch     *)
(* that ever succeeded (acc_ovs_rule.c:279 returns without freeing them), and *)
(* the ssh_remote of every remote context that is alive or ended by BYE or    *)
(* with its connection (be_acc_msg.c:130 frees the context only).             *)
NothingElseHeld ==
    /\ sessions = IF stage \in SshStage THEN 1 ELSE 0
    /\ arrays = IF op = "add" THEN kept + 1 ELSE kept
    /\ remotes = forgotten + Cardinality({c \in Card : Remote(session[c]) = 1})

(* Every rule a switch holds, and every rule about to be sent, is the rule of *)
(* a flow some guest asked for: each field shows its own value although all   *)
(* fields of a line are printed into static buffers before one is read.       *)
RulesMatchFlows ==
    LET Asked == {[match |-> MatchOf(flow), action |-> ActionOf(flow)] : flow \in Request}
        Shows(r) == [match |-> r.match, action |-> r.action] \in Asked
    IN  /\ \A n \in DOMAIN rules : Shows(rules[n])
        /\ \A s \in Switch : \A r \in table[s] : Shows(r)

(* Command by command, with every way one can fail and the process end, a     *)
(* batch and a flush do to a switch what SwitchRules says they do in one step *)
(* (which is what BackEnd builds on), until a command reaches the switch      *)
(* after the daemon has gone on.                                              *)
NotATable == {[unknown |-> TRUE]}

Seen(s) == IF op # "none" /\ state.switch = s THEN before ELSE table[s]

AsTable(t) == {[match |-> r.match, cookie |-> r.cookie, old |-> FALSE] : r \in t}

AsRules == [s \in Switch |-> IF s \in muddy THEN NotATable ELSE AsTable(Seen(s))]

AsBatch(b) == [n \in DOMAIN b |-> MatchOf(b[n])]

Batches == INSTANCE RuleBatch WITH
    Match <- {MatchOf(flow) : flow \in Request},
    Unsupported <- {MatchOf(flow) : flow \in {f \in Request : ~Supported(f)}},
    Batch <- {AsBatch(b) : b \in Batch},
    Unknown <- NotATable,
    rules <- AsRules

BatchSpec == Batches!Spec

(* If every command the daemon waits for ends one day, so does every batch    *)
(* and every flush: no failure makes it start over, and none is waited for    *)
(* that has no time limit but the command's own.                              *)
Waiting == stage \in {"waiting", "reading"}

EditReturns == (Waiting ~> ~Waiting) => (op # "none" ~> op = "none")
=============================================================================
