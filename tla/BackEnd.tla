------------------------------ MODULE BackEnd ------------------------------
(****************************************************************************)
(* The backend daemon be_la: the card table, one connection per card to its  *)
(* virtual machine, the message handlers that run on it, and the rules they  *)
(* put in a switch.  One libevent loop runs every handler to completion, so  *)
(* a handler is one action; guests, virtual machines, the operator's         *)
(* commands and the death of the process interleave with them.               *)
(*                                                                          *)
(* The daemon identifies a card by its address and a connection by its file  *)
(* descriptor, and both are reused: a freed block keeps its fields until a   *)
(* registration zeroes it, and an event keeps the address it was given.      *)
(****************************************************************************)
EXTENDS CardTable, SwitchRules

CONSTANTS
    Fd,             \* file descriptors the daemon can use for channels
    SwitchOf,       \* the switch the plugin of a path's card programs, or NULL
    Batch,          \* the sequences of flows a guest sends in one message
    MaxHostId,      \* bound: contexts created in one life of the daemon
    Unregisters     \* the paths the operator's accsh -R may name

ASSUME BackEndAssumption ==
    /\ NULL \notin Fd
    /\ NULL \notin Switch
    /\ NULL \notin Nat
    /\ SwitchOf \in [Path -> Switch \cup {NULL}]
    /\ Batch \subseteq Seq(Match)
    /\ MaxHostId \in Nat
    /\ Unregisters \subseteq Path

VARIABLES
    daemon,          \* "up", or what ended the process
    plugin,          \* card->plugin, named by the switch it programs
    context,         \* card->context: the cookie (hostid) of it, or NULL
    read_event,      \* card->read_event, named by the fd it watches, or NULL
    sock,            \* what each fd is: free, open, eof (peer gone), leaked
    peer,            \* the path an fd is connected to
    event,           \* libevent: the card an fd's read callback gets, or NULL
    context_host_id, \* the next cookie, counted from 0xDEAD0000
    rules,           \* the flow table of each switch
    handle,          \* whether the guest's client believes it is connected
    abandoned        \* cookies whose context ended without a working flush

cardVars == <<plugin, context, read_event>>
channelVars == <<sock, peer, event>>
worldVars == <<daemon, context_host_id, rules, handle, abandoned>>
vars == <<tableVars, cardVars, channelVars, worldVars>>

Fault == {"killed", "sigpipe", "read_error", "use_after_free",
          "add_without_context", "flush_without_context", "remote_exec",
          "event_free_null", "unreg_garbage"}

Up == daemon = "up"

LiveCookies == {context[c] : c \in Registered} \ {NULL}

TypeOK ==
    /\ TableTypeOK
    /\ daemon \in {"up"} \cup Fault
    /\ plugin \in [Card -> Switch \cup {NULL}]
    /\ context \in [Card -> Nat \cup {NULL}]
    /\ read_event \in [Card -> Fd \cup {NULL}]
    /\ sock \in [Fd -> {"free", "open", "eof", "leaked"}]
    /\ peer \in [Fd -> Path \cup {NULL}]
    /\ event \in [Fd -> Card \cup {NULL}]
    /\ context_host_id \in 0 .. MaxHostId
    /\ rules \in [Switch -> SUBSET Rule]
    /\ handle \in [Path -> BOOLEAN]
    /\ abandoned \subseteq Nat

-----------------------------------------------------------------------------

Init ==
    /\ TableInit
    /\ daemon = "up"
    /\ plugin = [c \in Card |-> NULL]
    /\ context = [c \in Card |-> NULL]
    /\ read_event = [c \in Card |-> NULL]
    /\ sock = [f \in Fd |-> "free"]
    /\ peer = [f \in Fd |-> NULL]
    /\ event = [f \in Fd |-> NULL]
    /\ context_host_id = 0
    /\ abandoned = {}
    /\ rules = [w \in Switch |-> {}]
    /\ handle = [p \in Path |-> FALSE]

(* The process ends: its memory and descriptors go; what it had put in the    *)
(* switches (w) stays there, and no guest is told.                            *)
Die(why, w) ==
    /\ daemon' = why
    /\ acc_cards' = [i \in Slots |-> NULL]
    /\ reg_num' = 0
    /\ vmpath' = [c \in Card |-> NULL]
    /\ plugin' = [c \in Card |-> NULL]
    /\ context' = [c \in Card |-> NULL]
    /\ read_event' = [c \in Card |-> NULL]
    /\ sock' = [f \in Fd |-> "free"]
    /\ peer' = [f \in Fd |-> NULL]
    /\ event' = [f \in Fd |-> NULL]
    /\ context_host_id' = 0
    /\ abandoned' = {}
    /\ rules' = [s \in Switch |-> Aged(w[s])]
    /\ UNCHANGED handle

Killed == Up /\ Die("killed", rules)

(* A new be_la: the constructors, main, an empty table, hostid restarted.     *)
Restart ==
    /\ ~Up
    /\ daemon' = "up"
    /\ UNCHANGED <<tableVars, cardVars, channelVars, context_host_id, rules, handle, abandoned>>

-----------------------------------------------------------------------------

(* vm_channel_open for the card c just registered under p.  The card stays    *)
(* in the table whatever happens here; connect() failing also loses the fd.   *)
(* BOUND: an fd number libevent still holds an event for is not handed out.   *)
OpenChannel(p, c) ==
    \/ \E f \in Fd :
          /\ sock[f] = "free" /\ event[f] = NULL
          /\ sock' = [sock EXCEPT ![f] = "open"]
          /\ peer' = [peer EXCEPT ![f] = p]
          /\ event' = [event EXCEPT ![f] = c]
          /\ read_event' = [read_event EXCEPT ![c] = f]
    \/ /\ \/ UNCHANGED sock
          \/ \E f \in Fd : sock[f] = "free" /\ sock' = [sock EXCEPT ![f] = "leaked"]
       /\ read_event' = [read_event EXCEPT ![c] = NULL]
       /\ UNCHANGED <<peer, event>>

(* be_la_cmd_process, CMD_TYPE_REGISTER; calloc zeroes the block. *)
RegisterCmd(p) ==
    /\ Up
    /\ \E c \in Card, i \in Slots : Reg(p, c, i) /\ OpenChannel(p, c)
                                    /\ plugin' = [plugin EXCEPT ![c] = NULL]
                                    /\ context' = [context EXCEPT ![c] = NULL]
    /\ UNCHANGED worldVars

(* be_la_cmd_process, CMD_TYPE_UNREGISTER: the asserts of be_acc_card_unreg   *)
(* read past the command into the uninitialised rest of the receive buffer,   *)
(* so they pass or abort; the card that is freed is looked up by path.        *)
UnregisterCmd(p) ==
    /\ Up
    /\ \/ /\ Unreg(p)
          /\ UNCHANGED <<cardVars, channelVars, worldVars>>
       \/ Die("unreg_garbage", rules)

-----------------------------------------------------------------------------

(* The daemon reads a whole message on fd f; c is the callback's argument.    *)
Serves(f, c) == Up /\ sock[f] = "open" /\ event[f] = c

(* The reply reaches the guest, or its virtual machine is gone by now and     *)
(* writev raises SIGPIPE, which nothing in the daemon handles.                *)
Replied(f, w, believes) ==
    /\ daemon' = daemon
    /\ rules' = w
    /\ handle' = [handle EXCEPT ![peer[f]] = believes]
    /\ UNCHANGED <<tableVars, channelVars, read_event>>

(* Mutant: every context gets the same cookie. *)
NextHostIdStuck == context_host_id

(* context_host_id++ *)
NextHostId == context_host_id + 1

(* be_plugin_match: the vendor's plugin accelerates everything the card does. *)
Matches(p) == SwitchOf[p] # NULL

(* hello_message_handle.  A context that is already there is destroyed and    *)
(* its rules stay in the switch.                                              *)
Hello(f, c) ==
    /\ Serves(f, c)
    /\ ~handle[peer[f]]
    /\ LET p == vmpath[c]
           accepted == plugin' = [plugin EXCEPT ![c] = SwitchOf[p]]
                       /\ context' = [context EXCEPT ![c] = context_host_id]
                       /\ context_host_id' = NextHostId
           failed == plugin' = [plugin EXCEPT ![c] = NULL]
                     /\ context' = [context EXCEPT ![c] = NULL]
                     /\ UNCHANGED context_host_id
       IN  \/ /\ ~Matches(p)
              /\ plugin' = [plugin EXCEPT ![c] = NULL]
              /\ Replied(f, rules, FALSE)
              /\ UNCHANGED <<context, context_host_id, abandoned>>
           \/ /\ Matches(p)
              /\ \/ context_host_id < MaxHostId /\ accepted /\ Replied(f, rules, TRUE)
                 \/ failed /\ Replied(f, rules, FALSE)
              /\ abandoned' = abandoned \cup ({context[c]} \ {NULL})
           \/ Die("sigpipe", rules)

(* What can end the process while it serves a guest whose rules are in switch *)
(* s.  The log line before a remote command passes the port where its format  *)
(* has %s, and a failed ssh_channel_read counts as 2^32 - 1 bytes: undefined, *)
(* here the process dies or goes on.                                          *)
Ends(s) == {"sigpipe"} \cup (IF s = "remote" THEN {"remote_exec"} ELSE {})

(* add_flows_message_handle; the cookie is all that ties a rule to its guest. *)
AddFlows(f, c, batch) ==
    /\ Serves(f, c)
    /\ handle[peer[f]]
    /\ IF context[c] = NULL
       THEN Die("add_without_context", rules)
       ELSE LET s == SwitchOf[vmpath[c]]
            IN  \E out \in AddOutcomes(rules[s], context[c], batch, s) :
                LET w == [rules EXCEPT ![s] = out.table]
                IN  \/ /\ Replied(f, w, TRUE)
                       /\ UNCHANGED <<plugin, context, context_host_id, abandoned>>
                    \/ \E why \in Ends(s) : Die(why, w)

(* be_acc_flush_rules, in two parts: what its flush may leave in the switches *)
(* and what becomes of the card, which never depends on how the flush ended.  *)
FlushLeaves(c) ==
    LET s == SwitchOf[vmpath[c]]
    IN  {[tables |-> [rules EXCEPT ![s] = o.table], done |-> o.done] :
            o \in FlushOutcomes(rules[s], context[c])}

(* Mutant: card->plugin keeps its value. *)
ContextEndsOnly(c, flush) ==
    /\ context' = [context EXCEPT ![c] = NULL]
    /\ abandoned' = IF flush.done THEN abandoned ELSE abandoned \cup {context[c]}
    /\ UNCHANGED plugin

ContextEnds(c, flush) ==
    /\ plugin' = [plugin EXCEPT ![c] = NULL]
    /\ context' = [context EXCEPT ![c] = NULL]
    /\ abandoned' = IF flush.done THEN abandoned ELSE abandoned \cup {context[c]}

(* disconnect_message_handle: the context goes, the channel and card stay.    *)
Disconnect(f, c) ==
    /\ Serves(f, c)
    /\ handle[peer[f]]
    /\ IF context[c] = NULL
       THEN Die("flush_without_context", rules)
       ELSE \E flush \in FlushLeaves(c) :
            \/ /\ ContextEnds(c, flush)
               /\ Replied(f, flush.tables, FALSE)
               /\ UNCHANGED context_host_id
            \/ \E why \in Ends(SwitchOf[vmpath[c]]) : Die(why, flush.tables)

(* The end of a connection: close the fd, free the event the card names (not  *)
(* the one that fired), flush, take the card out of the table by its path.    *)
Closed(f, c) ==
    \/ /\ sock' = [sock EXCEPT ![f] = "free"]
       /\ event' = [event EXCEPT ![read_event[c]] = NULL]
       /\ read_event' = [read_event EXCEPT ![c] = NULL]
       /\ \E flush \in FlushLeaves(c) :
             ContextEnds(c, flush) /\ rules' = flush.tables
       /\ Unreg(vmpath[c])
       /\ UNCHANGED <<peer, daemon, context_host_id, handle>>
    \/ /\ SwitchOf[vmpath[c]] = "remote"
       /\ \E flush \in FlushLeaves(c) : Die("remote_exec", flush.tables)

(* do_vm_request_read when the stream has ended. *)
Eof(f, c) ==
    /\ Up
    /\ sock[f] = "eof" /\ event[f] = c
    /\ CASE read_event[c] = NULL -> Die("event_free_null", rules)
         [] read_event[c] # NULL /\ context[c] = NULL -> Die("flush_without_context", rules)
         [] OTHER -> Closed(f, c)

(* _readn answers any other read error with a null write (ECONNRESET: the     *)
(* peer closed with replies unread).                                          *)
ReadError(f) == Up /\ sock[f] = "eof" /\ event[f] # NULL /\ Die("read_error", rules)

(* A callback whose card has been freed reads freed memory: Hello, AddFlows,  *)
(* Disconnect and Eof then work on what the block still holds, or it crashes. *)
UseAfterFree(f, c) ==
    /\ Up
    /\ sock[f] \in {"open", "eof"} /\ event[f] = c
    /\ c \notin Registered
    /\ Die("use_after_free", rules)

-----------------------------------------------------------------------------

(* The virtual machine behind a connected fd goes away. *)
VmCloses(f) ==
    /\ sock[f] = "open"
    /\ sock' = [sock EXCEPT ![f] = "eof"]
    /\ UNCHANGED <<tableVars, cardVars, peer, event, worldVars>>

(* The guest's client restarts, or failed to reconnect: its handle is NULL.   *)
GuestLoses(p) ==
    /\ handle[p]
    /\ handle' = [handle EXCEPT ![p] = FALSE]
    /\ UNCHANGED <<tableVars, cardVars, channelVars, daemon, context_host_id, rules, abandoned>>

-----------------------------------------------------------------------------

Handler(f, c) ==
    \/ Hello(f, c)
    \/ \E batch \in Batch : AddFlows(f, c, batch)
    \/ Disconnect(f, c)
    \/ Eof(f, c)
    \/ UseAfterFree(f, c)

Next ==
    \/ \E p \in Path : RegisterCmd(p)
    \/ \E p \in Unregisters : UnregisterCmd(p)
    \/ \E f \in Fd, c \in Card : Handler(f, c)
    \/ \E f \in Fd : ReadError(f) \/ VmCloses(f)
    \/ \E p \in Path : GuestLoses(p)
    \/ Killed
    \/ Restart

Spec == Init /\ [][Next]_vars

(* libevent runs the callback of a readable descriptor. *)
Fairness == \A f \in Fd, c \in Card : WF_vars(Eof(f, c))

FairSpec == Spec /\ Fairness

-----------------------------------------------------------------------------

(* A card has a plugin exactly when it has a context: the handlers that end   *)
(* or fail to create a context clear both fields (hello_message_handle,       *)
(* be_acc_flush_rules), or a later message would run on half a session.       *)
ContextIffPlugin == \A c \in Card : plugin[c] = NULL <=> context[c] = NULL

(* hostid is the cookie, and del-flows tells rules by cookie only: no two     *)
(* cards of the table may use one.                                            *)
LiveCookiesDistinct ==
    \A c, d \in Registered :
        (context[c] # NULL /\ context[c] = context[d]) => c = d

(* Every rule this life of the daemon installed is owned by a card of the     *)
(* table, unless its context ended without a working flush: replaced by a     *)
(* second HELLO, or flushed by a command that failed.                         *)
NoOrphanRules ==
    \A s \in Switch : \A r \in rules[s] :
        ~r.old => r.cookie \in LiveCookies \cup abandoned

(* Who may touch what.  A registered card, its event, its descriptor and its  *)
(* peer belong together; a block outside the table holds nothing; so no       *)
(* callback runs on a freed card.  It is the invariant that operator          *)
(* unregistration breaks.                                                     *)
ChannelOwnership ==
    /\ \A f \in Fd : event[f] # NULL =>
          /\ event[f] \in Registered
          /\ read_event[event[f]] = f
          /\ peer[f] = vmpath[event[f]]
    /\ \A f \in Fd : event[f] # NULL <=> sock[f] \in {"open", "eof"}
    /\ \A c \in Card : read_event[c] # NULL => event[read_event[c]] = c
    /\ \A c \in Card : context[c] # NULL => c \in Registered /\ read_event[c] # NULL

(* What happens on the connection of one path takes no rule of this life away *)
(* from a card of another path, except a rule whose match the guest has just  *)
(* asked for itself: it is replaced, and gone if the batch then fails.        *)
OthersKeep(f, S) ==
    \A d \in Registered, s \in Switch : vmpath[d] # peer[f] =>
        \A r \in rules[s] : (~r.old /\ r.cookie = context[d] /\ r.match \notin S) =>
            \E q \in rules'[s] : q.match = r.match /\ q.cookie = r.cookie

Isolation ==
    [][\A f \in Fd, c \in Card :
         /\ \A batch \in Batch : AddFlows(f, c, batch) => OthersKeep(f, Range(batch))
         /\ (Hello(f, c) \/ Disconnect(f, c) \/ Eof(f, c)) => OthersKeep(f, {})]_vars

(* A card whose connection could not be opened holds its path until the       *)
(* process ends: no handler ever runs for it, and registering the path again  *)
(* is refused as a duplicate instead of connecting again.                     *)
Deaf(p) == \E c \in Registered : vmpath[c] = p /\ read_event[c] = NULL
DeafForever == [][\A p \in Path : Deaf(p) => (Deaf(p)' \/ ~Up')]_vars

(* When the virtual machine of a card goes away the card eventually leaves    *)
(* the table, so that its path can be registered again.                       *)
PathFreed ==
    \A f \in Fd, c \in Card :
        (sock[f] = "eof" /\ event[f] = c) ~> c \notin Registered

-----------------------------------------------------------------------------

(* What the source asserts of itself, and what this model refutes. *)

(* assert(context) in add_flows_message_handle (be_acc_msg.c:117) and in      *)
(* be_acc_flush_rules (be_acc_msg.c:128): a guest that adds flows, says BYE   *)
(* or goes away said HELLO to this life of the daemon.                        *)
ContextAssertHolds == daemon \notin {"add_without_context", "flush_without_context"}

(* The asserts of be_acc_card_unreg, be_acc_card.c:89-91: a card that leaves   *)
(* the table has no context, no plugin and no read event any more.            *)
UnregAssertsHold ==
    [][\A c \in Registered : (Up' /\ c \notin Registered') =>
         context'[c] = NULL /\ plugin'[c] = NULL /\ read_event'[c] = NULL]_vars
=============================================================================
