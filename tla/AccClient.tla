----------------------------- MODULE AccClient -----------------------------
(****************************************************************************)
(* The guest's side of the accelerator (vnf/cgnat-acc): the worker threads   *)
(* of the NAT program call cgnat_accelerate(id, flow), which finds the       *)
(* thread's client in a table all threads share without a lock, connects it  *)
(* to the backend when it is not connected, and sends the flow.  Every       *)
(* access to the shared table is a step of its own.  The backend answers the *)
(* requests of a descriptor in the order it receives them.                   *)
(*                                                                          *)
(* The table of socket types is left out: every registration appends another *)
(* copy of the same type and only the first entry, there since the           *)
(* constructors ran, is ever used.                                           *)
(****************************************************************************)
EXTENDS Integers, Sequences, FiniteSets

CONSTANTS
    Thread,                 \* worker threads; the id of a call names its thread
    Fd,                     \* descriptors the channel can be opened on
    ACC_CLIENT_MAX_SIZE,    \* slots of the client table
    MaxStale,               \* bound: replies left behind on one descriptor
    NULL

ASSUME ClientAssumption ==
    /\ ACC_CLIENT_MAX_SIZE \in Nat \ {0}
    /\ MaxStale \in Nat
    /\ IsFiniteSet(Thread)
    /\ NULL \notin Thread
    /\ NULL \notin Fd
    /\ NULL \notin {"no_client", "not_connected", "descriptor_zero"}

VARIABLES
    id,          \* s_acc_client[].id
    handle,      \* s_acc_client[].handle
    pc,          \* where each thread is in cgnat_accelerate
    scan,        \* the loop index of each thread
    client,      \* the slot the thread's client pointer points to
    retry,       \* whether the thread is past its reconnection
    used,        \* the descriptor a thread waits on
    open,        \* the descriptors that are open
    lost,        \* the descriptors whose connection has ended
    replies,     \* the replies of the backend on each descriptor, in order
    result,      \* what the last call of a thread returned
    failure,     \* how the process ended, or NULL
    granted,     \* history: what the backend decided on the thread's last flow
    claimed,     \* history: the threads that stored their id in a slot
    interrupted  \* history: the descriptors on which a wait gave up

tableVars == <<id, handle, claimed>>
threadVars == <<pc, scan, client, retry, used, result>>
channelVars == <<open, lost, replies, granted, interrupted>>
vars == <<tableVars, threadVars, channelVars, failure>>

Slots == 0 .. ACC_CLIENT_MAX_SIZE - 1

Place == {"idle", "lookup", "last", "id", "handle", "connected", "assert", "send",
          "receive", "connect", "connecting"}

ErrorCode == {"DISCONNECT", "FLOWS_ACCEPT", "FLOWS_REJECTION"}

Reply == [to : Thread, code : {"FLOWS_ACCEPT", "FLOWS_REJECTION"}]

TypeOK ==
    /\ id \in [Slots -> Thread \cup {NULL}]
    /\ handle \in [Slots -> Fd \cup {NULL}]
    /\ pc \in [Thread -> Place]
    /\ scan \in [Thread -> 0 .. ACC_CLIENT_MAX_SIZE]
    /\ client \in [Thread -> Slots]
    /\ retry \in [Thread -> BOOLEAN]
    /\ used \in [Thread -> Fd \cup {NULL}]
    /\ open \subseteq Fd
    /\ lost \subseteq open
    /\ replies \in [Fd -> Seq(Reply)]
    /\ result \in [Thread -> ErrorCode]
    /\ failure \in {NULL, "no_client", "not_connected", "descriptor_zero"}
    /\ granted \in [Thread -> ErrorCode]
    /\ claimed \in [Slots -> SUBSET Thread]
    /\ interrupted \subseteq Fd

Init ==
    /\ id = [s \in Slots |-> NULL]
    /\ handle = [s \in Slots |-> NULL]
    /\ pc = [t \in Thread |-> "idle"]
    /\ scan = [t \in Thread |-> 0]
    /\ client = [t \in Thread |-> 0]
    /\ retry = [t \in Thread |-> FALSE]
    /\ used = [t \in Thread |-> NULL]
    /\ open = {}
    /\ lost = {}
    /\ replies = [f \in Fd |-> <<>>]
    /\ result = [t \in Thread |-> "DISCONNECT"]
    /\ failure = NULL
    /\ granted = [t \in Thread |-> "DISCONNECT"]
    /\ claimed = [s \in Slots |-> {}]
    /\ interrupted = {}

-----------------------------------------------------------------------------

At(t, place) == failure = NULL /\ pc[t] = place

Goto(t, place) == pc' = [pc EXCEPT ![t] = place]

Return(t, code) ==
    /\ Goto(t, "idle")
    /\ result' = [result EXCEPT ![t] = code]
    /\ retry' = [retry EXCEPT ![t] = FALSE]
    /\ used' = [used EXCEPT ![t] = NULL]

(* An assert aborts the process, every thread with it. *)
Abort(why) ==
    /\ failure' = why
    /\ UNCHANGED <<tableVars, threadVars, channelVars>>

(* cgnat_accelerate(id, flow): ret = DISCONNECT *)
Call(t) ==
    /\ At(t, "idle")
    /\ Goto(t, "lookup")
    /\ scan' = [scan EXCEPT ![t] = 0]
    /\ result' = [result EXCEPT ![t] = "DISCONNECT"]
    /\ granted' = [granted EXCEPT ![t] = "DISCONNECT"]
    /\ UNCHANGED <<tableVars, client, retry, used, open, lost, replies, interrupted, failure>>

(* The loop ends at slot i: past the last one, or at one without a client.    *)
EndOfTable(i) == IF i = ACC_CLIENT_MAX_SIZE THEN TRUE ELSE id[i] = NULL

(* Mutant: the loop stops before the last slot. *)
LookupStopsShort(t) ==
    /\ At(t, "lookup")
    /\ \/ /\ scan[t] = ACC_CLIENT_MAX_SIZE - 1
          /\ Goto(t, "last")
          /\ scan' = [scan EXCEPT ![t] = 0]
          /\ UNCHANGED client
       \/ /\ scan[t] < ACC_CLIENT_MAX_SIZE - 1
          /\ IF id[scan[t]] = t
             THEN /\ Goto(t, "connected")
                  /\ client' = [client EXCEPT ![t] = scan[t]]
                  /\ scan' = [scan EXCEPT ![t] = 0]
             ELSE /\ scan' = [scan EXCEPT ![t] = @ + 1]
                  /\ UNCHANGED <<pc, client>>
    /\ UNCHANGED <<tableVars, retry, used, result, channelVars, failure>>

(* One step of _acc_client_get_by_id. *)
Lookup(t) ==
    /\ At(t, "lookup")
    /\ \/ /\ EndOfTable(scan[t])
          /\ Goto(t, "last")
          /\ scan' = [scan EXCEPT ![t] = 0]
          /\ UNCHANGED client
       \/ /\ ~EndOfTable(scan[t])
          /\ IF id[scan[t]] = t
             THEN /\ Goto(t, "connected")
                  /\ client' = [client EXCEPT ![t] = scan[t]]
                  /\ scan' = [scan EXCEPT ![t] = 0]
             ELSE /\ scan' = [scan EXCEPT ![t] = @ + 1]
                  /\ UNCHANGED <<pc, client>>
    /\ UNCHANGED <<tableVars, retry, used, result, channelVars, failure>>

(* Mutant: the slot after the last client, whether or not there is one.       *)
LastIdxSkips(t) ==
    /\ At(t, "last")
    /\ IF scan[t] + 1 >= ACC_CLIENT_MAX_SIZE
       THEN Abort("no_client")
       ELSE /\ IF id[scan[t]] = NULL
               THEN Goto(t, "id") /\ scan' = [scan EXCEPT ![t] = @ + 1]
               ELSE scan' = [scan EXCEPT ![t] = @ + 1] /\ UNCHANGED pc
            /\ UNCHANGED <<tableVars, client, retry, used, result, channelVars, failure>>

(* One step of _acc_client_get_last_idx; without a free slot acc_client_add   *)
(* returns NULL and cgnat_accelerate asserts.                                 *)
LastIdx(t) ==
    /\ At(t, "last")
    /\ IF scan[t] = ACC_CLIENT_MAX_SIZE
       THEN Abort("no_client")
       ELSE /\ IF id[scan[t]] = NULL
               THEN Goto(t, "id") /\ UNCHANGED scan
               ELSE scan' = [scan EXCEPT ![t] = @ + 1] /\ UNCHANGED pc
            /\ UNCHANGED <<tableVars, client, retry, used, result, channelVars, failure>>

(* new_client->id = id: the slot may have been taken since it was seen free.  *)
StoreId(t) ==
    /\ At(t, "id")
    /\ id' = [id EXCEPT ![scan[t]] = t]
    /\ claimed' = [claimed EXCEPT ![scan[t]] = @ \cup {t}]
    /\ Goto(t, "handle")
    /\ UNCHANGED <<handle, scan, client, retry, used, result, channelVars, failure>>

(* new_client->handle = NULL *)
StoreHandle(t) ==
    /\ At(t, "handle")
    /\ handle' = [handle EXCEPT ![scan[t]] = NULL]
    /\ client' = [client EXCEPT ![t] = scan[t]]
    /\ scan' = [scan EXCEPT ![t] = 0]
    /\ Goto(t, "connected")
    /\ UNCHANGED <<id, claimed, retry, used, result, channelVars, failure>>

(* if (acc_client_is_connected(client)) *)
IsConnected(t) ==
    /\ At(t, "connected")
    /\ Goto(t, IF handle[client[t]] # NULL THEN "assert" ELSE "connect")
    /\ UNCHANGED <<tableVars, scan, client, retry, used, result, channelVars, failure>>

(* assert(acc_client_is_connected(client)) in acc_client_add_flows reads the  *)
(* handle again.                                                              *)
AssertConnected(t) ==
    /\ At(t, "assert")
    /\ IF handle[client[t]] = NULL
       THEN Abort("not_connected")
       ELSE /\ Goto(t, "send")
            /\ UNCHANGED <<tableVars, scan, client, retry, used, result, channelVars, failure>>

(* No answer: reconnect once, then report DISCONNECT.  The handle stays.      *)
Disconnected(t) ==
    IF retry[t] THEN Return(t, "DISCONNECT")
    ELSE /\ Goto(t, "connect")
         /\ used' = [used EXCEPT ![t] = NULL]
         /\ UNCHANGED <<result, retry>>

(* client->handle is read a third time; a NULL handle is descriptor 0.  The   *)
(* backend decides on the flow, or the connection has ended.                  *)
Send(t) ==
    /\ At(t, "send")
    /\ LET f == handle[client[t]]
       IN  IF f = NULL
           THEN Abort("descriptor_zero")
           ELSE /\ \/ \E code \in {"FLOWS_ACCEPT", "FLOWS_REJECTION"} :
                         /\ f \notin lost
                         /\ replies' = [replies EXCEPT ![f] = Append(@, [to |-> t, code |-> code])]
                         /\ granted' = [granted EXCEPT ![t] = code]
                         /\ used' = [used EXCEPT ![t] = f]
                         /\ Goto(t, "receive")
                         /\ UNCHANGED <<result, retry>>
                   \/ /\ f \in lost
                      /\ Disconnected(t)
                      /\ UNCHANGED <<replies, granted>>
                /\ UNCHANGED <<tableVars, scan, client, open, lost, interrupted, failure>>

(* Mutant: the reply is read but stays in the stream. *)
ReceiveLeaves(t) ==
    /\ At(t, "receive")
    /\ replies[used[t]] # <<>>
    /\ Return(t, Head(replies[used[t]]).code)
    /\ UNCHANGED <<tableVars, scan, client, channelVars, failure>>

(* Mutant: a read takes everything that has arrived, not one reply. *)
ReceiveDrains(t) ==
    /\ At(t, "receive")
    /\ replies[used[t]] # <<>>
    /\ replies' = [replies EXCEPT ![used[t]] = <<>>]
    /\ Return(t, Head(replies[used[t]]).code)
    /\ UNCHANGED <<tableVars, scan, client, open, lost, granted, interrupted, failure>>

(* wait_read_event and acc_unix_recv_message: the oldest reply answers the    *)
(* request, whoever sent it.                                                  *)
Receive(t) ==
    /\ At(t, "receive")
    /\ replies[used[t]] # <<>>
    /\ replies' = [replies EXCEPT ![used[t]] = Tail(@)]
    /\ Return(t, Head(replies[used[t]]).code)
    /\ UNCHANGED <<tableVars, scan, client, open, lost, granted, interrupted, failure>>

(* Mutant: a read of nothing is tried again. *)
ConnectionSpins(t) ==
    /\ At(t, "receive")
    /\ used[t] \in lost
    /\ UNCHANGED vars

(* The connection has ended: read returns 0.                                  *)
ConnectionLost(t) ==
    /\ At(t, "receive")
    /\ used[t] \in lost
    /\ Disconnected(t)
    /\ UNCHANGED <<tableVars, scan, client, channelVars, failure>>

(* poll is interrupted by a signal: the call gives up, the reply stays.       *)
(* BOUND: at most MaxStale replies are left behind on a descriptor.           *)
PollInterrupted(t) ==
    /\ At(t, "receive")
    /\ Len(replies[used[t]]) <= MaxStale
    /\ interrupted' = interrupted \cup {used[t]}
    /\ Disconnected(t)
    /\ UNCHANGED <<tableVars, scan, client, open, lost, replies, granted, failure>>

(* Mutant: open's -1 is stored as if it were a descriptor. *)
ConnectStoresError(t) ==
    /\ At(t, "connect")
    /\ handle' = [handle EXCEPT ![client[t]] = -1]
    /\ Goto(t, "connecting")
    /\ UNCHANGED <<id, claimed, scan, client, retry, used, result, channelVars, failure>>

(* Mutant: the descriptor that is replaced is closed first. *)
ConnectCloses(t) ==
    LET old == {handle[client[t]]} \ {NULL}
    IN  /\ At(t, "connect")
        /\ \/ \E f \in Fd \ (open \ old) :
                 /\ open' = (open \ old) \cup {f}
                 /\ lost' = lost \ old
                 /\ handle' = [handle EXCEPT ![client[t]] = f]
           \/ /\ handle' = [handle EXCEPT ![client[t]] = NULL]
              /\ open' = open \ old
              /\ lost' = lost \ old
        /\ Goto(t, "connecting")
        /\ UNCHANGED <<id, claimed, scan, client, retry, used, result, replies, granted,
                       interrupted, failure>>

(* client->handle = connect(NULL): the channel is opened and HELLO answered,  *)
(* or the descriptor is closed again.  The previous one is not closed.        *)
Connect(t) ==
    /\ At(t, "connect")
    /\ \/ \E f \in Fd \ open :
             /\ open' = open \cup {f}
             /\ handle' = [handle EXCEPT ![client[t]] = f]
       \/ /\ handle' = [handle EXCEPT ![client[t]] = NULL]
          /\ UNCHANGED open
    /\ Goto(t, "connecting")
    /\ UNCHANGED <<id, claimed, scan, client, retry, used, result, lost, replies, granted,
                   interrupted, failure>>

(* Mutant: nobody looks whether the connection succeeded. *)
ReconnectedUnchecked(t) ==
    /\ At(t, "connecting")
    /\ Goto(t, "assert")
    /\ retry' = [retry EXCEPT ![t] = TRUE]
    /\ UNCHANGED <<tableVars, scan, client, used, result, channelVars, failure>>

(* return (intptr_t)client->handle reads the handle back: 0 is DISCONNECT.    *)
Reconnected(t) ==
    /\ At(t, "connecting")
    /\ IF handle[client[t]] = NULL
       THEN Return(t, "DISCONNECT")
       ELSE /\ Goto(t, "assert")
            /\ retry' = [retry EXCEPT ![t] = TRUE]
            /\ UNCHANGED <<result, used>>
    /\ UNCHANGED <<tableVars, scan, client, channelVars, failure>>

(* The backend, or the host's end of the channel, goes away. *)
Lose(f) ==
    /\ failure = NULL
    /\ f \in open \ lost
    /\ lost' = lost \cup {f}
    /\ replies' = [replies EXCEPT ![f] = <<>>]
    /\ UNCHANGED <<tableVars, threadVars, open, granted, interrupted, failure>>

(* What a thread does next on its own. *)
Step(t) ==
    \/ Lookup(t) \/ LastIdx(t) \/ StoreId(t) \/ StoreHandle(t)
    \/ IsConnected(t) \/ AssertConnected(t) \/ Send(t) \/ Receive(t)
    \/ ConnectionLost(t) \/ Connect(t) \/ Reconnected(t)

(* The process has ended. *)
Ended == failure # NULL /\ UNCHANGED vars

Next ==
    \/ \E t \in Thread : Call(t) \/ Step(t) \/ PollInterrupted(t)
    \/ \E f \in Fd : Lose(f)
    \/ Ended

Spec == Init /\ [][Next]_vars

(* A thread that is in a call goes on when it can.  The backend answers every *)
(* request it has read (do_vm_request_read) or ends.                          *)
Fairness == \A t \in Thread : WF_vars(Step(t))

FairSpec == Spec /\ Fairness

-----------------------------------------------------------------------------

(* Whatever the threads do to the table at once, it stays one that lookups    *)
(* can use: no two slots carry one id, and no empty slot stands before a full *)
(* one (both scans stop at the first empty slot).                             *)
Findable ==
    /\ \A s, r \in Slots : (id[s] # NULL /\ id[s] = id[r]) => s = r
    /\ \A s, r \in Slots : (s < r /\ id[r] # NULL) => id[s] # NULL

(* As long as there are no more threads than slots, a thread that lost its    *)
(* slot to another finds one again: assert(client) in cgnat_accelerate.       *)
AlwaysRoom ==
    Cardinality(Thread) <= ACC_CLIENT_MAX_SIZE => failure # "no_client"

(* A thread that is alone in its slot. *)
Alone(t) == claimed[client[t]] \subseteq {t}

(* The failures of the unlocked table need two threads that claimed one slot: *)
(* a thread that is alone keeps its handle between its check and its use.     *)
AloneIsSafe ==
    \A t \in Thread :
        (At(t, "assert") \/ At(t, "send")) /\ Alone(t) => handle[client[t]] # NULL

(* On the descriptor of a thread that is alone, and on which no wait gave up, *)
(* one request is outstanding at a time, so the reply the thread reads is the *)
(* answer to its own request.                                                 *)
OwnReply ==
    \A t \in Thread :
        (At(t, "receive") /\ Alone(t) /\ used[t] \notin interrupted) =>
            used[t] \in lost \/ replies[used[t]] = <<[to |-> t, code |-> granted[t]]>>

(* Threads that share a descriptor may take each other's reply, and a wait    *)
(* that gives up leaves one behind, but none is missing: a thread that waits  *)
(* has a reply to read, or its connection has ended.                          *)
NoWaitInVain ==
    \A t \in Thread : At(t, "receive") => used[t] \in lost \/ replies[used[t]] # <<>>

(* Every call returns, or the process ends. *)
CallReturns == \A t \in Thread : pc[t] = "lookup" ~> (pc[t] = "idle" \/ failure # NULL)

(* acc_client_connect forgets the descriptor it replaces.  Once every         *)
(* descriptor was opened and has lost its connection, no call is ever         *)
(* answered again: each one returns DISCONNECT although the backend is there. *)
Stranded == open = Fd /\ lost = Fd

StrandedForever ==
    [][Stranded => /\ Stranded'
                   /\ \A t \in Thread : result'[t] \in {result[t], "DISCONNECT"}]_vars

(* What the source says of itself, and what this model refutes. *)

(* assert(acc_client_is_connected(client)), acc_client.h:31: a client that     *)
(* was seen connected, or has just connected, is connected.                   *)
ConnectedAssertHolds == failure # "not_connected"

(* FLOWS_ACCEPT, acc_flow.h:59: the flow was accepted by the accelerator.      *)
AcceptMeansAccepted ==
    \A t \in Thread :
        (At(t, "idle") /\ result[t] = "FLOWS_ACCEPT") => granted[t] = "FLOWS_ACCEPT"
=============================================================================
