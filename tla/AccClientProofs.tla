--------------------------- MODULE AccClientProofs ---------------------------
(* Proofs about the unlocked client table for every number of threads, slots  *)
(* and descriptors.                                                           *)
EXTENDS AccClient, FiniteSetTheorems, FunctionTheorems, TLAPS

(* What thread t has learnt from its scans.  Only StoreId writes an id, and   *)
(* never NULL: a slot that was seen full stays full, and no other thread      *)
(* stores t, so it stays true.                                                *)
ScannedBy(t) ==
    /\ pc[t] = "lookup" => \A s \in Slots : s < scan[t] => id[s] # NULL /\ id[s] # t
    /\ pc[t] \in {"last", "id"} =>
          /\ \A s \in Slots : s < scan[t] => id[s] # NULL
          /\ \A s \in Slots : id[s] # t
    /\ pc[t] \in {"id", "handle"} => scan[t] \in Slots

(* Where thread t is, it has claimed the slot it works on, and it waits on a  *)
(* descriptor.                                                                *)
ClaimedBy(t) ==
    /\ pc[t] = "handle" => t \in claimed[scan[t]]
    /\ pc[t] \in {"connected", "assert", "send", "receive", "connect", "connecting"} =>
          t \in claimed[client[t]]
    /\ pc[t] = "receive" => used[t] \in Fd

(* The owner of a slot has claimed it. *)
OwnersClaimed == \A s \in Slots : id[s] # NULL => id[s] \in claimed[s]

ClientInv ==
    /\ TypeOK
    /\ Findable
    /\ OwnersClaimed
    /\ \A t \in Thread : ScannedBy(t) /\ ClaimedBy(t)

LEMMA SlotBounds ==
    /\ Slots \subseteq 0 .. ACC_CLIENT_MAX_SIZE
    /\ 0 \in Slots
    /\ \A i \in 0 .. ACC_CLIENT_MAX_SIZE : i # ACC_CLIENT_MAX_SIZE =>
          i \in Slots /\ i + 1 \in 0 .. ACC_CLIENT_MAX_SIZE
BY ClientAssumption DEF Slots

LEMMA InitClientInv == Init => ClientInv
<1> SUFFICES ASSUME Init PROVE ClientInv
  OBVIOUS
<1>1. TypeOK
  BY SlotBounds DEF Init, TypeOK, Place, ErrorCode
<1>2. Findable /\ OwnersClaimed /\ \A t \in Thread : ScannedBy(t) /\ ClaimedBy(t)
  BY DEF Init, Findable, OwnersClaimed, ScannedBy, ClaimedBy
<1> QED  BY <1>1, <1>2 DEF ClientInv

(* A step of thread t that writes no id keeps what concerns the table, if t   *)
(* itself has scanned and claimed what its new place says.                    *)
LEMMA ThreadStep ==
    ASSUME ClientInv, TypeOK', NEW t \in Thread, UNCHANGED <<id, claimed>>,
           \A u \in Thread \ {t} :
              /\ pc'[u] = pc[u] /\ scan'[u] = scan[u]
              /\ client'[u] = client[u] /\ used'[u] = used[u],
           ScannedBy(t)', ClaimedBy(t)'
    PROVE  ClientInv'
<1>1. Findable' /\ OwnersClaimed'
  BY DEF ClientInv, Findable, OwnersClaimed
<1>2. ASSUME NEW u \in Thread, u # t PROVE ScannedBy(u)' /\ ClaimedBy(u)'
  BY <1>2 DEF ClientInv, ScannedBy, ClaimedBy
<1> QED  BY <1>1, <1>2 DEF ClientInv

(* A step of thread t, past its scans, that keeps its client pointer.         *)
LEMMA LaterStep ==
    ASSUME ClientInv, TypeOK', NEW t \in Thread,
           UNCHANGED <<id, claimed, scan, client>>,
           pc[t] \in {"connected", "assert", "send", "receive", "connect", "connecting"},
           NEW place \in {"idle", "connected", "assert", "send", "receive", "connect",
                          "connecting"},
           pc' = [pc EXCEPT ![t] = place],
           \E f \in Fd \cup {NULL} : used' = used \/ used' = [used EXCEPT ![t] = f],
           place = "receive" => used'[t] \in Fd
    PROVE  ClientInv'
<1>1. pc'[t] = place /\ \A u \in Thread \ {t} : pc'[u] = pc[u] /\ used'[u] = used[u]
  BY DEF ClientInv, TypeOK
<1>2. ScannedBy(t)'
  BY <1>1 DEF ScannedBy
<1>3. t \in claimed[client[t]]
  BY DEF ClientInv, ClaimedBy
<1>4. ClaimedBy(t)'
  BY <1>1, <1>3 DEF ClaimedBy
<1> QED  BY <1>1, <1>2, <1>4, ThreadStep

LEMMA CallInv ==
    ASSUME ClientInv, NEW t \in Thread, Call(t)
    PROVE  ClientInv'
<1>1. TypeOK'
  BY SlotBounds DEF Call, At, Goto, ClientInv, TypeOK, Place, ErrorCode, tableVars
<1>2. pc'[t] = "lookup" /\ scan'[t] = 0
  BY DEF Call, Goto, ClientInv, TypeOK
<1>3. ScannedBy(t)' /\ ClaimedBy(t)'
  BY <1>2, ClientAssumption DEF ScannedBy, ClaimedBy, Slots
<1> QED  BY <1>1, <1>3, ThreadStep DEF Call, Goto, tableVars, ClientInv, TypeOK

(* The lookup ends at an empty slot or past the last one; as there are no     *)
(* holes, the thread's id is nowhere.                                         *)
LEMMA LookupInv ==
    ASSUME ClientInv, NEW t \in Thread, Lookup(t)
    PROVE  ClientInv'
<1>0. /\ pc[t] = "lookup"
      /\ UNCHANGED <<id, handle, claimed, retry, used, result, open, lost, replies, granted,
                     interrupted, failure>>
      /\ scan[t] \in 0 .. ACC_CLIENT_MAX_SIZE
  BY DEF Lookup, At, tableVars, channelVars, ClientInv, TypeOK
<1>1. CASE /\ EndOfTable(scan[t])
           /\ pc' = [pc EXCEPT ![t] = "last"]
           /\ scan' = [scan EXCEPT ![t] = 0]
           /\ client' = client
  <2>1. TypeOK'
    BY <1>0, <1>1, SlotBounds DEF ClientInv, TypeOK, Place
  <2>2. pc'[t] = "last" /\ scan'[t] = 0
    BY <1>1 DEF ClientInv, TypeOK
  <2>3. \A s \in Slots : id[s] # t
    <3>1. ASSUME NEW s \in Slots, s < scan[t] PROVE id[s] # t
      BY <1>0, <3>1 DEF ClientInv, ScannedBy
    <3>2. ASSUME NEW s \in Slots, ~(s < scan[t]) PROVE id[s] = NULL
      <4>1. scan[t] # ACC_CLIENT_MAX_SIZE
        BY <1>0, <3>2, ClientAssumption DEF Slots
      <4>2. scan[t] \in Slots /\ id[scan[t]] = NULL
        BY <1>0, <1>1, <4>1, SlotBounds DEF EndOfTable
      <4>3. s = scan[t] \/ scan[t] < s
        BY <1>0, <3>2, ClientAssumption DEF Slots
      <4> QED  BY <4>2, <4>3 DEF ClientInv, Findable
    <3> QED  BY <3>1, <3>2, ClientAssumption
  <2>4. ScannedBy(t)' /\ ClaimedBy(t)'
    BY <1>0, <2>2, <2>3, ClientAssumption DEF ScannedBy, ClaimedBy, Slots
  <2> QED  BY <1>0, <1>1, <2>1, <2>4, ThreadStep DEF ClientInv, TypeOK
<1>2. CASE /\ ~EndOfTable(scan[t]) /\ id[scan[t]] = t
           /\ pc' = [pc EXCEPT ![t] = "connected"]
           /\ client' = [client EXCEPT ![t] = scan[t]]
           /\ scan' = [scan EXCEPT ![t] = 0]
  <2>1. scan[t] \in Slots
    BY <1>0, <1>2, SlotBounds DEF EndOfTable
  <2>2. TypeOK'
    BY <1>0, <1>2, <2>1, SlotBounds DEF ClientInv, TypeOK, Place
  <2>3. pc'[t] = "connected" /\ client'[t] = scan[t]
    BY <1>2 DEF ClientInv, TypeOK
  <2>4. t \in claimed[scan[t]]
    BY <1>2, <2>1, ClientAssumption DEF ClientInv, OwnersClaimed
  <2>5. ScannedBy(t)' /\ ClaimedBy(t)'
    BY <1>0, <2>3, <2>4 DEF ScannedBy, ClaimedBy
  <2> QED  BY <1>0, <1>2, <2>2, <2>5, ThreadStep DEF ClientInv, TypeOK
<1>3. CASE /\ ~EndOfTable(scan[t]) /\ id[scan[t]] # t
           /\ scan' = [scan EXCEPT ![t] = @ + 1]
           /\ UNCHANGED <<pc, client>>
  <2>1. scan[t] \in Slots /\ scan[t] + 1 \in 0 .. ACC_CLIENT_MAX_SIZE /\ id[scan[t]] # NULL
    BY <1>0, <1>3, SlotBounds DEF EndOfTable
  <2>2. TypeOK'
    BY <1>0, <1>3, <2>1 DEF ClientInv, TypeOK
  <2>3. pc'[t] = "lookup" /\ scan'[t] = scan[t] + 1
    BY <1>0, <1>3 DEF ClientInv, TypeOK
  <2>4. \A s \in Slots : s < scan[t] + 1 => id[s] # NULL /\ id[s] # t
    BY <1>0, <1>3, <2>1 DEF ClientInv, ScannedBy, Slots
  <2>5. ScannedBy(t)' /\ ClaimedBy(t)'
    BY <1>0, <2>3, <2>4 DEF ScannedBy, ClaimedBy
  <2> QED  BY <1>0, <1>3, <2>2, <2>5, ThreadStep DEF ClientInv, TypeOK
<1> QED  BY <1>0, <1>1, <1>2, <1>3 DEF Lookup, Goto

(* An abort changes nothing but the failure. *)
LEMMA AbortInv ==
    ASSUME ClientInv, NEW why \in {"no_client", "not_connected", "descriptor_zero"}, Abort(why)
    PROVE  ClientInv'
<1>1. TypeOK'
  BY DEF Abort, ClientInv, TypeOK, tableVars, threadVars, channelVars
<1> QED  BY <1>1 DEF Abort, ClientInv, Findable, OwnersClaimed, ScannedBy, ClaimedBy,
             tableVars, threadVars

LEMMA LastIdxInv ==
    ASSUME ClientInv, NEW t \in Thread, LastIdx(t)
    PROVE  ClientInv'
<1>1. CASE Abort("no_client")
  BY <1>1, AbortInv
<1>2. CASE /\ scan[t] # ACC_CLIENT_MAX_SIZE
           /\ \/ id[scan[t]] = NULL /\ pc' = [pc EXCEPT ![t] = "id"] /\ scan' = scan
              \/ id[scan[t]] # NULL /\ scan' = [scan EXCEPT ![t] = @ + 1] /\ pc' = pc
           /\ UNCHANGED <<tableVars, client, retry, used, result, channelVars, failure>>
  <2>1. scan[t] \in Slots /\ scan[t] + 1 \in 0 .. ACC_CLIENT_MAX_SIZE /\ pc[t] = "last"
    BY <1>2, SlotBounds DEF LastIdx, At, ClientInv, TypeOK
  <2>2. TypeOK'
    BY <1>2, <2>1 DEF ClientInv, TypeOK, Place, tableVars, channelVars
  <2>3. UNCHANGED <<id, claimed, client>>
    BY <1>2 DEF tableVars
  <2>4. \/ pc'[t] = "id" /\ scan'[t] = scan[t]
        \/ pc'[t] = "last" /\ scan'[t] = scan[t] + 1 /\ id[scan[t]] # NULL
    BY <1>2, <2>1 DEF ClientInv, TypeOK
  <2>5. ScannedBy(t)
    BY DEF ClientInv
  <2>6. ScannedBy(t)' /\ ClaimedBy(t)'
    BY <2>1, <2>3, <2>4, <2>5 DEF ScannedBy, ClaimedBy, Slots
  <2> QED  BY <1>2, <2>2, <2>3, <2>6, ThreadStep DEF ClientInv, TypeOK
<1> QED  BY <1>1, <1>2 DEF LastIdx, Goto

(* The slot may have been taken since: then its id changes hands, and the     *)
(* thread that loses it is found nowhere any more.                            *)
LEMMA StoreIdInv ==
    ASSUME ClientInv, NEW t \in Thread, StoreId(t)
    PROVE  ClientInv'
<1> DEFINE k == scan[t]
<1>1. /\ pc[t] = "id" /\ k \in Slots
      /\ \A s \in Slots : s < k => id[s] # NULL
      /\ \A s \in Slots : id[s] # t
  BY DEF StoreId, At, ClientInv, ScannedBy
<1>2. /\ id' = [id EXCEPT ![k] = t]
      /\ claimed' = [claimed EXCEPT ![k] = @ \cup {t}]
      /\ pc' = [pc EXCEPT ![t] = "handle"]
      /\ UNCHANGED <<handle, scan, client, retry, used, result, channelVars, failure>>
  BY DEF StoreId, Goto
<1>3. TypeOK'
  BY <1>1, <1>2 DEF ClientInv, TypeOK, Place, channelVars
<1>4. \A s \in Slots : id'[s] = IF s = k THEN t ELSE id[s]
  BY <1>2 DEF ClientInv, TypeOK
<1>5. \A s \in Slots : id[s] # NULL => id'[s] # NULL
  BY <1>4, ClientAssumption
<1>6. Findable'
  <2>1. \A s, r \in Slots : (id'[s] # NULL /\ id'[s] = id'[r]) => s = r
    BY <1>1, <1>4 DEF ClientInv, Findable
  <2>2. \A s, r \in Slots : (s < r /\ id'[r] # NULL) => id'[s] # NULL
    BY <1>1, <1>4, <1>5 DEF ClientInv, Findable
  <2> QED  BY <2>1, <2>2 DEF Findable
<1>7. \A s \in Slots : claimed[s] \subseteq claimed'[s] /\ t \in claimed'[k]
  BY <1>1, <1>2 DEF ClientInv, TypeOK
<1>8. OwnersClaimed'
  BY <1>4, <1>7 DEF ClientInv, OwnersClaimed
<1>9. ASSUME NEW u \in Thread, u # t PROVE ScannedBy(u)' /\ ClaimedBy(u)'
  <2>1. /\ pc'[u] = pc[u] /\ scan'[u] = scan[u] /\ used'[u] = used[u]
        /\ client'[u] = client[u] /\ client[u] \in Slots
    BY <1>2, <1>9 DEF ClientInv, TypeOK
  <2>2. ScannedBy(u) /\ ClaimedBy(u)
    BY DEF ClientInv
  <2>3. ScannedBy(u)'
    BY <1>4, <1>5, <1>9, <2>1, <2>2 DEF ScannedBy
  <2>4. pc[u] = "handle" => scan[u] \in Slots
    BY <2>2 DEF ScannedBy
  <2>5. ClaimedBy(u)'
    BY <1>7, <2>1, <2>2, <2>4 DEF ClaimedBy
  <2> QED  BY <2>3, <2>5
<1>10. ScannedBy(t)' /\ ClaimedBy(t)'
  BY <1>1, <1>2, <1>7 DEF ScannedBy, ClaimedBy, ClientInv, TypeOK
<1> QED  BY <1>3, <1>6, <1>8, <1>9, <1>10 DEF ClientInv

LEMMA StoreHandleInv ==
    ASSUME ClientInv, NEW t \in Thread, StoreHandle(t)
    PROVE  ClientInv'
<1>1. pc[t] = "handle" /\ scan[t] \in Slots /\ t \in claimed[scan[t]]
  BY DEF StoreHandle, At, ClientInv, ScannedBy, ClaimedBy
<1>2. TypeOK'
  BY <1>1, SlotBounds DEF StoreHandle, Goto, ClientInv, TypeOK, Place, channelVars
<1>3. pc'[t] = "connected" /\ client'[t] = scan[t] /\ UNCHANGED <<id, claimed>>
  BY DEF StoreHandle, Goto, ClientInv, TypeOK
<1>4. ScannedBy(t)' /\ ClaimedBy(t)'
  BY <1>1, <1>3 DEF ScannedBy, ClaimedBy
<1> QED  BY <1>2, <1>3, <1>4, ThreadStep DEF StoreHandle, Goto, ClientInv, TypeOK

LEMMA IsConnectedInv ==
    ASSUME ClientInv, NEW t \in Thread, IsConnected(t)
    PROVE  ClientInv'
<1> DEFINE place == IF handle[client[t]] # NULL THEN "assert" ELSE "connect"
<1>1. /\ pc[t] = "connected" /\ pc' = [pc EXCEPT ![t] = place]
      /\ UNCHANGED <<id, claimed, scan, client, used>>
  BY DEF IsConnected, At, Goto, tableVars
<1>2. TypeOK'
  BY DEF IsConnected, Goto, ClientInv, TypeOK, Place, tableVars, channelVars
<1> QED  BY <1>1, <1>2, LaterStep

LEMMA AssertConnectedInv ==
    ASSUME ClientInv, NEW t \in Thread, AssertConnected(t)
    PROVE  ClientInv'
<1>1. CASE Abort("not_connected")
  BY <1>1, AbortInv
<1>2. CASE /\ pc' = [pc EXCEPT ![t] = "send"]
           /\ UNCHANGED <<tableVars, scan, client, retry, used, result, channelVars, failure>>
  <2>1. TypeOK'
    BY <1>2 DEF ClientInv, TypeOK, Place, tableVars, channelVars
  <2> QED  BY <1>2, <2>1, LaterStep DEF AssertConnected, At, tableVars
<1> QED  BY <1>1, <1>2 DEF AssertConnected, Goto

(* A call that gives up its wait connects again or returns. *)
LEMMA DisconnectedStep ==
    ASSUME ClientInv, NEW t \in Thread, Disconnected(t)
    PROVE  /\ \E place \in {"idle", "connect"} : pc' = [pc EXCEPT ![t] = place]
           /\ pc' \in [Thread -> Place]
           /\ retry' \in [Thread -> BOOLEAN]
           /\ used' \in [Thread -> Fd \cup {NULL}]
           /\ \E f \in Fd \cup {NULL} : used' = used \/ used' = [used EXCEPT ![t] = f]
           /\ result' \in [Thread -> ErrorCode]
BY DEF Disconnected, Return, Goto, ClientInv, TypeOK, Place, ErrorCode

LEMMA SendInv ==
    ASSUME ClientInv, NEW t \in Thread, Send(t)
    PROVE  ClientInv'
<1> DEFINE f == handle[client[t]]
<1>1. pc[t] = "send" /\ f \in Fd \cup {NULL}
  BY DEF Send, At, ClientInv, TypeOK
<1>2. CASE Abort("descriptor_zero")
  BY <1>2, AbortInv
<1>3. CASE f # NULL /\ UNCHANGED <<tableVars, scan, client, open, lost, interrupted, failure>>
  <2>1. ASSUME NEW code \in {"FLOWS_ACCEPT", "FLOWS_REJECTION"},
               replies' = [replies EXCEPT ![f] = Append(@, [to |-> t, code |-> code])],
               granted' = [granted EXCEPT ![t] = code],
               used' = [used EXCEPT ![t] = f],
               pc' = [pc EXCEPT ![t] = "receive"],
               UNCHANGED <<result, retry>>
        PROVE  ClientInv'
    <3>1. [to |-> t, code |-> code] \in Reply
      BY DEF Reply
    <3>2. Append(replies[f], [to |-> t, code |-> code]) \in Seq(Reply)
      BY <1>1, <1>3, <3>1 DEF ClientInv, TypeOK
    <3>3. replies' \in [Fd -> Seq(Reply)]
      BY <2>1, <1>1, <1>3, <3>2 DEF ClientInv, TypeOK
    <3>4. TypeOK'
      BY <1>1, <1>3, <2>1, <3>3 DEF ClientInv, TypeOK, Place, ErrorCode, tableVars
    <3>5. f \in Fd /\ used'[t] = f
      BY <1>1, <1>3, <2>1 DEF ClientInv, TypeOK
    <3>6. UNCHANGED <<id, claimed, scan, client>>
      BY <1>3 DEF tableVars
    <3> QED  BY <1>1, <2>1, <3>4, <3>5, <3>6, LaterStep
  <2>2. ASSUME Disconnected(t), UNCHANGED <<replies, granted>>
        PROVE  ClientInv'
    <3>1. TypeOK'
      BY <1>3, <2>2, DisconnectedStep DEF ClientInv, TypeOK, tableVars
    <3> QED  BY <1>1, <1>3, <2>2, <3>1, DisconnectedStep, LaterStep DEF tableVars
  <2> QED  BY <1>3, <2>1, <2>2 DEF Send, Goto, Abort
<1> QED  BY <1>2, <1>3 DEF Send

LEMMA ReceiveInv ==
    ASSUME ClientInv, NEW t \in Thread, Receive(t)
    PROVE  ClientInv'
<1> DEFINE f == used[t]
<1>1. /\ pc[t] = "receive" /\ replies[f] # <<>>
      /\ replies' = [replies EXCEPT ![f] = Tail(@)]
      /\ pc' = [pc EXCEPT ![t] = "idle"]
      /\ result' = [result EXCEPT ![t] = Head(replies[f]).code]
      /\ retry' = [retry EXCEPT ![t] = FALSE]
      /\ used' = [used EXCEPT ![t] = NULL]
      /\ UNCHANGED <<tableVars, scan, client, open, lost, granted, interrupted, failure>>
  BY DEF Receive, Return, Goto, At
<1>2. replies' \in [Fd -> Seq(Reply)] /\ result' \in [Thread -> ErrorCode]
  <2>1. f \in Fd /\ replies[f] \in Seq(Reply)
    BY <1>1 DEF ClientInv, TypeOK, ClaimedBy
  <2>2. Tail(replies[f]) \in Seq(Reply) /\ Head(replies[f]) \in Reply
    BY <1>1, <2>1
  <2>3. Head(replies[f]).code \in ErrorCode
    BY <2>2 DEF Reply, ErrorCode
  <2> QED  BY <1>1, <2>1, <2>2, <2>3 DEF ClientInv, TypeOK
<1>3. TypeOK'
  BY <1>1, <1>2 DEF ClientInv, TypeOK, Place, tableVars
<1> QED  BY <1>1, <1>3, LaterStep DEF tableVars

LEMMA ConnectionLostInv ==
    ASSUME ClientInv, NEW t \in Thread, ConnectionLost(t)
    PROVE  ClientInv'
<1>1. pc[t] = "receive" /\ UNCHANGED <<tableVars, scan, client, channelVars, failure>>
  BY DEF ConnectionLost, At
<1>2. TypeOK'
  BY <1>1, DisconnectedStep DEF ConnectionLost, ClientInv, TypeOK, tableVars, channelVars
<1> QED  BY <1>1, <1>2, DisconnectedStep, LaterStep DEF ConnectionLost, tableVars

LEMMA ConnectInv ==
    ASSUME ClientInv, NEW t \in Thread, Connect(t)
    PROVE  ClientInv'
<1>1. /\ pc[t] = "connect" /\ pc' = [pc EXCEPT ![t] = "connecting"]
      /\ UNCHANGED <<id, claimed, scan, client, retry, used, result, lost, replies, granted,
                     interrupted, failure>>
  BY DEF Connect, At, Goto
<1>2. TypeOK'
  <2>1. open' \subseteq Fd /\ open \subseteq open'
    BY DEF Connect, ClientInv, TypeOK
  <2>2. \E f \in Fd \cup {NULL} : handle' = [handle EXCEPT ![client[t]] = f]
    BY DEF Connect
  <2>3. handle' \in [Slots -> Fd \cup {NULL}]
    BY <2>2 DEF ClientInv, TypeOK
  <2>4. pc' \in [Thread -> Place]
    BY <1>1 DEF ClientInv, TypeOK, Place
  <2> QED  BY <1>1, <2>1, <2>3, <2>4 DEF ClientInv, TypeOK
<1> QED  BY <1>1, <1>2, LaterStep

LEMMA ReconnectedInv ==
    ASSUME ClientInv, NEW t \in Thread, Reconnected(t)
    PROVE  ClientInv'
<1>1. pc[t] = "connecting" /\ UNCHANGED <<tableVars, scan, client, channelVars, failure>>
  BY DEF Reconnected, At
<1>2. \/ pc' = [pc EXCEPT ![t] = "assert"] /\ used' = used
      \/ pc' = [pc EXCEPT ![t] = "idle"] /\ used' = [used EXCEPT ![t] = NULL]
  BY DEF Reconnected, Return, Goto
<1>3. TypeOK'
  <2>1. /\ retry' \in [Thread -> BOOLEAN] /\ used' \in [Thread -> Fd \cup {NULL}]
        /\ result' \in [Thread -> ErrorCode]
    BY DEF Reconnected, Return, ClientInv, TypeOK, ErrorCode
  <2>2. pc' \in [Thread -> Place]
    BY <1>2 DEF ClientInv, TypeOK, Place
  <2> QED  BY <1>1, <2>1, <2>2 DEF ClientInv, TypeOK, tableVars, channelVars
<1> QED  BY <1>1, <1>2, <1>3, LaterStep DEF tableVars

LEMMA PollInterruptedInv ==
    ASSUME ClientInv, NEW t \in Thread, PollInterrupted(t)
    PROVE  ClientInv'
<1>1. /\ pc[t] = "receive" /\ used[t] \in Fd
      /\ interrupted' = interrupted \cup {used[t]}
      /\ UNCHANGED <<tableVars, scan, client, open, lost, replies, granted, failure>>
  BY DEF PollInterrupted, At, ClientInv, ClaimedBy
<1>2. TypeOK'
  BY <1>1, DisconnectedStep DEF PollInterrupted, ClientInv, TypeOK, tableVars
<1> QED  BY <1>1, <1>2, DisconnectedStep, LaterStep DEF PollInterrupted, tableVars

LEMMA LoseInv ==
    ASSUME ClientInv, NEW f \in Fd, Lose(f)
    PROVE  ClientInv'
<1>1. <<>> \in Seq(Reply)
  OBVIOUS
<1>2. TypeOK'
  BY <1>1 DEF Lose, ClientInv, TypeOK, tableVars, threadVars
<1> QED  BY <1>2 DEF Lose, ClientInv, Findable, OwnersClaimed, ScannedBy, ClaimedBy,
             tableVars, threadVars

LEMMA QuietClientInv == ClientInv /\ UNCHANGED vars => ClientInv'
BY DEF vars, tableVars, threadVars, channelVars, ClientInv, TypeOK, Findable, OwnersClaimed,
       ScannedBy, ClaimedBy

LEMMA StepClientInv == ClientInv /\ [Next]_vars => ClientInv'
<1> SUFFICES ASSUME ClientInv, [Next]_vars PROVE ClientInv'
  OBVIOUS
<1>1. ASSUME NEW t \in Thread, Call(t) \/ Step(t) \/ PollInterrupted(t)
      PROVE  ClientInv'
  BY <1>1, CallInv, LookupInv, LastIdxInv, StoreIdInv, StoreHandleInv, IsConnectedInv,
     AssertConnectedInv, SendInv, ReceiveInv, ConnectionLostInv, ConnectInv,
     ReconnectedInv, PollInterruptedInv DEF Step
<1>2. ASSUME NEW f \in Fd, Lose(f) PROVE ClientInv'
  BY <1>2, LoseInv
<1>3. CASE Ended \/ UNCHANGED vars
  BY <1>3, QuietClientInv DEF Ended
<1> QED  BY <1>1, <1>2, <1>3 DEF Next

LEMMA ClientInvariant == Spec => []ClientInv
<1> QED  BY InitClientInv, StepClientInv, PTL DEF Spec

(* The variables of the client keep their types. *)
THEOREM ClientTypes == Spec => []TypeOK
<1>1. ClientInv => TypeOK
  BY DEF ClientInv
<1> QED  BY <1>1, ClientInvariant, PTL

(* However many threads work on the unlocked table at once, no id is in two   *)
(* slots and no empty slot stands before a full one: what both scans of       *)
(* acc_client.c rely on.                                                      *)
THEOREM ClientsFindable == Spec => []Findable
<1>1. ClientInv => Findable
  BY DEF ClientInv
<1> QED  BY <1>1, ClientInvariant, PTL

-----------------------------------------------------------------------------

(* A thread that has scanned a full table found in it the ids of as many      *)
(* other threads.                                                             *)
LEMMA FullTable ==
    ASSUME ClientInv, NEW t \in Thread, pc[t] = "last", scan[t] = ACC_CLIENT_MAX_SIZE
    PROVE  Cardinality(Thread) > ACC_CLIENT_MAX_SIZE
<1> DEFINE others == Thread \ {t}
<1>1. \A s \in Slots : id[s] # NULL /\ id[s] # t
  BY ClientAssumption DEF ClientInv, ScannedBy, Slots
<1>2. id \in [Slots -> others] /\ \A s, r \in Slots : id[s] = id[r] => s = r
  BY <1>1 DEF ClientInv, TypeOK, Findable
<1>3. id \in Injection(Slots, others)
  BY <1>2, Fun_IsInj
<1>4. /\ IsFiniteSet(others)
      /\ Cardinality(others) = Cardinality(Thread) - 1
      /\ Cardinality(Thread) \in Nat
  BY ClientAssumption, FS_RemoveElement, FS_CardinalityType
<1>5. IsFiniteSet(Slots) /\ Cardinality(Slots) = ACC_CLIENT_MAX_SIZE
  <2>1. ACC_CLIENT_MAX_SIZE \in Nat /\ 0 <= ACC_CLIENT_MAX_SIZE - 1
    BY ClientAssumption
  <2> QED  BY <2>1, FS_Interval DEF Slots
<1>6. Cardinality(Slots) <= Cardinality(others)
  BY <1>3, <1>4, FS_Injection
<1> QED  BY <1>4, <1>5, <1>6, ClientAssumption

(* assert(client) in cgnat_accelerate holds as long as there are no more      *)
(* threads than slots, although threads can take each other's slots.          *)
THEOREM RoomForAll == Spec => []AlwaysRoom
<1>1. Init => AlwaysRoom
  BY ClientAssumption DEF Init, AlwaysRoom
<1>2. ASSUME ClientInv, AlwaysRoom, [Next]_vars
      PROVE  AlwaysRoom'
  <2>1. failure' # "no_client" \/ failure' = failure \/ \E t \in Thread : LastIdx(t)
    BY <1>2 DEF Next, vars, Step, Call, Lookup, StoreId, StoreHandle, IsConnected,
       AssertConnected, Send, Receive, ConnectionLost, PollInterrupted, Connect, Reconnected, Lose,
       Ended, Abort
  <2>2. ASSUME NEW t \in Thread, LastIdx(t) PROVE AlwaysRoom'
    <3>1. CASE scan[t] = ACC_CLIENT_MAX_SIZE
      <4>1. Cardinality(Thread) > ACC_CLIENT_MAX_SIZE
        BY <1>2, <2>2, <3>1, FullTable DEF LastIdx, At
      <4>2. Cardinality(Thread) \in Nat
        BY ClientAssumption, FS_CardinalityType
      <4> QED  BY <4>1, <4>2, ClientAssumption DEF AlwaysRoom
    <3>2. CASE scan[t] # ACC_CLIENT_MAX_SIZE
      BY <1>2, <2>2, <3>2 DEF LastIdx, AlwaysRoom
    <3> QED  BY <3>1, <3>2
  <2> QED  BY <1>2, <2>1, <2>2 DEF AlwaysRoom
<1> QED  BY <1>1, <1>2, ClientInvariant, PTL DEF Spec

-----------------------------------------------------------------------------

(* Only the threads that claimed a slot write its handle, and a thread that   *)
(* is alone in its slot goes past its check with a handle.                    *)
THEOREM AloneSafe == Spec => []AloneIsSafe
<1>1. Init => AloneIsSafe
  BY DEF Init, AloneIsSafe, At
<1>2. ASSUME ClientInv, AloneIsSafe, [Next]_vars
      PROVE  AloneIsSafe'
  <2> SUFFICES ASSUME NEW t \in Thread, failure' = NULL, pc'[t] \in {"assert", "send"},
                      claimed'[client'[t]] \subseteq {t}
               PROVE  handle'[client'[t]] # NULL
    BY DEF AloneIsSafe, At, Alone
  <2>1. CASE UNCHANGED vars
    BY <1>2, <2>1 DEF vars, tableVars, threadVars, AloneIsSafe, At, Alone
  <2>2. ASSUME NEW u \in Thread, u # t, Call(u) \/ Step(u) \/ PollInterrupted(u)
        PROVE  handle'[client'[t]] # NULL
    <3>1. pc'[t] = pc[t] /\ client'[t] = client[t] /\ client[t] \in Slots /\ failure = NULL
      BY <1>2, <2>2, DisconnectedStep DEF Call, Step, Lookup, LastIdx, StoreId, StoreHandle,
         IsConnected, AssertConnected, Send, Receive, ConnectionLost, PollInterrupted,
         Connect, Reconnected, Return, Goto, At, Abort, threadVars, ClientInv, TypeOK
    <3>2. claimed[client[t]] \subseteq claimed'[client[t]]
      <4>1. claimed' = claimed \/ StoreId(u)
        BY <2>2 DEF Call, Step, Lookup, LastIdx, StoreHandle, IsConnected, AssertConnected,
           Send, Receive, ConnectionLost, PollInterrupted, Connect, Reconnected, Abort, tableVars
      <4>2. CASE claimed' = [claimed EXCEPT ![scan[u]] = @ \cup {u}]
        <5>1. claimed \in [Slots -> SUBSET Thread] /\ client[t] \in Slots
          BY <1>2, <3>1 DEF ClientInv, TypeOK
        <5> QED  BY <4>2, <5>1
      <4> QED  BY <4>1, <4>2 DEF StoreId
    <3>3. handle[client[t]] # NULL
      BY <1>2, <3>1, <3>2 DEF AloneIsSafe, At, Alone
    <3>4. u \notin claimed[client[t]]
      BY <2>2, <3>1, <3>2
    <3>5. StoreHandle(u) => scan[u] # client[t]
      BY <1>2, <3>4 DEF StoreHandle, At, ClientInv, ClaimedBy
    <3>6. Connect(u) => client[u] # client[t]
      BY <1>2, <3>4 DEF Connect, At, ClientInv, ClaimedBy
    <3>7. handle'[client[t]] = handle[client[t]]
      BY <1>2, <2>2, <3>1, <3>5, <3>6 DEF Call, Step, Lookup, LastIdx, StoreId, StoreHandle,
         IsConnected, AssertConnected, Send, Receive, ConnectionLost, PollInterrupted,
         Connect, Reconnected, Abort, tableVars, ClientInv, TypeOK
    <3> QED  BY <3>1, <3>3, <3>7
  <2>3. CASE IsConnected(t)
    BY <1>2, <2>3 DEF IsConnected, Goto, tableVars, ClientInv, TypeOK
  <2>4. CASE AssertConnected(t)
    <3>1. ~Abort("not_connected")
      BY ClientAssumption DEF Abort
    <3> QED  BY <2>4, <3>1 DEF AssertConnected, tableVars
  <2>5. CASE Reconnected(t)
    BY <1>2, <2>5 DEF Reconnected, Return, Goto, tableVars, ClientInv, TypeOK
  <2>6. CASE \E f \in Fd : Lose(f)
    BY <1>2, <2>6 DEF Lose, tableVars, threadVars, AloneIsSafe, At, Alone
  <2>7. ASSUME Call(t) \/ Lookup(t) \/ LastIdx(t) \/ StoreId(t) \/ StoreHandle(t) \/ Receive(t)
               \/ Send(t) \/ ConnectionLost(t) \/ PollInterrupted(t) \/ Connect(t)
        PROVE  FALSE
    <3>1. pc'[t] \notin {"assert", "send"} \/ failure' # NULL
      BY <1>2, <2>7, ClientAssumption DEF Call, Lookup, LastIdx, StoreId, StoreHandle, Receive,
         Send, ConnectionLost, PollInterrupted, Connect, Disconnected, Return, Goto, At, Abort,
         ClientInv, TypeOK
    <3> QED  BY <3>1
  <2> QED  BY <1>2, <2>1, <2>2, <2>3, <2>4, <2>5, <2>6, <2>7 DEF Next, Step, Ended
<1> QED  BY <1>1, <1>2, ClientInvariant, PTL DEF Spec

-----------------------------------------------------------------------------
(* A descriptor that has lost its connection holds no reply. *)

LostSilent == \A f \in lost : replies[f] = <<>>

LEMMA InitLostSilent == Init => LostSilent
BY DEF Init, LostSilent

LEMMA StepLostSilent == ClientInv /\ LostSilent /\ [Next]_vars => LostSilent'
<1> SUFFICES ASSUME ClientInv, LostSilent, [Next]_vars PROVE LostSilent'
  OBVIOUS
<1>1. CASE UNCHANGED <<replies, lost>>
  BY <1>1 DEF LostSilent
<1>2. ASSUME NEW t \in Thread, Send(t) PROVE LostSilent'
  <2>1. CASE replies' = replies
    BY <1>2, <2>1 DEF LostSilent, Send, Abort, channelVars
  <2>2. CASE lost' = lost /\ \E f \in Fd \ lost : \E q : replies' = [replies EXCEPT ![f] = q]
    BY <2>2 DEF LostSilent, ClientInv, TypeOK
  <2> QED  BY <1>2, <2>1, <2>2 DEF Send, Abort, channelVars, ClientInv, TypeOK
<1>3. ASSUME NEW t \in Thread, Receive(t) PROVE LostSilent'
  BY <1>3 DEF Receive, LostSilent, ClientInv, TypeOK
<1>4. ASSUME NEW f \in Fd, Lose(f) PROVE LostSilent'
  BY <1>4 DEF Lose, LostSilent, ClientInv, TypeOK
<1> QED  BY <1>1, <1>2, <1>3, <1>4 DEF Next, vars, Step, Call, Lookup, LastIdx, StoreId,
             StoreHandle, IsConnected, AssertConnected, ConnectionLost, PollInterrupted,
             Connect, Reconnected, Ended, Abort, channelVars

(* In a stranded client a request finds its connection ended, a wait finds no *)
(* reply, and a reconnection finds no descriptor.                             *)
LEMMA StrandedStep ==
    ASSUME ClientInv, LostSilent, [Next]_vars, Stranded
    PROVE  Stranded' /\ \A t \in Thread : result'[t] \in {result[t], "DISCONNECT"}
<1>1. CASE UNCHANGED vars
  BY <1>1 DEF vars, threadVars, channelVars, Stranded
<1>2. ASSUME NEW f \in Fd, Lose(f)
      PROVE  FALSE
  BY <1>2 DEF Lose, Stranded
<1>3. ASSUME NEW u \in Thread, Call(u) \/ Step(u) \/ PollInterrupted(u)
      PROVE  Stranded' /\ \A t \in Thread : result'[t] \in {result[t], "DISCONNECT"}
  <2>1. ~Receive(u)
    BY DEF Receive, At, Stranded, LostSilent, ClientInv, ClaimedBy
  <2>2. open' = open /\ lost' = lost
    BY <1>3, <2>1 DEF Step, Call, Lookup, LastIdx, StoreId, StoreHandle, IsConnected,
       AssertConnected, Send, ConnectionLost, PollInterrupted, Connect, Reconnected, Abort,
       channelVars, Stranded
  <2>3. CASE Send(u)
    <3>1. handle[client[u]] # NULL => handle[client[u]] \in lost
      BY DEF Stranded, ClientInv, TypeOK
    <3>2. result' = result \/ Disconnected(u)
      BY <2>3, <3>1 DEF Send, Abort, threadVars
    <3> QED  BY <2>2, <3>2 DEF Disconnected, Return, Stranded, ClientInv, TypeOK
  <2>4. CASE Call(u) \/ ConnectionLost(u) \/ PollInterrupted(u) \/ Reconnected(u)
    BY <2>2, <2>4 DEF Call, ConnectionLost, PollInterrupted, Reconnected, Disconnected, Return,
       Stranded, ClientInv, TypeOK
  <2>5. CASE Lookup(u) \/ LastIdx(u) \/ StoreId(u) \/ StoreHandle(u) \/ IsConnected(u)
             \/ AssertConnected(u) \/ Connect(u)
    BY <2>2, <2>5 DEF Lookup, LastIdx, StoreId, StoreHandle, IsConnected, AssertConnected,
       Connect, Abort, threadVars, Stranded, ClientInv, TypeOK
  <2> QED  BY <1>3, <2>1, <2>3, <2>4, <2>5 DEF Step
<1> QED  BY <1>1, <1>2, <1>3 DEF Next, Ended

(* For any number of descriptors: once each was opened and has lost its       *)
(* connection, every call returns DISCONNECT for as long as the program runs. *)
THEOREM StrandedStays == Spec => StrandedForever
<1> DEFINE Stays == Stranded => /\ Stranded'
                                /\ \A t \in Thread : result'[t] \in {result[t], "DISCONNECT"}
<1>1. ClientInv /\ LostSilent /\ [Next]_vars => Stays
  BY StrandedStep
<1>2. Spec => [][Stays]_vars
  <2> HIDE DEF Stays
  <2> QED  BY <1>1, ClientInvariant, InitLostSilent, StepLostSilent, PTL DEF Spec
<1> QED  BY <1>2 DEF StrandedForever

-----------------------------------------------------------------------------
(* A thread that is alone in its slot gets the answer to its own request. *)

Later == {"connected", "assert", "send", "receive", "connect", "connecting"}

(* A slot that one thread claimed, and no other, is still that thread's: it   *)
(* carries its id, and what the thread works on is this slot.                 *)
Owned ==
    \A s \in Slots, t \in Thread : claimed[s] = {t} =>
        /\ id[s] = t
        /\ pc[t] = "handle" => scan[t] = s
        /\ pc[t] \in Later => client[t] = s

(* A descriptor is opened for one slot, once: handles are distinct, and a     *)
(* thread waits on a descriptor of the slot it works on.                      *)
Opened ==
    /\ \A s \in Slots : handle[s] # NULL => handle[s] \in open
    /\ \A s, r \in Slots : (handle[s] # NULL /\ handle[s] = handle[r]) => s = r
    /\ \A s \in Slots : claimed[s] = {} => handle[s] = NULL
    /\ \A f \in Fd \ open : replies[f] = <<>>
    /\ \A t \in Thread : pc[t] = "receive" =>
          /\ used[t] \in open
          /\ \A s \in Slots : handle[s] = used[t] => s = client[t]
          /\ Alone(t) => handle[client[t]] = used[t]

(* The replies on the descriptor of a slot that is t's alone: the one t waits *)
(* for, and no other.                                                         *)
Outstanding(s, t) ==
    replies[handle[s]] = IF pc[t] = "receive" /\ used[t] = handle[s]
                         THEN <<[to |-> t, code |-> granted[t]]>> ELSE <<>>

AnswersInv ==
    \A s \in Slots, t \in Thread :
        (claimed[s] = {t} /\ handle[s] # NULL /\ handle[s] \notin lost \cup interrupted) =>
            Outstanding(s, t)

ReplyInv == Owned /\ Opened /\ AnswersInv

LEMMA InitReplyInv == Init => ReplyInv
BY DEF Init, ReplyInv, Owned, Opened, AnswersInv, Outstanding, Alone, Later

(* Where a thread goes in one step: what the other threads did not change.    *)
LEMMA OneThreadMoves ==
    ASSUME ClientInv, NEW u \in Thread, Call(u) \/ Step(u) \/ PollInterrupted(u)
    PROVE  \A t \in Thread \ {u} :
              /\ pc'[t] = pc[t] /\ scan'[t] = scan[t] /\ client'[t] = client[t]
              /\ used'[t] = used[t] /\ granted'[t] = granted[t]
BY DisconnectedStep DEF Call, Step, Lookup, LastIdx, StoreId, StoreHandle,
   IsConnected, AssertConnected, Send, Receive, ConnectionLost, PollInterrupted,
   Connect, Reconnected, Return, Goto, At, Abort, threadVars, channelVars, ClientInv, TypeOK

LEMMA StepOwned ==
    ASSUME ClientInv, Owned, NEW u \in Thread, Call(u) \/ Step(u) \/ PollInterrupted(u)
    PROVE  Owned'
<1> SUFFICES ASSUME NEW s \in Slots, NEW t \in Thread, claimed'[s] = {t}
             PROVE  /\ id'[s] = t
                    /\ pc'[t] = "handle" => scan'[t] = s
                    /\ pc'[t] \in Later => client'[t] = s
  BY DEF Owned
<1>1. CASE StoreId(u)
  <2>1. /\ pc[u] = "id" /\ scan[u] \in Slots /\ \A r \in Slots : id[r] # u
        /\ id' = [id EXCEPT ![scan[u]] = u]
        /\ claimed' = [claimed EXCEPT ![scan[u]] = @ \cup {u}]
        /\ pc' = [pc EXCEPT ![u] = "handle"]
        /\ UNCHANGED <<scan, client>>
    BY <1>1 DEF StoreId, At, Goto, ClientInv, ScannedBy
  <2>2. CASE s = scan[u]
    <3>1. u = t /\ id'[s] = t
      BY <2>1, <2>2 DEF ClientInv, TypeOK
    <3> QED  BY <2>1, <2>2, <3>1 DEF ClientInv, TypeOK, Later
  <2>3. CASE s # scan[u]
    <3>1. claimed[s] = {t} /\ id'[s] = id[s]
      BY <2>1, <2>3 DEF ClientInv, TypeOK
    <3>2. id[s] = t /\ t # u
      BY <2>1, <3>1 DEF Owned
    <3> QED  BY <2>1, <3>1, <3>2 DEF Owned, ClientInv, TypeOK
  <2> QED  BY <2>2, <2>3
<1>2. CASE ~StoreId(u)
  <2>1. id' = id /\ claimed' = claimed
    BY <1>2 DEF Call, Step, Lookup, LastIdx, StoreHandle, IsConnected, AssertConnected,
       Send, Receive, ConnectionLost, PollInterrupted, Connect, Reconnected, Abort, tableVars
  <2>2. claimed[s] = {t} /\ id[s] = t
    BY <2>1 DEF Owned
  <2>3. CASE t # u
    BY <2>1, <2>2, <2>3, OneThreadMoves DEF Owned
  <2>4. CASE t = u /\ Lookup(u)
    <3>1. pc'[u] \in Later => id[client'[u]] = u /\ client'[u] \in Slots
      BY <2>4, SlotBounds DEF Lookup, At, Goto, EndOfTable, ClientInv, TypeOK, Later
    <3>2. pc'[u] # "handle"
      BY <2>4 DEF Lookup, At, Goto, ClientInv, TypeOK
    <3> QED  BY <2>1, <2>2, <2>4, <3>1, <3>2, ClientAssumption DEF ClientInv, Findable
  <2>5. CASE t = u /\ StoreHandle(u)
    <3>1. pc[u] = "handle" /\ pc'[u] = "connected" /\ client'[u] = scan[u]
      BY <2>5 DEF StoreHandle, At, Goto, ClientInv, TypeOK
    <3> QED  BY <2>1, <2>2, <2>5, <3>1 DEF Owned
  <2>6. CASE t = u /\ (Call(u) \/ LastIdx(u) \/ Receive(u))
    <3>1. pc'[u] \notin Later \cup {"handle"}
      BY <2>6 DEF Call, LastIdx, Receive, Return, At, Goto, Abort, threadVars, ClientInv, TypeOK,
         Later
    <3> QED  BY <2>1, <2>2, <2>6, <3>1
  <2>7. CASE t = u /\ pc[u] \in Later /\ client' = client /\ scan' = scan
             /\ pc'[u] # "handle"
    BY <2>1, <2>2, <2>7 DEF Owned
  <2>8. (IsConnected(u) \/ AssertConnected(u) \/ Send(u) \/ ConnectionLost(u)
           \/ PollInterrupted(u) \/ Connect(u) \/ Reconnected(u))
        => pc[u] \in Later /\ client' = client /\ scan' = scan /\ pc'[u] # "handle"
    BY DisconnectedStep DEF IsConnected, AssertConnected, Send, ConnectionLost, PollInterrupted,
       Connect, Reconnected, Return, At, Goto, Abort, threadVars, ClientInv, TypeOK, Later
  <2> QED  BY <1>2, <2>3, <2>4, <2>5, <2>6, <2>7, <2>8 DEF Step
<1> QED  BY <1>1, <1>2

(* Only StoreHandle and Connect write a handle, and only StoreId a claim.     *)
LEMMA HandleKept ==
    ASSUME NEW u \in Thread, Call(u) \/ Step(u) \/ PollInterrupted(u)
    PROVE  /\ handle' = handle \/ StoreHandle(u) \/ Connect(u)
           /\ claimed' = claimed \/ StoreId(u)
           /\ open' = open \/ Connect(u)
           /\ replies' = replies \/ Send(u) \/ Receive(u)
           /\ interrupted' = interrupted \/ PollInterrupted(u)
           /\ lost' = lost
BY DEF Call, Step, Lookup, LastIdx, StoreId, StoreHandle, IsConnected, AssertConnected,
   Send, Receive, ConnectionLost, PollInterrupted, Connect, Reconnected, Abort, tableVars,
   channelVars

(* A connection takes a descriptor nothing refers to. *)
LEMMA ConnectOpened ==
    ASSUME ClientInv, Opened, NEW u \in Thread, Connect(u)
    PROVE  Opened'
<1>1. /\ pc[u] = "connect" /\ pc' = [pc EXCEPT ![u] = "connecting"]
      /\ UNCHANGED <<claimed, client, used, replies>>
      /\ client[u] \in Slots /\ u \in claimed[client[u]]
  BY DEF Connect, At, Goto, ClientInv, TypeOK, ClaimedBy
<1>2. PICK h \in Fd \cup {NULL} :
         /\ handle' = [handle EXCEPT ![client[u]] = h]
         /\ h # NULL => h \notin open
         /\ open' = open \cup ({h} \ {NULL})
  BY ClientAssumption DEF Connect
<1>3. \A s \in Slots : handle'[s] = IF s = client[u] THEN h ELSE handle[s]
  BY <1>1, <1>2 DEF ClientInv, TypeOK
<1>4. /\ \A s \in Slots : handle'[s] # NULL => handle'[s] \in open'
      /\ \A s, r \in Slots : (handle'[s] # NULL /\ handle'[s] = handle'[r]) => s = r
      /\ \A s \in Slots : claimed'[s] = {} => handle'[s] = NULL
      /\ \A f \in Fd \ open' : replies'[f] = <<>>
  BY <1>1, <1>2, <1>3 DEF Opened
<1>5. ASSUME NEW t \in Thread, pc'[t] = "receive"
      PROVE  /\ used'[t] \in open'
             /\ \A s \in Slots : handle'[s] = used'[t] => s = client'[t]
             /\ Alone(t)' => handle'[client'[t]] = used'[t]
  <2>1. t # u /\ pc[t] = "receive"
    BY <1>1, <1>5 DEF ClientInv, TypeOK
  <2>2. used[t] \in open /\ used[t] # NULL /\ client[t] \in Slots
    BY <2>1, ClientAssumption DEF Opened, ClientInv, TypeOK
  <2>3. \A s \in Slots : handle'[s] = used[t] => s = client[t]
    BY <1>2, <1>3, <2>1, <2>2 DEF Opened
  <2>4. Alone(t) => client[t] # client[u]
    BY <1>1, <2>1 DEF Alone
  <2> QED  BY <1>1, <1>2, <1>3, <2>1, <2>2, <2>3, <2>4 DEF Opened, Alone
<1> QED  BY <1>4, <1>5 DEF Opened

LEMMA StoreHandleOpened ==
    ASSUME ClientInv, Opened, NEW u \in Thread, StoreHandle(u)
    PROVE  Opened'
<1>1. /\ pc[u] = "handle" /\ pc' = [pc EXCEPT ![u] = "connected"]
      /\ UNCHANGED <<claimed, used, replies, open>>
      /\ scan[u] \in Slots /\ u \in claimed[scan[u]]
      /\ client' = [client EXCEPT ![u] = scan[u]]
  BY DEF StoreHandle, At, Goto, channelVars, ClientInv, ScannedBy, ClaimedBy
<1>2. \A s \in Slots : handle'[s] = IF s = scan[u] THEN NULL ELSE handle[s]
  BY <1>1 DEF StoreHandle, ClientInv, TypeOK
<1>3. ASSUME NEW t \in Thread, pc'[t] = "receive"
      PROVE  /\ used'[t] \in open'
             /\ \A s \in Slots : handle'[s] = used'[t] => s = client'[t]
             /\ Alone(t)' => handle'[client'[t]] = used'[t]
  <2>1. t # u /\ pc[t] = "receive" /\ client'[t] = client[t] /\ client[t] \in Slots
    BY <1>1, <1>3 DEF ClientInv, TypeOK
  <2>2. used[t] \in open /\ used[t] # NULL
    BY <2>1, ClientAssumption DEF Opened, ClientInv, TypeOK
  <2>3. Alone(t) => client[t] # scan[u]
    BY <1>1, <2>1 DEF Alone
  <2> QED  BY <1>1, <1>2, <2>1, <2>2, <2>3 DEF Opened, Alone
<1> QED  BY <1>1, <1>2, <1>3 DEF Opened

LEMMA SendOpened ==
    ASSUME ClientInv, Opened, NEW u \in Thread, Send(u)
    PROVE  Opened'
<1> DEFINE h == handle[client[u]]
<1>1. /\ UNCHANGED <<handle, claimed, client, open>>
      /\ client[u] \in Slots /\ h \in Fd \cup {NULL}
  BY DEF Send, Abort, tableVars, threadVars, channelVars, ClientInv, TypeOK
<1>2. CASE pc'[u] = "receive" /\ replies' # replies
  <2>1. /\ h # NULL /\ h \in open /\ used'[u] = h
        /\ \A f \in Fd \ {h} : replies'[f] = replies[f]
    BY <1>1, <1>2 DEF Send, Abort, Disconnected, Return, Goto, channelVars, threadVars, Opened, ClientInv, TypeOK
  <2>2. \A t \in Thread \ {u} : pc'[t] = pc[t] /\ used'[t] = used[t]
    BY OneThreadMoves DEF Step
  <2>3. \A s \in Slots : handle[s] = h => s = client[u]
    BY <1>1, <2>1 DEF Opened
  <2> QED  BY <1>1, <2>1, <2>2, <2>3 DEF Opened, Alone
<1>3. CASE replies' = replies /\ (pc'[u] # "receive" \/ UNCHANGED <<pc, used>>)
  <2>1. \A t \in Thread \ {u} : pc'[t] = pc[t] /\ used'[t] = used[t]
    BY OneThreadMoves DEF Step
  <2> QED  BY <1>1, <1>3, <2>1 DEF Opened, Alone
<1>4. (pc'[u] = "receive" /\ replies' # replies)
      \/ (replies' = replies /\ (pc'[u] # "receive" \/ UNCHANGED <<pc, used>>))
  BY DEF Send, At, Abort, Disconnected, Return, Goto, channelVars, threadVars, ClientInv, TypeOK
<1> QED  BY <1>2, <1>3, <1>4

LEMMA ReceiveOpened ==
    ASSUME ClientInv, Opened, NEW u \in Thread, Receive(u)
    PROVE  Opened'
<1>1. /\ UNCHANGED <<handle, claimed, client, open>>
      /\ pc[u] = "receive" /\ pc'[u] # "receive"
      /\ \A f \in Fd \ {used[u]} : replies'[f] = replies[f]
  BY DEF Receive, At, Return, Goto, tableVars, ClientInv, TypeOK
<1>2. used[u] \in open
  BY <1>1 DEF Opened
<1>3. \A t \in Thread \ {u} : pc'[t] = pc[t] /\ used'[t] = used[t]
  BY OneThreadMoves DEF Step
<1> QED  BY <1>1, <1>2, <1>3 DEF Opened, Alone

LEMMA StoreIdOpened ==
    ASSUME ClientInv, Opened, NEW u \in Thread, StoreId(u)
    PROVE  Opened'
<1>1. /\ UNCHANGED <<handle, client, open, used, replies>>
      /\ pc' = [pc EXCEPT ![u] = "handle"]
      /\ \A s \in Slots : claimed[s] \subseteq claimed'[s]
  BY DEF StoreId, Goto, channelVars, ClientInv, TypeOK
<1>2. \A t \in Thread : pc'[t] = "receive" => pc[t] = "receive" /\ client[t] \in Slots
  BY <1>1 DEF ClientInv, TypeOK
<1> QED  BY <1>1, <1>2 DEF Opened, Alone

LEMMA StepOpened ==
    ASSUME ClientInv, Opened, NEW u \in Thread, Call(u) \/ Step(u) \/ PollInterrupted(u)
    PROVE  Opened'
<1>1. CASE ~(Connect(u) \/ StoreHandle(u) \/ Send(u) \/ Receive(u) \/ StoreId(u))
  <2>1. UNCHANGED <<handle, claimed, open, replies>>
    BY <1>1, HandleKept
  <2>2. pc'[u] = "receive" => pc[u] = "receive" /\ used'[u] = used[u] /\ client'[u] = client[u]
    BY <1>1, DisconnectedStep DEF Call, Step, Lookup, LastIdx, IsConnected, AssertConnected,
       ConnectionLost, PollInterrupted, Reconnected, Return, Goto, At, Abort, threadVars,
       ClientInv, TypeOK
  <2> QED  BY <2>1, <2>2, OneThreadMoves DEF Opened, Alone
<1> QED  BY <1>1, ConnectOpened, StoreHandleOpened, SendOpened, ReceiveOpened, StoreIdOpened

(* What another thread does never reaches a slot that is t's alone. *)
LEMMA OthersAnswers ==
    ASSUME ClientInv, ReplyInv, NEW u \in Thread, Call(u) \/ Step(u) \/ PollInterrupted(u),
           NEW s \in Slots, NEW t \in Thread \ {u}, claimed'[s] = {t},
           handle'[s] # NULL, handle'[s] \notin lost' \cup interrupted'
    PROVE  Outstanding(s, t)'
<1>1. claimed[s] = {t}
  <2>1. CASE StoreId(u)
    <3>1. scan[u] \in Slots /\ claimed' = [claimed EXCEPT ![scan[u]] = @ \cup {u}]
      BY <2>1 DEF StoreId, At, ClientInv, ScannedBy
    <3> QED  BY <3>1 DEF ClientInv, TypeOK
  <2> QED  BY <2>1, HandleKept
<1>2. handle'[s] = handle[s]
  <2>1. StoreHandle(u) => scan[u] # s
    BY <1>1 DEF StoreHandle, At, ClientInv, ClaimedBy
  <2>2. Connect(u) => client[u] # s
    BY <1>1 DEF Connect, At, ClientInv, ClaimedBy
  <2> QED  BY <2>1, <2>2, HandleKept DEF StoreHandle, Connect, ClientInv, TypeOK
<1>3. handle[s] \notin lost \cup interrupted
  BY <1>2, HandleKept DEF PollInterrupted
<1>4. Outstanding(s, t)
  BY <1>1, <1>2, <1>3 DEF ReplyInv, AnswersInv
<1>5. replies'[handle[s]] = replies[handle[s]]
  <2>1. CASE Send(u)
    <3>1. client[u] # s /\ client[u] \in Slots
      BY <1>1, <2>1 DEF Send, At, ClientInv, TypeOK, ClaimedBy
    <3>2. handle[client[u]] # handle[s] /\ handle[s] \in Fd
      BY <1>2, <3>1 DEF ReplyInv, Opened, ClientInv, TypeOK
    <3> QED  BY <2>1, <3>2 DEF Send, Abort, channelVars, ClientInv, TypeOK
  <2>2. CASE Receive(u)
    <3>1. client[u] # s /\ pc[u] = "receive"
      BY <1>1, <2>2 DEF Receive, At, ClientInv, ClaimedBy
    <3>2. used[u] # handle[s]
      BY <3>1 DEF ReplyInv, Opened
    <3> QED  BY <2>2, <3>2 DEF Receive, ClientInv, TypeOK
  <2> QED  BY <2>1, <2>2, HandleKept
<1> QED  BY <1>2, <1>4, <1>5, OneThreadMoves DEF Outstanding

(* One request at a time: t sends on a silent descriptor and takes its answer *)
(* before it sends again.                                                     *)
LEMMA OwnAnswers ==
    ASSUME ClientInv, ReplyInv, NEW t \in Thread, Call(t) \/ Step(t) \/ PollInterrupted(t),
           NEW s \in Slots, claimed'[s] = {t},
           handle'[s] # NULL, handle'[s] \notin lost' \cup interrupted'
    PROVE  Outstanding(s, t)'
<1>1. CASE StoreId(t)
  <2>1. /\ \A r \in Slots : id[r] # t
        /\ scan[t] \in Slots /\ claimed' = [claimed EXCEPT ![scan[t]] = @ \cup {t}]
        /\ handle' = handle
    BY <1>1 DEF StoreId, At, ClientInv, ScannedBy
  <2>2. claimed[s] # {t}
    BY <2>1 DEF ReplyInv, Owned
  <2>3. claimed[s] = {}
    BY <2>1, <2>2 DEF ClientInv, TypeOK
  <2> QED  BY <2>1, <2>3 DEF ReplyInv, Opened
<1>2. CASE ~StoreId(t)
  <2>1. claimed[s] = {t}
    BY <1>2, HandleKept
  <2>2. pc[t] \in Later => client[t] = s
    BY <2>1 DEF ReplyInv, Owned
  <2>3. CASE Connect(t)
    <3>1. pc[t] = "connect" /\ pc'[t] = "connecting" /\ replies' = replies /\ client[t] = s
      BY <2>2, <2>3 DEF Connect, At, Goto, ClientInv, TypeOK, Later
    <3>2. handle'[s] \in Fd \ open
      BY <2>3, <3>1 DEF Connect, ClientInv, TypeOK
    <3> QED  BY <3>1, <3>2 DEF Outstanding, ReplyInv, Opened
  <2>4. CASE StoreHandle(t)
    BY <2>1, <2>4 DEF StoreHandle, At, ReplyInv, Owned, ClientInv, TypeOK
  <2>5. CASE Send(t)
    <3>1. pc[t] = "send" /\ client[t] = s /\ handle' = handle /\ handle[s] \in Fd
          /\ lost' = lost /\ interrupted' = interrupted
      BY <2>2, <2>5 DEF Send, At, Abort, tableVars, channelVars, ClientInv, TypeOK, Later
    <3>2. replies[handle[s]] = <<>>
      BY <2>1, <3>1 DEF ReplyInv, AnswersInv, Outstanding
    <3>3. PICK code \in {"FLOWS_ACCEPT", "FLOWS_REJECTION"} :
             /\ replies' = [replies EXCEPT ![handle[s]] = Append(@, [to |-> t, code |-> code])]
             /\ granted' = [granted EXCEPT ![t] = code]
             /\ used' = [used EXCEPT ![t] = handle[s]]
             /\ pc' = [pc EXCEPT ![t] = "receive"]
      BY <2>5, <3>1, ClientAssumption DEF Send, Goto
    <3>4. replies'[handle[s]] = Append(<<>>, [to |-> t, code |-> code])
      BY <3>1, <3>2, <3>3 DEF ClientInv, TypeOK
    <3>5. Append(<<>>, [to |-> t, code |-> code]) = <<[to |-> t, code |-> code]>>
      OBVIOUS
    <3>6. pc'[t] = "receive" /\ used'[t] = handle[s] /\ granted'[t] = code
      BY <3>3 DEF ClientInv, TypeOK
    <3> QED  BY <3>1, <3>4, <3>5, <3>6 DEF Outstanding
  <2>6. CASE pc[t] = "receive" /\ ~StoreHandle(t) /\ ~Connect(t)
    <3>1. client[t] = s /\ used[t] = handle[s] /\ handle' = handle
      BY <2>1, <2>2, <2>6, HandleKept DEF Later, ReplyInv, Opened, Alone
    <3>2. handle[s] \notin lost \cup interrupted
      BY <3>1, HandleKept DEF PollInterrupted
    <3>3. replies[handle[s]] = <<[to |-> t, code |-> granted[t]]>>
      BY <2>1, <2>6, <3>1, <3>2 DEF ReplyInv, AnswersInv, Outstanding
    <3>4. Receive(t)
      BY <2>6, <3>1, <3>2 DEF Call, Step, Lookup, LastIdx, StoreId, StoreHandle, IsConnected,
         AssertConnected, Send, ConnectionLost, PollInterrupted, Connect, Reconnected, At
    <3>5. pc'[t] = "idle" /\ replies'[handle[s]] = Tail(replies[handle[s]])
      BY <3>1, <3>4 DEF Receive, Return, Goto, ClientInv, TypeOK, ClaimedBy, At
    <3>6. Tail(<<[to |-> t, code |-> granted[t]]>>) = <<>>
      OBVIOUS
    <3> QED  BY <3>1, <3>3, <3>5, <3>6 DEF Outstanding
  <2>7. CASE pc[t] # "receive" /\ ~StoreHandle(t) /\ ~Connect(t) /\ ~Send(t)
    <3>1. UNCHANGED <<handle, replies>> /\ lost' = lost /\ interrupted \subseteq interrupted'
      BY <2>7, HandleKept DEF Receive, At, PollInterrupted
    <3>2. replies[handle[s]] = <<>>
      BY <2>1, <2>7, <3>1 DEF ReplyInv, AnswersInv, Outstanding
    <3>3. pc'[t] # "receive"
      BY <2>7 DEF Call, Step, Lookup, LastIdx, StoreId, IsConnected,
         AssertConnected, Receive, ConnectionLost, PollInterrupted, Reconnected, Return, Goto, At,
         Abort, threadVars, ClientInv, TypeOK
    <3> QED  BY <3>1, <3>2, <3>3 DEF Outstanding
  <2> QED  BY <2>3, <2>4, <2>5, <2>6, <2>7
<1> QED  BY <1>1, <1>2

LEMMA StepReplyInv == ClientInv /\ ReplyInv /\ [Next]_vars => ReplyInv'
<1> SUFFICES ASSUME ClientInv, ReplyInv, [Next]_vars PROVE ReplyInv'
  OBVIOUS
<1>1. ASSUME NEW u \in Thread, Call(u) \/ Step(u) \/ PollInterrupted(u)
      PROVE  ReplyInv'
  <2>1. Owned' /\ Opened'
    BY <1>1, StepOwned, StepOpened DEF ReplyInv
  <2>2. AnswersInv'
    BY <1>1, OthersAnswers, OwnAnswers DEF AnswersInv
  <2> QED  BY <2>1, <2>2 DEF ReplyInv
<1>2. ASSUME NEW f \in Fd, Lose(f) PROVE ReplyInv'
  <2>1. /\ UNCHANGED <<tableVars, threadVars, open, granted, interrupted>>
        /\ lost' = lost \cup {f}
        /\ \A g \in Fd : g # f => replies'[g] = replies[g]
        /\ \A g \in Fd \ open : replies'[g] = replies[g]
    BY <1>2 DEF Lose, ClientInv, TypeOK
  <2>2. Owned' /\ Opened'
    BY <2>1 DEF tableVars, threadVars, ReplyInv, Owned, Opened, Alone
  <2>3. AnswersInv'
    BY <2>1 DEF tableVars, threadVars, ReplyInv, AnswersInv, Outstanding, ClientInv, TypeOK
  <2> QED  BY <2>2, <2>3 DEF ReplyInv
<1>3. CASE UNCHANGED vars
  BY <1>3 DEF vars, tableVars, threadVars, channelVars, ReplyInv, Owned, Opened, AnswersInv,
     Outstanding, Alone
<1> QED  BY <1>1, <1>2, <1>3 DEF Next, Ended

(* A thread that shares its slot with no other, on a descriptor where no wait *)
(* was given up, reads the answer to its own request, however the other       *)
(* threads race.                                                              *)
THEOREM RepliesOwn == Spec => []OwnReply
<1>1. ClientInv /\ ReplyInv => OwnReply
  <2> SUFFICES ASSUME ClientInv, ReplyInv, NEW t \in Thread, At(t, "receive"), Alone(t),
                      used[t] \notin interrupted, used[t] \notin lost
               PROVE  replies[used[t]] = <<[to |-> t, code |-> granted[t]]>>
    BY DEF OwnReply
  <2>1. client[t] \in Slots /\ claimed[client[t]] = {t}
    BY DEF At, Alone, ClientInv, TypeOK, ClaimedBy
  <2>2. handle[client[t]] = used[t] /\ used[t] # NULL
    BY ClientAssumption DEF At, ReplyInv, Opened, ClientInv, ClaimedBy
  <2> QED  BY <2>1, <2>2 DEF At, ReplyInv, AnswersInv, Outstanding
<1> QED  BY <1>1, ClientInvariant, InitReplyInv, StepReplyInv, PTL DEF Spec

-----------------------------------------------------------------------------

(* The threads that wait on a descriptor. *)
Waiting(f) == {t \in Thread : pc[t] = "receive" /\ used[t] = f}

(* Every thread that waits has put a reply on its descriptor and taken none.  *)
EnoughReplies == \A f \in Fd \ lost : Cardinality(Waiting(f)) <= Len(replies[f])

LEMMA WaitingFinite ==
    ASSUME NEW S \in SUBSET Thread
    PROVE  IsFiniteSet(S) /\ Cardinality(S) \in Nat
BY ClientAssumption, FS_Subset, FS_CardinalityType

LEMMA InitEnough == Init => EnoughReplies
<1> SUFFICES ASSUME Init, NEW f \in Fd PROVE Cardinality(Waiting(f)) <= Len(replies[f])
  BY DEF EnoughReplies
<1>1. Waiting(f) = {} /\ replies[f] = <<>>
  BY DEF Init, Waiting
<1>2. Cardinality({}) = 0 /\ Len(<<>>) = 0
  BY FS_EmptySet
<1> QED  BY <1>1, <1>2

(* A request adds a thread that waits and a reply, a reply that is read takes *)
(* one of each away, and a wait that gives up takes only the thread.          *)
LEMMA StepEnough ==
    ASSUME ClientInv, EnoughReplies, NEW u \in Thread, Call(u) \/ Step(u) \/ PollInterrupted(u)
    PROVE  EnoughReplies'
<1> SUFFICES ASSUME NEW f \in Fd \ lost PROVE Cardinality(Waiting(f)') <= Len(replies'[f])
  BY HandleKept DEF EnoughReplies
<1> DEFINE W == Waiting(f)
           V == Waiting(f)'
<1>1. /\ W \in SUBSET Thread /\ V \in SUBSET Thread
      /\ replies[f] \in Seq(Reply) /\ Cardinality(W) <= Len(replies[f])
      /\ \A t \in Thread \ {u} : t \in V <=> t \in W
  <2>1. W \in SUBSET Thread /\ V \in SUBSET Thread
    BY DEF Waiting
  <2>2. replies[f] \in Seq(Reply) /\ Cardinality(W) <= Len(replies[f])
    BY DEF EnoughReplies, ClientInv, TypeOK
  <2>3. \A t \in Thread \ {u} : t \in V <=> t \in W
    BY OneThreadMoves DEF Waiting
  <2> QED  BY <2>1, <2>2, <2>3
<1>2. IsFiniteSet(W) /\ Cardinality(W) \in Nat /\ Cardinality(V) \in Nat
  BY <1>1, WaitingFinite
<1>3. Len(replies[f]) \in Nat
  BY <1>1
<1>4. CASE Send(u) /\ replies' # replies
  <2>1. PICK g \in Fd, code \in {"FLOWS_ACCEPT", "FLOWS_REJECTION"} :
           /\ replies' = [replies EXCEPT ![g] = Append(@, [to |-> u, code |-> code])]
           /\ used' = [used EXCEPT ![u] = g]
           /\ pc' = [pc EXCEPT ![u] = "receive"]
           /\ pc[u] = "send"
    BY <1>4 DEF Send, At, Goto, Abort, channelVars, ClientInv, TypeOK
  <2>2. u \notin W /\ (u \in V <=> g = f)
    BY <2>1 DEF Waiting, ClientInv, TypeOK
  <2>3. CASE g = f
    <3>1. V = W \cup {u}
      BY <1>1, <2>2, <2>3
    <3>2. Cardinality(V) = Cardinality(W) + 1
      BY <1>2, <2>2, <3>1, FS_AddElement
    <3>3. replies'[f] = Append(replies[f], [to |-> u, code |-> code])
      BY <2>1, <2>3 DEF ClientInv, TypeOK
    <3>4. Len(replies'[f]) = Len(replies[f]) + 1
      BY <1>1, <3>3
    <3> QED  BY <1>1, <1>2, <1>3, <3>2, <3>4
  <2>4. CASE g # f
    <3>1. V = W
      <4>1. \A t \in Thread : t \in V <=> t \in W
        BY <1>1, <2>2, <2>4
      <4>2. W \in SUBSET Thread /\ V \in SUBSET Thread
        BY <1>1
      <4> HIDE DEF W, V
      <4> QED  BY <4>1, <4>2
    <3>2. replies'[f] = replies[f]
      BY <2>1, <2>4 DEF ClientInv, TypeOK
    <3> QED  BY <1>1, <3>1, <3>2
  <2> QED  BY <2>3, <2>4
<1>5. CASE Receive(u)
  <2>1. /\ pc[u] = "receive" /\ used[u] \in Fd /\ replies[used[u]] # <<>>
        /\ replies' = [replies EXCEPT ![used[u]] = Tail(@)]
        /\ pc' = [pc EXCEPT ![u] = "idle"]
    BY <1>5 DEF Receive, Return, Goto, At, ClientInv, ClaimedBy
  <2>2. u \notin V /\ (u \in W <=> used[u] = f)
    BY <2>1 DEF Waiting, ClientInv, TypeOK
  <2>3. CASE used[u] = f
    <3>1. V = W \ {u} /\ u \in W
      BY <1>1, <2>2, <2>3
    <3>2. Cardinality(V) = Cardinality(W) - 1
      BY <1>2, <3>1, FS_RemoveElement
    <3>3. replies'[f] = Tail(replies[f]) /\ replies[f] # <<>>
      BY <2>1, <2>3 DEF ClientInv, TypeOK
    <3>4. Len(replies'[f]) = Len(replies[f]) - 1
      BY <1>1, <3>3
    <3> QED  BY <1>1, <1>2, <1>3, <3>2, <3>4
  <2>4. CASE used[u] # f
    <3>1. V = W
      <4>1. \A t \in Thread : t \in V <=> t \in W
        BY <1>1, <2>2, <2>4
      <4>2. W \in SUBSET Thread /\ V \in SUBSET Thread
        BY <1>1
      <4> HIDE DEF W, V
      <4> QED  BY <4>1, <4>2
    <3>2. replies'[f] = replies[f]
      BY <2>1, <2>4 DEF ClientInv, TypeOK
    <3> QED  BY <1>1, <3>1, <3>2
  <2> QED  BY <2>3, <2>4
<1>6. CASE replies' = replies /\ ~Receive(u)
  <2>1. pc'[u] = "receive" => pc[u] = "receive" /\ used'[u] = used[u]
    BY <1>6, DisconnectedStep DEF Call, Step, Lookup, LastIdx, StoreId, StoreHandle, IsConnected,
       AssertConnected, Send, ConnectionLost, PollInterrupted, Connect, Reconnected, Return,
       Goto, At, Abort, threadVars, channelVars, ClientInv, TypeOK
  <2>2. V \subseteq W
    BY <1>1, <2>1 DEF Waiting
  <2>3. Cardinality(V) <= Cardinality(W)
    BY <1>2, <2>2, FS_Subset
  <2> QED  BY <1>1, <1>2, <1>3, <1>6, <2>3
<1> QED  BY <1>4, <1>5, <1>6, HandleKept

LEMMA StepEnoughReplies == ClientInv /\ EnoughReplies /\ [Next]_vars => EnoughReplies'
<1> SUFFICES ASSUME ClientInv, EnoughReplies, [Next]_vars PROVE EnoughReplies'
  OBVIOUS
<1>1. ASSUME NEW u \in Thread, Call(u) \/ Step(u) \/ PollInterrupted(u)
      PROVE  EnoughReplies'
  BY <1>1, StepEnough
<1>2. ASSUME NEW g \in Fd, Lose(g) PROVE EnoughReplies'
  <2>1. /\ UNCHANGED threadVars /\ lost' = lost \cup {g}
        /\ \A f \in Fd : f # g => replies'[f] = replies[f]
    BY <1>2 DEF Lose, ClientInv, TypeOK
  <2> QED  BY <2>1 DEF threadVars, EnoughReplies, Waiting
<1>3. CASE UNCHANGED vars
  BY <1>3 DEF vars, threadVars, channelVars, EnoughReplies, Waiting
<1> QED  BY <1>1, <1>2, <1>3 DEF Next, Ended

(* However the threads race for the slots and share their descriptors, none   *)
(* waits where no reply is to be read: CallReturns without its fairness.      *)
THEOREM WaitsAnswered == Spec => []NoWaitInVain
<1>1. ClientInv /\ EnoughReplies => NoWaitInVain
  <2> SUFFICES ASSUME ClientInv, EnoughReplies, NEW t \in Thread, At(t, "receive"),
                      used[t] \notin lost
               PROVE  replies[used[t]] # <<>>
    BY DEF NoWaitInVain
  <2>1. used[t] \in Fd /\ t \in Waiting(used[t]) /\ Waiting(used[t]) \in SUBSET Thread
    BY DEF At, ClientInv, ClaimedBy, Waiting
  <2>2. Cardinality(Waiting(used[t])) # 0 /\ Cardinality(Waiting(used[t])) \in Nat
    BY <2>1, WaitingFinite, FS_EmptySet
  <2>3. Cardinality(Waiting(used[t])) <= Len(replies[used[t]])
    BY <2>1 DEF EnoughReplies
  <2>4. Len(<<>>) = 0
    OBVIOUS
  <2> QED  BY <2>2, <2>3, <2>4
<1> QED  BY <1>1, ClientInvariant, InitEnough, StepEnoughReplies, PTL DEF Spec

-----------------------------------------------------------------------------

(* The steps a thread's call can still take, the longest way: both scans, a   *)
(* request on the connection it finds, and one more on a new connection.      *)
StepsLeft(t) ==
    CASE pc[t] = "idle" -> 0
      [] pc[t] = "receive" -> IF retry[t] THEN 1 ELSE 6
      [] pc[t] = "send" -> IF retry[t] THEN 2 ELSE 7
      [] pc[t] = "assert" -> IF retry[t] THEN 3 ELSE 8
      [] pc[t] = "connecting" -> 4
      [] pc[t] = "connect" -> 5
      [] pc[t] = "connected" -> 9
      [] pc[t] = "handle" -> 10
      [] pc[t] = "id" -> 11
      [] pc[t] = "last" -> 12 + (ACC_CLIENT_MAX_SIZE - scan[t])
      [] pc[t] = "lookup" -> 13 + 2 * ACC_CLIENT_MAX_SIZE - scan[t]

(* What is left of a request and of a connection being made.                  *)
LEMMA RequestSteps ==
    ASSUME NEW t \in Thread
    PROVE  LET Counted ==
                  /\ pc[t] = "idle" => StepsLeft(t) = 0
                  /\ pc[t] = "connecting" => StepsLeft(t) = 4
                  /\ pc[t] = "connect" => StepsLeft(t) = 5
                  /\ retry[t] => /\ pc[t] = "receive" => StepsLeft(t) = 1
                                 /\ pc[t] = "send" => StepsLeft(t) = 2
                                 /\ pc[t] = "assert" => StepsLeft(t) = 3
                  /\ ~retry[t] => /\ pc[t] = "receive" => StepsLeft(t) = 6
                                  /\ pc[t] = "send" => StepsLeft(t) = 7
                                  /\ pc[t] = "assert" => StepsLeft(t) = 8
           IN  Counted /\ Counted'
BY Zenon DEF StepsLeft

LEMMA StepShortens ==
    ASSUME ClientInv, NEW t \in Thread, Step(t) \/ PollInterrupted(t)
    PROVE  StepsLeft(t)' < StepsLeft(t) \/ failure' # NULL
<1>0. ACC_CLIENT_MAX_SIZE \in Nat /\ scan[t] \in 0 .. ACC_CLIENT_MAX_SIZE /\ pc[t] \in Place
      /\ retry[t] \in BOOLEAN /\ scan[t] \in Nat
  BY ClientAssumption DEF ClientInv, TypeOK
<1>1. CASE Lookup(t)
  <2>1. pc[t] = "lookup" /\ StepsLeft(t) = 13 + 2 * ACC_CLIENT_MAX_SIZE - scan[t]
    BY <1>1 DEF Lookup, At, StepsLeft
  <2>2. CASE pc' = [pc EXCEPT ![t] = "last"] /\ scan' = [scan EXCEPT ![t] = 0]
    <3>1. pc'[t] = "last" /\ scan'[t] = 0
      BY <2>2 DEF ClientInv, TypeOK
    <3>2. StepsLeft(t)' = 12 + ACC_CLIENT_MAX_SIZE
      BY <1>0, <3>1 DEF StepsLeft
    <3> QED  BY <1>0, <2>1, <3>2
  <2>3. CASE pc' = [pc EXCEPT ![t] = "connected"]
    <3>1. StepsLeft(t)' = 9
      BY <2>3 DEF StepsLeft, ClientInv, TypeOK
    <3> QED  BY <1>0, <2>1, <3>1
  <2>4. CASE pc' = pc /\ scan' = [scan EXCEPT ![t] = @ + 1]
    <3>1. scan'[t] = scan[t] + 1
      BY <2>4 DEF ClientInv, TypeOK
    <3>2. StepsLeft(t)' = 13 + 2 * ACC_CLIENT_MAX_SIZE - (scan[t] + 1)
      BY <2>1, <2>4, <3>1 DEF StepsLeft
    <3> QED  BY <1>0, <2>1, <3>2
  <2> QED  BY <1>1, <2>2, <2>3, <2>4 DEF Lookup, Goto
<1>2. CASE LastIdx(t)
  <2>1. pc[t] = "last" /\ StepsLeft(t) = 12 + (ACC_CLIENT_MAX_SIZE - scan[t])
    BY <1>2 DEF LastIdx, At, StepsLeft
  <2>2. CASE Abort("no_client")
    BY <2>2, ClientAssumption DEF Abort
  <2>3. CASE pc' = [pc EXCEPT ![t] = "id"]
    <3>1. StepsLeft(t)' = 11
      BY <2>3 DEF StepsLeft, ClientInv, TypeOK
    <3> QED  BY <1>0, <2>1, <3>1
  <2>4. CASE pc' = pc /\ scan' = [scan EXCEPT ![t] = @ + 1]
    <3>1. scan'[t] = scan[t] + 1
      BY <2>4 DEF ClientInv, TypeOK
    <3>2. StepsLeft(t)' = 12 + (ACC_CLIENT_MAX_SIZE - (scan[t] + 1))
      BY <2>1, <2>4, <3>1 DEF StepsLeft
    <3> QED  BY <1>0, <2>1, <3>2
  <2> QED  BY <1>2, <2>2, <2>3, <2>4 DEF LastIdx, Goto
<1>3. CASE StoreId(t) \/ StoreHandle(t) \/ IsConnected(t) \/ Connect(t)
  <2>1. \/ pc[t] = "id" /\ pc'[t] = "handle"
        \/ pc[t] = "handle" /\ pc'[t] = "connected"
        \/ pc[t] = "connected" /\ pc'[t] \in {"assert", "connect"}
        \/ pc[t] = "connect" /\ pc'[t] = "connecting"
    BY <1>3 DEF StoreId, StoreHandle, IsConnected, Connect, At, Goto, ClientInv, TypeOK
  <2> QED  BY <2>1 DEF StepsLeft
<1>4. CASE AssertConnected(t)
  <2>1. CASE Abort("not_connected")
    BY <2>1, ClientAssumption DEF Abort
  <2>2. CASE pc' = [pc EXCEPT ![t] = "send"] /\ retry' = retry
    <3>1. pc[t] = "assert" /\ pc'[t] = "send" /\ retry'[t] = retry[t]
      BY <1>4, <2>2 DEF AssertConnected, At, ClientInv, TypeOK
    <3> QED  BY <3>1, RequestSteps
  <2> QED  BY <1>4, <2>1, <2>2 DEF AssertConnected, Goto
<1>5. ASSUME pc[t] \in {"send", "receive"}, Disconnected(t)
      PROVE  StepsLeft(t)' < StepsLeft(t)
  <2>1. CASE retry[t]
    <3>1. pc'[t] = "idle"
      BY <1>5, <2>1 DEF Disconnected, Return, Goto, ClientInv, TypeOK
    <3> QED  BY <1>5, <2>1, <3>1, RequestSteps
  <2>2. CASE ~retry[t]
    <3>1. pc'[t] = "connect"
      BY <1>5, <2>2 DEF Disconnected, Return, Goto, ClientInv, TypeOK
    <3> QED  BY <1>5, <2>2, <3>1, RequestSteps
  <2> QED  BY <2>1, <2>2
<1>6. CASE Send(t)
  <2>1. pc[t] = "send"
    BY <1>6 DEF Send, At
  <2>2. CASE Abort("descriptor_zero")
    BY <2>2, ClientAssumption DEF Abort
  <2>3. CASE pc' = [pc EXCEPT ![t] = "receive"] /\ retry' = retry
    <3>1. pc'[t] = "receive" /\ retry'[t] = retry[t]
      BY <2>3 DEF ClientInv, TypeOK
    <3> QED  BY <2>1, <3>1, RequestSteps
  <2>4. CASE Disconnected(t)
    BY <1>5, <2>1, <2>4
  <2> QED  BY <1>6, <2>2, <2>3, <2>4 DEF Send, Goto
<1>7. CASE Receive(t)
  <2>1. pc[t] = "receive" /\ pc'[t] = "idle"
    BY <1>7 DEF Receive, At, Return, Goto, ClientInv, TypeOK
  <2> QED  BY <2>1, RequestSteps
<1>8. CASE ConnectionLost(t) \/ PollInterrupted(t)
  BY <1>5, <1>8 DEF ConnectionLost, PollInterrupted, At
<1>9. CASE Reconnected(t)
  <2>1. pc[t] = "connecting"
    BY <1>9 DEF Reconnected, At
  <2>2. pc'[t] = "idle" \/ (pc'[t] = "assert" /\ retry'[t])
    BY <1>9 DEF Reconnected, At, Return, Goto, ClientInv, TypeOK
  <2> QED  BY <2>1, <2>2, RequestSteps
<1> QED  BY <1>1, <1>2, <1>3, <1>4, <1>6, <1>7, <1>8, <1>9 DEF Step

LEMMA StepsLeftBounds ==
    ASSUME ClientInv
    PROVE  \A t \in Thread : StepsLeft(t) \in 0 .. (13 + 2 * ACC_CLIENT_MAX_SIZE)
<1> SUFFICES ASSUME NEW t \in Thread
             PROVE  StepsLeft(t) \in 0 .. (13 + 2 * ACC_CLIENT_MAX_SIZE)
  OBVIOUS
<1>1. ACC_CLIENT_MAX_SIZE \in Nat /\ scan[t] \in 0 .. ACC_CLIENT_MAX_SIZE /\ pc[t] \in Place
  BY ClientAssumption DEF ClientInv, TypeOK
<1>2. CASE pc[t] \in {"lookup", "last"}
  <2>1. StepsLeft(t) \in {13 + 2 * ACC_CLIENT_MAX_SIZE - scan[t],
                         12 + (ACC_CLIENT_MAX_SIZE - scan[t])}
    BY <1>2 DEF StepsLeft
  <2> QED  BY <1>1, <2>1
<1>3. CASE pc[t] \notin {"lookup", "last"}
  <2>1. StepsLeft(t) \in 0 .. 11
    BY <1>1, <1>3 DEF StepsLeft, Place
  <2> QED  BY <1>1, <2>1
<1> QED  BY <1>2, <1>3

(* No call starts over or goes round: whatever the other threads do to the    *)
(* table in the meantime, every step of a call leaves it fewer, at most 13    *)
(* and twice the table, unless the process ends.  With WaitsAnswered this is  *)
(* CallReturns without its fairness.                                          *)
THEOREM CallsShorten ==
    Spec => /\ [](\A t \in Thread : StepsLeft(t) \in 0 .. (13 + 2 * ACC_CLIENT_MAX_SIZE))
            /\ [][\A t \in Thread : pc[t] # "idle" =>
                      \/ StepsLeft(t)' < StepsLeft(t)
                      \/ failure' # NULL
                      \/ pc'[t] = pc[t] /\ scan'[t] = scan[t] /\ retry'[t] = retry[t]]_vars
<1> DEFINE Shortens(t) == \/ StepsLeft(t)' < StepsLeft(t)
                          \/ failure' # NULL
                          \/ pc'[t] = pc[t] /\ scan'[t] = scan[t] /\ retry'[t] = retry[t]
<1>1. ASSUME ClientInv, [Next]_vars, NEW t \in Thread, pc[t] # "idle"
      PROVE  Shortens(t)
  <2>1. CASE Step(t) \/ PollInterrupted(t)
    BY <1>1, <2>1, StepShortens
  <2>2. ASSUME NEW u \in Thread \ {t}, Call(u) \/ Step(u) \/ PollInterrupted(u)
        PROVE  pc'[t] = pc[t] /\ scan'[t] = scan[t] /\ retry'[t] = retry[t]
    <3>1. pc'[t] = pc[t] /\ scan'[t] = scan[t]
      BY <1>1, <2>2, OneThreadMoves
    <3>2. Disconnected(u) => retry'[t] = retry[t]
      BY <1>1 DEF Disconnected, Return, ClientInv, TypeOK
    <3>3. retry'[t] = retry[t]
      <4>1. CASE Call(u) \/ Lookup(u) \/ LastIdx(u) \/ StoreId(u) \/ StoreHandle(u)
                 \/ IsConnected(u) \/ AssertConnected(u)
        BY <1>1, <4>1 DEF Call, Lookup, LastIdx, StoreId, StoreHandle, IsConnected,
           AssertConnected, Abort, threadVars
      <4>2. CASE Send(u) \/ ConnectionLost(u) \/ PollInterrupted(u)
        BY <3>2, <4>2 DEF Send, ConnectionLost, PollInterrupted, Abort, threadVars
      <4>3. CASE Receive(u) \/ Connect(u) \/ Reconnected(u)
        BY <1>1, <4>3 DEF Receive, Connect, Reconnected, Return, ClientInv, TypeOK
      <4> QED  BY <2>2, <4>1, <4>2, <4>3 DEF Step
    <3> QED  BY <3>1, <3>3
  <2>3. CASE Call(t)
    BY <1>1, <2>3 DEF Call, At
  <2>4. ASSUME NEW f \in Fd, Lose(f) PROVE pc' = pc /\ scan' = scan /\ retry' = retry
    BY <2>4 DEF Lose, threadVars
  <2>5. CASE UNCHANGED vars
    BY <2>5 DEF vars, threadVars
  <2> QED  BY <1>1, <2>1, <2>2, <2>3, <2>4, <2>5 DEF Next, Ended
<1>2. ClientInv /\ [Next]_vars => [\A t \in Thread : pc[t] # "idle" => Shortens(t)]_vars
  BY <1>1
<1> QED  BY <1>2, ClientInvariant, StepsLeftBounds, PTL DEF Spec

=============================================================================
