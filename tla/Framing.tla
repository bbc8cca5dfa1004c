------------------------------- MODULE Framing -------------------------------
(****************************************************************************)
(* How messages cross a connection (message/be_acc_msg.h): both ends write a *)
(* header and a body with writev, which may take any part of them, and read  *)
(* them back with read, which may return any part of what has arrived.  The  *)
(* client of each guest writes a request and waits for the reply to it; the  *)
(* daemon runs one read callback at a time, from the first byte of a request *)
(* to the last byte of its reply (be_la/be_channel.c), trying again as long  *)
(* as there is nothing to read or no room to write.                          *)
(*                                                                          *)
(* The connection is the virtual machine's: it stays when the client in the  *)
(* guest ends, wherever in a message that is, and another one takes over.    *)
(****************************************************************************)
EXTENDS Integers, Sequences

CONSTANTS
    Conn,           \* connections, one per guest
    HdrLen,         \* sizeof(struct acc_msg_header)
    BodyLen,        \* lengths of the bodies each guest sends
    Capacity,       \* bytes a connection holds in one direction
    MaxRequests     \* bound: requests on each connection

ASSUME FramingAssumption ==
    /\ HdrLen \in Nat \ {0}
    /\ BodyLen \in [Conn -> SUBSET Nat]
    /\ Capacity \in Nat \ {0}
    /\ MaxRequests \in [Conn -> Nat]
    /\ "none" \notin Conn

(* A direction of a connection: requests go up to the daemon.                 *)
Up(f) == <<f, "up">>
Down(f) == <<f, "down">>
Link == Conn \X {"up", "down"}

(* A message is its number on the connection and its total_len; a byte is its *)
(* message and its position in it; a part is a struct iovec into a message.   *)
Total == {HdrLen} \cup UNION {{HdrLen + b : b \in BodyLen[f]} : f \in Conn}
Message == UNION {[n : 1 .. MaxRequests[f], total : Total] : f \in Conn}
Nothing == [n |-> 0, total |-> 0]
Garbage == [n |-> -1, total |-> HdrLen]
Byte == [msg : Message \cup {Garbage}, pos : Nat]
Part == [at : Nat, len : Nat]

VARIABLES
    guest,      \* what the client of each guest is doing
    stopped,    \* the guests that run no more
    serving,    \* the connection whose callback runs, or "none"
    msg,        \* the message a link's writer is writing or wrote last
    out,        \* need_send of a link's writer: the parts left to write
    wire,       \* the bytes on their way
    got,        \* the bytes of a message a link's reader has
    total,      \* its total_len once the header is complete, else 0
    given,      \* history: what its handler was given
    answered,   \* history: the number of the reply the guest read last
    cut,        \* history: connections on which a client ended inside a message
    stray       \* history: connections on which a client left its reply

linkVars == <<msg, out, wire, got, total>>
historyVars == <<given, answered, cut, stray>>
vars == <<guest, stopped, serving, linkVars, historyVars>>

TypeOK ==
    /\ guest \in [Conn -> {"idle", "sending", "waiting", "receiving", "gone", "closed"}]
    /\ stopped \subseteq Conn
    /\ serving \in Conn \cup {"none"}
    /\ msg \in [Link -> Message \cup {Nothing, Garbage}]
    /\ out \in [Link -> Seq(Part)]
    /\ wire \in [Link -> Seq(Byte)]
    /\ got \in [Link -> Seq(Byte)]
    /\ total \in [Link -> Total \cup {0}]
    /\ given \in [Conn -> Message \cup {Nothing, Garbage}]
    /\ answered \in [Conn -> Nat \cup {-1}]
    /\ cut \subseteq Conn
    /\ stray \subseteq Conn

Init ==
    /\ guest = [f \in Conn |-> "idle"]
    /\ stopped = {}
    /\ serving = "none"
    /\ msg = [l \in Link |-> Nothing]
    /\ out = [l \in Link |-> <<>>]
    /\ wire = [l \in Link |-> <<>>]
    /\ got = [l \in Link |-> <<>>]
    /\ total = [l \in Link |-> 0]
    /\ given = [f \in Conn |-> Nothing]
    /\ answered = [f \in Conn |-> 0]
    /\ cut = {}
    /\ stray = {}

-----------------------------------------------------------------------------
(* Writing a message. *)

LenOf(iov) ==
    CASE Len(iov) = 0 -> 0
      [] Len(iov) = 1 -> iov[1].len
      [] OTHER -> iov[1].len + iov[2].len

(* The message[2] of acc_unix_send_message. *)
Parts(m) == <<[at |-> 0, len |-> HdrLen], [at |-> HdrLen, len |-> m.total - HdrLen]>>

(* Mutant: the part that was begun starts over. *)
IovecCopyRestarts(iov, index, offset) == SubSeq(iov, index + 1, Len(iov))

(* _iovec_copy: the parts from index on, the first without offset bytes.  The *)
(* code writes over the array it reads, from the front, never ahead of itself.*)
IovecCopy(iov, index, offset) ==
    [k \in 1 .. Len(iov) - index |->
        IF k = 1 THEN [at |-> iov[index + 1].at + offset, len |-> iov[index + 1].len - offset]
        ELSE iov[index + k]]

(* Mutant: the header's length is not taken off before the body is cut. *)
NextIovecForgets(iov, offset) ==
    CASE Len(iov) >= 1 /\ offset < iov[1].len -> IovecCopy(iov, 0, offset)
      [] Len(iov) = 2 /\ offset >= iov[1].len /\ offset - iov[1].len < iov[2].len ->
            IovecCopy(iov, 1, offset)
      [] OTHER -> <<>>

(* Mutant: a part that is all taken but has no byte more to give stays. *)
NextIovecKeepsEmpty(iov, offset) ==
    CASE Len(iov) >= 1 /\ offset <= iov[1].len -> IovecCopy(iov, 0, offset)
      [] Len(iov) = 2 /\ offset > iov[1].len /\ offset - iov[1].len <= iov[2].len ->
            IovecCopy(iov, 1, offset - iov[1].len)
      [] OTHER -> <<>>

(* _get_next_send_iovec: the parts left when offset bytes were taken.  A part *)
(* without bytes left goes with the one before it.                            *)
NextIovec(iov, offset) ==
    CASE Len(iov) >= 1 /\ offset < iov[1].len -> IovecCopy(iov, 0, offset)
      [] Len(iov) = 2 /\ offset >= iov[1].len /\ offset - iov[1].len < iov[2].len ->
            IovecCopy(iov, 1, offset - iov[1].len)
      [] OTHER -> <<>>

(* The first j bytes of the parts, as writev gathers them. *)
Gathered(m, iov, j) ==
    [k \in 1 .. j |->
        [msg |-> m,
         pos |-> IF k <= iov[1].len THEN iov[1].at + k
                 ELSE iov[2].at + k - iov[1].len]]

(* writev takes at least a byte, when there is room, and at most all. *)
WriteSome(l) ==
    /\ out[l] # <<>>
    /\ \E j \in 1 .. Capacity - Len(wire[l]) :
          /\ j <= LenOf(out[l])
          /\ wire' = [wire EXCEPT ![l] = @ \o Gathered(msg[l], out[l], j)]
          /\ out' = [out EXCEPT ![l] = NextIovec(@, j)]

-----------------------------------------------------------------------------
(* Reading one. *)

(* What _readn is still to read, of the header first and then of the body. *)
Wanted(l) == (IF total[l] = 0 THEN HdrLen ELSE total[l]) - Len(got[l])

(* The bytes the reader has after a read of j more. *)
Extended(l, j) == got[l] \o SubSeq(wire[l], 1, j)

InOrder(bytes) == \A k \in DOMAIN bytes : bytes[k] = [msg |-> bytes[1].msg, pos |-> k]

(* Mutant: the body is not read. *)
TotalLenOfHeader(l, bytes) ==
    CASE total[l] # 0 -> {total[l]}
      [] total[l] = 0 /\ Len(bytes) < HdrLen -> {0}
      [] total[l] = 0 /\ Len(bytes) >= HdrLen -> {HdrLen}

(* What total_len may be once these bytes are read: nothing yet, what the     *)
(* writer put there, or whatever stands in its place.                         *)
TotalLen(l, bytes) ==
    CASE total[l] # 0 -> {total[l]}
      [] total[l] = 0 /\ Len(bytes) < HdrLen -> {0}
      [] total[l] = 0 /\ Len(bytes) >= HdrLen ->
            IF InOrder(bytes) THEN {bytes[1].msg.total} ELSE Total

(* The message a handler finds in the bytes. *)
Decoded(bytes) == IF InOrder(bytes) THEN bytes[1].msg ELSE Garbage

(* read returns at least a byte, when there is one; t is total_len so far. *)
ReadSome(l, j, t) ==
    /\ j \in 1 .. Len(wire[l])
    /\ j <= Wanted(l)
    /\ t \in TotalLen(l, Extended(l, j))
    /\ wire' = [wire EXCEPT ![l] = SubSeq(@, j + 1, Len(@))]

Keep(l, bytes, t) ==
    /\ got' = [got EXCEPT ![l] = bytes]
    /\ total' = [total EXCEPT ![l] = t]

-----------------------------------------------------------------------------
(* The client of a guest. *)

Runs(f, where) == guest[f] = where /\ f \notin stopped

Ask(f) ==
    /\ Runs(f, "idle")
    /\ msg[Up(f)].n < MaxRequests[f]
    /\ \E b \in BodyLen[f] :
        LET m == [n |-> msg[Up(f)].n + 1, total |-> HdrLen + b]
        IN  /\ msg' = [msg EXCEPT ![Up(f)] = m]
            /\ out' = [out EXCEPT ![Up(f)] = Parts(m)]
    /\ guest' = [guest EXCEPT ![f] = "sending"]
    /\ given' = [given EXCEPT ![f] = Nothing]
    /\ UNCHANGED <<stopped, serving, wire, got, total, answered, cut, stray>>

GuestWrites(f) ==
    /\ Runs(f, "sending")
    /\ WriteSome(Up(f))
    /\ guest' = [guest EXCEPT ![f] = IF out'[Up(f)] = <<>> THEN "waiting" ELSE "sending"]
    /\ UNCHANGED <<stopped, serving, msg, got, total, historyVars>>

(* wait_read_event finds the reply's first byte, *)
PollReturns(f) ==
    /\ Runs(f, "waiting")
    /\ wire[Down(f)] # <<>>
    /\ guest' = [guest EXCEPT ![f] = "receiving"]
    /\ UNCHANGED <<stopped, serving, linkVars, historyVars>>

(* or is interrupted: acc_unix_send_recv fails and its reply is left behind.  *)
PollInterrupted(f) ==
    /\ Runs(f, "waiting")
    /\ guest' = [guest EXCEPT ![f] = "idle"]
    /\ stray' = stray \cup {f}
    /\ UNCHANGED <<stopped, serving, linkVars, given, answered, cut>>

GuestReads(f) ==
    /\ Runs(f, "receiving")
    /\ \E j \in 1 .. Capacity, t \in Total \cup {0} :
        LET bytes == Extended(Down(f), j)
        IN  /\ ReadSome(Down(f), j, t)
            /\ IF Len(bytes) = t
               THEN /\ guest' = [guest EXCEPT ![f] = "idle"]
                    /\ answered' = [answered EXCEPT ![f] = Decoded(bytes).n]
                    /\ Keep(Down(f), <<>>, 0)
               ELSE /\ Keep(Down(f), bytes, t)
                    /\ UNCHANGED <<guest, answered>>
    /\ UNCHANGED <<stopped, serving, msg, out, given, cut, stray>>

(* The client ends, and another one will use the connection.  The guest's     *)
(* kernel may drop what had arrived for the first.                            *)
ClientKilled(f) ==
    /\ guest[f] \in {"sending", "waiting", "receiving"}
    /\ f \notin stopped
    /\ guest' = [guest EXCEPT ![f] = "idle"]
    /\ out' = [out EXCEPT ![Up(f)] = <<>>]
    /\ Keep(Down(f), <<>>, 0)
    /\ \/ UNCHANGED wire
       \/ wire' = [wire EXCEPT ![Down(f)] = <<>>]
    /\ cut' = IF guest[f] = "sending" /\ LenOf(out[Up(f)]) < msg[Up(f)].total
              THEN cut \cup {f} ELSE cut
    /\ stray' = IF guest[f] = "sending" THEN stray ELSE stray \cup {f}
    /\ UNCHANGED <<stopped, serving, msg, given, answered>>

(* The virtual machine is paused, or its client is stuck; *)
Stop(f) ==
    /\ guest[f] \notin {"gone", "closed"}
    /\ f \notin stopped
    /\ stopped' = stopped \cup {f}
    /\ UNCHANGED <<guest, serving, linkVars, historyVars>>

Resume(f) ==
    /\ f \in stopped
    /\ stopped' = stopped \ {f}
    /\ UNCHANGED <<guest, serving, linkVars, historyVars>>

(* or it ends. *)
VmCloses(f) ==
    /\ guest[f] \notin {"gone", "closed"}
    /\ guest' = [guest EXCEPT ![f] = "gone"]
    /\ stopped' = stopped \ {f}
    /\ UNCHANGED <<serving, linkVars, historyVars>>

-----------------------------------------------------------------------------
(* The daemon. *)

(* The connections of S end, with everything on them. *)
Reset(S) ==
    LET New(field, v) == [l \in Link |-> IF l[1] \in S THEN v ELSE field[l]]
    IN  /\ guest' = [f \in Conn |-> IF f \in S THEN "closed" ELSE guest[f]]
        /\ stopped' = stopped \ S
        /\ serving' = "none"
        /\ msg' = New(msg, Nothing)
        /\ out' = New(out, <<>>)
        /\ wire' = New(wire, <<>>)
        /\ got' = New(got, <<>>)
        /\ total' = New(total, 0)
        /\ given' = [f \in Conn |-> IF f \in S THEN Nothing ELSE given[f]]
        /\ answered' = [f \in Conn |-> IF f \in S THEN 0 ELSE answered[f]]
        /\ cut' = cut \ S
        /\ stray' = stray \ S

(* The process ends; a later one opens the connections again. *)
Die == Reset(Conn)

(* The loop calls do_vm_request_read for a descriptor that is readable. *)
Ready(f) ==
    /\ serving = "none"
    /\ wire[Up(f)] # <<>> \/ guest[f] = "gone"
    /\ serving' = f
    /\ UNCHANGED <<guest, stopped, linkVars, historyVars>>

Reading(f) == serving = f /\ out[Down(f)] = <<>>

Reply(m) == [m EXCEPT !.total = HdrLen]

(* acc_unix_recv_message, and the handler once the message is complete: it    *)
(* has no reply body to add.                                                  *)
DaemonReads(f) ==
    /\ Reading(f)
    /\ \E j \in 1 .. Capacity, t \in Total \cup {0} :
        LET bytes == Extended(Up(f), j)
            m == Decoded(bytes)
        IN  /\ ReadSome(Up(f), j, t)
            /\ IF Len(bytes) = t
               THEN /\ Keep(Up(f), <<>>, 0)
                    /\ given' = [given EXCEPT ![f] = m]
                    /\ msg' = [msg EXCEPT ![Down(f)] = Reply(m)]
                    /\ out' = [out EXCEPT ![Down(f)] = Parts(Reply(m))]
               ELSE /\ Keep(Up(f), bytes, t)
                    /\ UNCHANGED <<given, msg, out>>
    /\ UNCHANGED <<guest, stopped, serving, answered, cut, stray>>

(* Bytes that are no message: assert(len >= 0), or a handler, ends the        *)
(* process.                                                                   *)
HandlerCrashes(f) ==
    /\ Reading(f)
    /\ \E j \in 1 .. Len(wire[Up(f)]) : j <= Wanted(Up(f)) /\ ~InOrder(Extended(Up(f), j))
    /\ Die

(* read returns 0, between two messages or inside one: the connection ends. *)
DaemonEof(f) ==
    /\ Reading(f)
    /\ wire[Up(f)] = <<>>
    /\ guest[f] = "gone"
    /\ Reset({f})

(* Mutant: the callback goes on to the next request of the same guest. *)
DaemonWritesStays(f) ==
    /\ serving = f
    /\ guest[f] # "gone"
    /\ WriteSome(Down(f))
    /\ UNCHANGED <<guest, stopped, serving, msg, got, total, historyVars>>

DaemonWrites(f) ==
    /\ serving = f
    /\ guest[f] # "gone"
    /\ WriteSome(Down(f))
    /\ serving' = IF out'[Down(f)] = <<>> THEN "none" ELSE f
    /\ UNCHANGED <<guest, stopped, msg, got, total, historyVars>>

(* A reply to a machine that has gone raises SIGPIPE. *)
SigPipe(f) ==
    /\ serving = f
    /\ out[Down(f)] # <<>>
    /\ guest[f] = "gone"
    /\ Die

Killed == Die

(* The operator registers the machine's card again: vm_channel_open. *)
Reopen(f) ==
    /\ guest[f] = "closed"
    /\ guest' = [guest EXCEPT ![f] = "idle"]
    /\ UNCHANGED <<stopped, serving, linkVars, historyVars>>

-----------------------------------------------------------------------------

Client(f) == Ask(f) \/ GuestWrites(f) \/ PollReturns(f) \/ GuestReads(f)

Callback(f) == DaemonReads(f) \/ DaemonEof(f) \/ DaemonWrites(f) \/ SigPipe(f)

Next ==
    \/ \E f \in Conn :
          \/ Client(f) \/ PollInterrupted(f) \/ ClientKilled(f)
          \/ Stop(f) \/ Resume(f) \/ VmCloses(f)
          \/ Ready(f) \/ Callback(f) \/ HandlerCrashes(f)
          \/ Reopen(f)
    \/ Killed

Spec == Init /\ [][Next]_vars

(* The callbacks and clients that can go on do; every turn of the loop calls  *)
(* back each readable descriptor, so none is passed over for ever.            *)
Fairness ==
    \A f \in Conn :
        /\ SF_vars(Ready(f))
        /\ WF_vars(Callback(f))
        /\ WF_vars(GuestWrites(f))
        /\ WF_vars(PollReturns(f))
        /\ WF_vars(GuestReads(f))

FairSpec == Spec /\ Fairness

-----------------------------------------------------------------------------

(* However writev and read cut the bytes, no handler is given anything but a  *)
(* message a client sent, and a reader is never inside two messages at once:  *)
(* also when replies are left behind, as long as no client ended inside a     *)
(* message.  The frame has nothing a reader could find the next message by.   *)
NeverGarbled ==
    \A f \in Conn \ cut : given[f] # Garbage /\ InOrder(got[Up(f)])

(* Exchanges that are not off. *)
Off(f) == f \in cut \cup stray \/ guest[f] \in {"gone", "closed"}

Phase(f) ==
    CASE Off(f) -> "off"
      [] ~Off(f) /\ guest[f] = "idle" -> "idle"
      [] ~Off(f) /\ guest[f] # "idle" -> IF given[f] = Nothing THEN "asked" ELSE "served"

Unless(f, m) == IF Off(f) THEN Nothing ELSE m

Abstract == INSTANCE Exchange WITH
    phase <- [f \in Conn |-> Phase(f)],
    asked <- [f \in Conn |-> Unless(f, msg[Up(f)])],
    given <- [f \in Conn |-> Unless(f, given[f])],
    answered <- [f \in Conn |-> IF Off(f) THEN 0 ELSE answered[f]]

(* A client that waits for its reply and has left none behind has its request *)
(* given to a handler as it was sent, once, and reads the reply to it.        *)
ExchangeSpec == Abstract!Spec

(* What lets a connection go on: one of its two ends can take a step, unless  *)
(* the guest is stopped.                                                      *)
CanGoOn(f) ==
    \/ guest[f] = "gone"
    \/ out[Down(f)] = <<>> /\ wire[Up(f)] # <<>>
    \/ out[Down(f)] # <<>> /\ Len(wire[Down(f)]) < Capacity
    \/ guest[f] = "sending" /\ Len(wire[Up(f)]) < Capacity
    \/ guest[f] \in {"waiting", "receiving"} /\ wire[Down(f)] # <<>>

(* While a callback holds the loop, the daemon and the guest do not wait for  *)
(* each other, one for room and the other for bytes, however small the        *)
(* connection is: unless a client ended inside its message or left its reply. *)
NoStandoff == \A f \in Conn : serving = f => CanGoOn(f) \/ f \in cut \cup stray

(* One callback keeps the loop from the first byte of a request to the last   *)
(* byte of its reply.  It comes back, unless the guest is stopped, or a       *)
(* client ended without reading its reply, or inside a message whose rest the *)
(* callback then waits for.                                                   *)
LoopReturns ==
    \A f \in Conn :
        serving = f ~> (serving # f \/ f \in stopped \cup cut \cup stray)

(* A guest is kept waiting for the loop only by itself, or by another that    *)
(* holds it in one of these ways.                                             *)
EveryoneServed ==
    \A f \in Conn :
        wire[Up(f)] # <<>> ~>
            \/ wire[Up(f)] = <<>>
            \/ serving = f
            \/ \E g \in Conn : serving = g /\ g \in stopped \cup cut \cup stray
=============================================================================
