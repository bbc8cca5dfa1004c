--------------------------- MODULE CommandServer ---------------------------
(****************************************************************************)
(* How a command reaches the daemon: the operator's accsh processes          *)
(* (tool/accsh.c) connect to a Unix socket, write one message and exit       *)
(* without waiting for an answer; the daemon's event loop (be_main.c)        *)
(* accepts one connection per callback and reads one message from each.      *)
(* Starting a daemon takes the socket's path away from whoever holds it, and *)
(* nothing stops a second daemon from doing so while the first one serves.   *)
(*                                                                          *)
(* What a command does to the cards is module BackEnd's; here it is only     *)
(* applied or not.  The channels' events, which share the loop, touch        *)
(* nothing that the command connections use but descriptors.                 *)
(****************************************************************************)
EXTENDS Naturals, Sequences, FiniteSets

CONSTANTS
    Shell,      \* runs of accsh, each with options that make a command
    Stale,      \* those built with another layout, hence size, of cmd_hdr_t
    Daemon,     \* runs of the daemon, numbered in the order they start
    Fd,         \* descriptors a daemon has for command connections
    Backlog,    \* the backlog given to listen()
    NULL

ASSUME CommandAssumption ==
    /\ IsFiniteSet(Shell)
    /\ Stale \subseteq Shell
    /\ Backlog \in Nat
    /\ NULL \notin Shell
    /\ NULL \notin Daemon
    /\ Daemon \subseteq Nat
    /\ Fd \subseteq Nat
    /\ NULL \notin Fd

VARIABLES
    shell,      \* where each run of accsh is
    to,         \* the daemon it is connected to, or was
    path,       \* the daemon that bound the socket file, or NULL without a file
    stage,      \* where each daemon is in main()
    backlog,    \* the connections each daemon has yet to accept
    conn,       \* the connection of each descriptor a daemon holds
    active,     \* the callbacks left in the current turn of each event loop
    applied,    \* the commands given to be_la_cmd_process
    lost,       \* the connections closed without that
    before      \* history: the runs that were over when this one started

vars == <<shell, to, path, stage, backlog, conn, active, applied, lost, before>>

Listener == NULL  \* the command socket, among a daemon's event sources

Over == {"exited", "interrupted"}

TypeOK ==
    /\ shell \in [Shell -> {"new", "started", "connected", "failed"} \cup Over]
    /\ to \in [Shell -> Daemon \cup {NULL}]
    /\ path \in Daemon \cup {NULL}
    /\ stage \in [Daemon -> {"off", "starting", "bound", "serving", "dead"}]
    /\ backlog \in [Daemon -> Seq(Shell)]
    /\ conn \in [Daemon -> [Fd -> Shell \cup {NULL}]]
    /\ active \in [Daemon -> SUBSET (Fd \cup {Listener})]
    /\ applied \subseteq Shell
    /\ lost \subseteq Shell
    /\ before \in [Shell -> SUBSET Shell]

Init ==
    /\ shell = [s \in Shell |-> "new"]
    /\ to = [s \in Shell |-> NULL]
    /\ path = NULL
    /\ stage = [d \in Daemon |-> "off"]
    /\ backlog = [d \in Daemon |-> <<>>]
    /\ conn = [d \in Daemon |-> [f \in Fd |-> NULL]]
    /\ active = [d \in Daemon |-> {}]
    /\ applied = {}
    /\ lost = {}
    /\ before = [s \in Shell |-> {}]

----------------------------------------------------------------------------
(* The operator's tool. *)

serverVars == <<path, stage, conn, active, applied, lost>>

\* The options are complete and the socket file is there, or accsh ends.
Start(s) ==
    /\ shell[s] = "new"
    /\ \/ /\ path = NULL
          /\ shell' = [shell EXCEPT ![s] = "failed"]
          /\ UNCHANGED before
       \/ /\ path # NULL
          /\ shell' = [shell EXCEPT ![s] = "started"]
          /\ before' = [before EXCEPT ![s] = {a \in Shell : shell[a] \in Over}]
    /\ UNCHANGED <<serverVars, to, backlog>>

Reached(d) == path = d /\ stage[d] = "serving"

\* connect() goes to whoever holds the path by now.  It waits while the backlog
\* is full and is refused when nobody listens; accsh ends with 0 all the same.
ConnectServer(s) ==
    /\ shell[s] = "started"
    /\ \/ \E d \in Daemon :
             /\ Reached(d)
             /\ Len(backlog[d]) <= Backlog
             /\ shell' = [shell EXCEPT ![s] = "connected"]
             /\ to' = [to EXCEPT ![s] = d]
             /\ backlog' = [backlog EXCEPT ![d] = Append(@, s)]
       \/ /\ \A d \in Daemon : ~Reached(d)
          /\ shell' = [shell EXCEPT ![s] = "failed"]
          /\ UNCHANGED <<to, backlog>>
    /\ UNCHANGED <<serverVars, before>>

\* The message is one write, which no read finds in parts, and accsh exits; on a
\* connection the daemon has closed the write raises SIGPIPE, which ends it too.
Write(s) ==
    /\ shell[s] = "connected"
    /\ shell' = [shell EXCEPT ![s] = "exited"]
    /\ UNCHANGED <<serverVars, to, backlog, before>>

\* The operator interrupts accsh before it has written.
Interrupt(s) ==
    /\ shell[s] = "connected"
    /\ shell' = [shell EXCEPT ![s] = "interrupted"]
    /\ UNCHANGED <<serverVars, to, backlog, before>>

----------------------------------------------------------------------------
(* The daemon. *)

shellVars == <<shell, to, before>>

\* Whatever file is at the path is removed, another daemon's too.
StartDaemon(d) ==
    /\ stage[d] = "off"
    /\ \A e \in Daemon : e < d => stage[e] # "off"
    /\ stage' = [stage EXCEPT ![d] = "starting"]
    /\ path' = NULL
    /\ UNCHANGED <<shellVars, backlog, conn, active, applied, lost>>

Bind(d) ==
    /\ stage[d] = "starting"
    /\ \/ /\ path = NULL
          /\ path' = d
          /\ stage' = [stage EXCEPT ![d] = "bound"]
       \/ /\ path # NULL
          /\ stage' = [stage EXCEPT ![d] = "dead"]
          /\ UNCHANGED path
    /\ UNCHANGED <<shellVars, backlog, conn, active, applied, lost>>

Listen(d) ==
    /\ stage[d] = "bound"
    /\ stage' = [stage EXCEPT ![d] = "serving"]
    /\ UNCHANGED <<shellVars, path, backlog, conn, active, applied, lost>>

\* The process ends: its connections close, its socket file stays.
Die(d) ==
    /\ stage' = [stage EXCEPT ![d] = "dead"]
    /\ backlog' = [backlog EXCEPT ![d] = <<>>]
    /\ conn' = [conn EXCEPT ![d] = [f \in Fd |-> NULL]]
    /\ active' = [active EXCEPT ![d] = {}]
    /\ UNCHANGED <<shellVars, path, applied, lost>>

Kill(d) ==
    /\ stage[d] \in {"starting", "bound", "serving"}
    /\ Die(d)

Ready(d) ==
    {f \in Fd : conn[d][f] # NULL /\ shell[conn[d][f]] \in Over}
        \cup (IF backlog[d] = <<>> THEN {} ELSE {Listener})

\* A turn of event_base_dispatch begins when the last one's callbacks are done,
\* and takes everything that is ready.
Poll(d) ==
    /\ stage[d] = "serving"
    /\ active[d] = {}
    /\ Ready(d) # {}
    /\ active' = [active EXCEPT ![d] = Ready(d)]
    /\ UNCHANGED <<shellVars, path, stage, backlog, conn, applied, lost>>

Done(d, source) == active' = [active EXCEPT ![d] = @ \ {source}]

Free(d) == {f \in Fd : conn[d][f] = NULL}

Lowest(free) == {f \in free : \A g \in free : f <= g}

(* Mutant: the descriptor -1 of a failed accept is watched. *)
WatchesFailed(d) ==
    /\ Free(d) = {}
    /\ conn' = [conn EXCEPT ![d] =
           [f \in Fd \cup {NULL} |-> IF f = NULL THEN NULL ELSE conn[d][f]]]
    /\ Done(d, Listener)
    /\ UNCHANGED <<stage, backlog, lost>>

\* accept() fails without a free descriptor; the connection stays in the backlog.
AcceptFails(d) ==
    /\ Free(d) = {}
    /\ Done(d, Listener)
    /\ UNCHANGED <<stage, backlog, conn, lost>>


(* Mutant: one callback accepts until the backlog is empty. *)
WatchAll(d) ==
    \E at \in [1 .. Len(backlog[d]) -> Free(d)] :
        /\ \A i, j \in DOMAIN at : i # j => at[i] # at[j]
        /\ conn' = [conn EXCEPT ![d] = [f \in Fd |->
               IF \E i \in DOMAIN at : at[i] = f
               THEN backlog[d][CHOOSE i \in DOMAIN at : at[i] = f]
               ELSE conn[d][f]]]
        /\ backlog' = [backlog EXCEPT ![d] = <<>>]
        /\ Done(d, Listener)
        /\ UNCHANGED <<stage, lost>>

\* The connection at the head of the backlog is watched on the lowest descriptor.
Watch(d) ==
    \E f \in Lowest(Free(d)) :
        /\ conn' = [conn EXCEPT ![d][f] = Head(backlog[d])]
        /\ backlog' = [backlog EXCEPT ![d] = Tail(@)]
        /\ Done(d, Listener)
        /\ UNCHANGED <<stage, lost>>

(* Mutant: the callback goes on to watch what it has closed. *)
RefuseAndWatch(d) ==
    \E f \in Lowest(Free(d)) :
        /\ lost' = lost \cup {Head(backlog[d])}
        /\ conn' = [conn EXCEPT ![d][f] = Head(backlog[d])]
        /\ backlog' = [backlog EXCEPT ![d] = Tail(@)]
        /\ Done(d, Listener)
        /\ UNCHANGED stage

\* It is closed: a descriptor above FD_SETSIZE, or one that stays blocking.
Refuse(d) ==
    /\ Free(d) # {}
    /\ lost' = lost \cup {Head(backlog[d])}
    /\ backlog' = [backlog EXCEPT ![d] = Tail(@)]
    /\ Done(d, Listener)
    /\ UNCHANGED <<stage, conn>>

\* One connection per callback.  An event that cannot be allocated is used all
\* the same, through a null pointer.
Accept(d) ==
    /\ Listener \in active[d]
    /\ \/ AcceptFails(d)
       \/ Watch(d)
       \/ Refuse(d)
       \/ Free(d) # {} /\ Die(d)
    /\ UNCHANGED <<shellVars, path, applied>>

Whole(s) == shell[s] = "exited" /\ s \notin Stale

(* Mutant: nobody looks at what read() returned. *)
RequestUnchecked(d, f) ==
    /\ f \in active[d] \ {Listener}
    /\ applied' = applied \cup {conn[d][f]}
    /\ conn' = [conn EXCEPT ![d][f] = NULL]
    /\ Done(d, f)
    /\ UNCHANGED <<shellVars, path, stage, backlog, lost>>

\* read() finds the message, the end of the file or a message of another size;
\* the connection is closed and its event deleted in every case.
Request(d, f) ==
    /\ f \in active[d] \ {Listener}
    /\ LET s == conn[d][f]
       IN  /\ applied' = IF Whole(s) THEN applied \cup {s} ELSE applied
           /\ lost' = IF Whole(s) THEN lost ELSE lost \cup {s}
    /\ conn' = [conn EXCEPT ![d][f] = NULL]
    /\ Done(d, f)
    /\ UNCHANGED <<shellVars, path, stage, backlog>>

----------------------------------------------------------------------------

ShellStep(s) ==
    Start(s) \/ ConnectServer(s) \/ Write(s) \/ Interrupt(s)

DaemonStep(d) ==
    \/ StartDaemon(d) \/ Bind(d) \/ Listen(d) \/ Kill(d) \/ Poll(d) \/ Accept(d)
    \/ \E f \in Fd : Request(d, f)

Next ==
    \/ \E s \in Shell : ShellStep(s)
    \/ \E d \in Daemon : DaemonStep(d)

Spec == Init /\ [][Next]_vars

\* A process that can run does: accsh once connected, the loop while it serves.
FairSpec ==
    /\ Spec
    /\ \A s \in Shell : WF_vars(Write(s))
    /\ \A d \in Daemon :
          /\ WF_vars(Poll(d))
          /\ WF_vars(Accept(d))
          /\ \A f \in Fd : WF_vars(Request(d, f))

----------------------------------------------------------------------------
(* Properties. *)

\* A connection has one fate: it waits in the backlog of the daemon it was made
\* to, or a descriptor of that daemon holds it, or its command was applied, or it
\* was closed, and none of these twice; nothing is left of it when the daemon
\* has ended.  be_main.c:107-138 closes or watches, be_main.c:68-105 closes.
OneFate ==
    \A s \in Shell :
        LET waits == {p \in Daemon \X (1 .. Cardinality(Shell)) :
                          p[2] <= Len(backlog[p[1]]) /\ backlog[p[1]][p[2]] = s}
            holds == {p \in Daemon \X Fd : conn[p[1]][p[2]] = s}
            fates == Cardinality(waits) + Cardinality(holds)
                     + (IF s \in applied THEN 1 ELSE 0) + (IF s \in lost THEN 1 ELSE 0)
        IN  /\ fates <= 1
            /\ fates = 0 => to[s] = NULL \/ stage[to[s]] = "dead"
            /\ \A p \in waits \cup holds : p[1] = to[s]

\* Only a message accsh wrote in full and of the daemon's own layout is applied:
\* be_main.c:85-98.
WholeCommands ==
    \A s \in applied : s \notin Stale /\ shell[s] = "exited"

\* Commands given to one daemon one after the other take effect in that order,
\* although accsh does not wait for an answer and the loop runs the callbacks of
\* a turn in any order: a run that was over when another started is never behind
\* it.  It rests on accepting one connection per callback, be_main.c:111.
SequentialOrder ==
    \A s \in applied : \A a \in before[s] :
        to[a] = to[s] => a \in applied \cup lost

=============================================================================
