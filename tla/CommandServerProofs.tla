------------------------- MODULE CommandServerProofs -------------------------
(* Proofs about the command server for every number of operators' processes,  *)
(* daemons and descriptors.                                                   *)
EXTENDS CommandServer, FiniteSetTheorems, TLAPS

(* A daemon that does not serve has no connections and no callbacks; a        *)
(* callback that is left has something to work on.                            *)
Sources ==
    \A d \in Daemon :
        /\ stage[d] # "serving" =>
              backlog[d] = <<>> /\ active[d] = {} /\ \A f \in Fd : conn[d][f] = NULL
        /\ Listener \in active[d] => backlog[d] # <<>>
        /\ \A f \in Fd : f \in active[d] => conn[d][f] # NULL /\ shell[conn[d][f]] \in Over

(* A connection is at the daemon it was made to, and a run that has made none *)
(* has left no trace.                                                         *)
Places ==
    /\ \A d \in Daemon :
          /\ \A i \in 1 .. Len(backlog[d]) : to[backlog[d][i]] = d
          /\ \A f \in Fd : conn[d][f] # NULL => to[conn[d][f]] = d
    /\ \A s \in Shell : shell[s] \in {"new", "started"} => to[s] = NULL
    /\ \A s \in applied : to[s] # NULL
    /\ \A s \in Shell : \A a \in before[s] : shell[a] \in Over

(* A connection that is neither applied nor lost waits somewhere. *)
Located ==
    \A a \in Shell, d \in Daemon :
        to[a] = d /\ stage[d] # "dead" =>
            \/ a \in applied \cup lost
            \/ \E i \in 1 .. Len(backlog[d]) : backlog[d][i] = a
            \/ \E f \in Fd : conn[d][f] = a

(* Of two runs one after the other, the first is ahead: in the backlog; out   *)
(* of the backlog while the second is in it; and, when descriptors hold both, *)
(* served in the turn in which the second was accepted.                       *)
Ahead(d) ==
    /\ \A i, j \in 1 .. Len(backlog[d]) :
          backlog[d][j] \in before[backlog[d][i]] => j < i
    /\ \A f \in Fd, j \in 1 .. Len(backlog[d]) :
          conn[d][f] # NULL => backlog[d][j] \notin before[conn[d][f]]
    /\ \A f, g \in Fd :
          conn[d][f] # NULL /\ conn[d][g] # NULL /\ conn[d][g] \in before[conn[d][f]] =>
              g \in active[d] /\ f \notin active[d]
    /\ \A g \in Fd :
          /\ Listener \in active[d]
          /\ conn[d][g] # NULL
          /\ conn[d][g] \in before[backlog[d][1]]
          => g \in active[d]

CommandInv ==
    /\ TypeOK
    /\ Sources
    /\ Places
    /\ Located
    /\ \A d \in Daemon : Ahead(d)
    /\ WholeCommands
    /\ SequentialOrder

LEMMA InitCommandInv == Init => CommandInv
<1> SUFFICES ASSUME Init PROVE CommandInv
  OBVIOUS
<1>1. TypeOK
  BY DEF Init, TypeOK, Over
<1>2. Sources /\ Places /\ Located
  BY CommandAssumption DEF Init, Sources, Places, Located, Over
<1>3. (\A d \in Daemon : Ahead(d)) /\ WholeCommands /\ SequentialOrder
  BY DEF Init, Ahead, WholeCommands, SequentialOrder, Listener
<1> QED  BY <1>1, <1>2, <1>3 DEF CommandInv

(* What Append and Tail do to a backlog. *)
LEMMA AppendBacklog ==
    ASSUME NEW q \in Seq(Shell), NEW s \in Shell
    PROVE  /\ Append(q, s) \in Seq(Shell)
           /\ Len(Append(q, s)) = Len(q) + 1
           /\ Append(q, s)[Len(q) + 1] = s
           /\ \A i \in 1 .. Len(q) : Append(q, s)[i] = q[i]
OBVIOUS

LEMMA TailBacklog ==
    ASSUME NEW q \in Seq(Shell), q # <<>>
    PROVE  /\ Tail(q) \in Seq(Shell)
           /\ Head(q) = q[1] /\ q[1] \in Shell
           /\ Len(q) >= 1
           /\ Len(Tail(q)) = Len(q) - 1
           /\ \A i \in 1 .. Len(Tail(q)) : Tail(q)[i] = q[i + 1]
OBVIOUS

(* The runs of accsh. *)
LEMMA StartInv ==
    ASSUME CommandInv, NEW s \in Shell, Start(s)
    PROVE  CommandInv'
<1> USE DEF CommandInv
<1>1. TypeOK'
  <2> DEFINE over == {a \in Shell : shell[a] \in Over}
  <2>1. over \in SUBSET Shell /\ (before' = before \/ before' = [before EXCEPT ![s] = over])
    BY DEF Start
  <2> HIDE DEF over
  <2>2. /\ shell' \in [Shell -> {"new", "started", "connected", "failed"} \cup Over]
        /\ before' \in [Shell -> SUBSET Shell]
    <3>1. before' \in [Shell -> SUBSET Shell]
      BY <2>1 DEF TypeOK
    <3> QED  BY <3>1 DEF Start, TypeOK
  <2> QED  BY <2>2 DEF Start, TypeOK, serverVars
<1>2. /\ shell[s] = "new" /\ to[s] = NULL /\ s \notin applied
      /\ \A d \in Daemon : \A i \in 1 .. Len(backlog[d]) : backlog[d][i] # s
      /\ \A d \in Daemon, f \in Fd : conn[d][f] # s
  BY CommandAssumption DEF Start, Places, TypeOK
<1>3. /\ \A a \in Shell : a # s => before'[a] = before[a]
      /\ \A a \in Shell : shell[a] \in Over => shell'[a] = shell[a]
      /\ \A a \in Shell : a # s => shell'[a] = shell[a]
      /\ before'[s] \subseteq {a \in Shell : shell[a] \in Over} \cup before[s]
      /\ shell'[s] \in {"started", "failed"}
      /\ UNCHANGED <<to, path, stage, backlog, conn, active, applied, lost>>
  BY <1>2 DEF Start, TypeOK, serverVars, Over
<1>4. Sources' /\ Places' /\ Located'
  <2>1. Sources'
    BY <1>1, <1>2, <1>3 DEF Sources, TypeOK
  <2>2. Places'
    <3>1. ASSUME NEW b \in Shell, NEW a \in before'[b] PROVE shell'[a] \in Over
      <4>1. a \in Shell /\ shell[a] \in Over
        BY <1>1, <1>3, <3>1 DEF Places, TypeOK
      <4> QED  BY <1>3, <4>1
    <3>2. \A a \in Shell : shell'[a] \in {"new", "started"} => to'[a] = NULL
      BY <1>2, <1>3 DEF Places
    <3> QED  BY <1>3, <3>1, <3>2 DEF Places
  <2>3. Located'
    BY <1>3 DEF Located
  <2> QED  BY <2>1, <2>2, <2>3
<1>5. ASSUME NEW d \in Daemon PROVE Ahead(d)'
  <2>1. /\ \A i \in 1 .. Len(backlog[d]) :
              backlog[d][i] \in Shell /\ before'[backlog[d][i]] = before[backlog[d][i]]
        /\ \A f \in Fd : conn[d][f] # NULL =>
              conn[d][f] \in Shell /\ before'[conn[d][f]] = before[conn[d][f]]
    BY <1>2, <1>3 DEF TypeOK
  <2>2. Listener \in active[d] => 1 \in 1 .. Len(backlog[d])
    BY DEF Sources, TypeOK
  <2> QED  BY <1>3, <2>1, <2>2 DEF Ahead
<1>6. WholeCommands' /\ SequentialOrder'
  BY <1>2, <1>3 DEF WholeCommands, SequentialOrder, TypeOK
<1> QED  BY <1>1, <1>4, <1>5, <1>6

(* A run that ends has written or was interrupted, and was over for nobody.   *)
LEMMA EndInv ==
    ASSUME CommandInv, NEW s \in Shell, Write(s) \/ Interrupt(s)
    PROVE  CommandInv'
<1> USE DEF CommandInv
<1>1. /\ shell[s] = "connected" /\ shell'[s] \in Over
      /\ \A a \in Shell : a # s => shell'[a] = shell[a]
      /\ shell' \in [Shell -> {"new", "started", "connected", "failed"} \cup Over]
      /\ UNCHANGED <<to, path, stage, backlog, conn, active, applied, lost, before>>
  BY DEF Write, Interrupt, TypeOK, serverVars, Over
<1>2. TypeOK'
  BY <1>1 DEF TypeOK
<1>3. Sources'
  <2>1. \A a \in Shell : shell[a] \in Over => shell'[a] \in Over
    BY <1>1
  <2>2. \A d \in Daemon, f \in Fd : conn[d][f] # NULL => conn[d][f] \in Shell
    BY DEF TypeOK
  <2> QED  BY <1>1, <2>1, <2>2 DEF Sources
<1>4. Places'
  BY <1>1 DEF Places, TypeOK, Over
<1>5. Located' /\ \A d \in Daemon : Ahead(d)'
  BY <1>1 DEF Located, Ahead
<1>6. WholeCommands' /\ SequentialOrder'
  BY <1>1 DEF WholeCommands, SequentialOrder, TypeOK
<1> QED  BY <1>2, <1>3, <1>4, <1>5, <1>6

LEMMA ConnectInv ==
    ASSUME CommandInv, NEW s \in Shell, ConnectServer(s)
    PROVE  CommandInv'
<1> USE DEF CommandInv
<1>1. CASE /\ shell' = [shell EXCEPT ![s] = "failed"]
           /\ UNCHANGED <<to, backlog>>
  <2>1. /\ shell[s] = "started" /\ shell'[s] = "failed"
        /\ \A a \in Shell : a # s => shell'[a] = shell[a]
        /\ UNCHANGED <<to, path, stage, backlog, conn, active, applied, lost, before>>
    BY <1>1 DEF ConnectServer, TypeOK, serverVars
  <2>2. TypeOK'
    BY <1>1, <2>1 DEF TypeOK
  <2>3. Sources' /\ Places'
    <3>1. \A a \in Shell : shell[a] \in Over => shell'[a] \in Over
      BY <2>1 DEF Over
    <3>2. Sources'
      BY <2>1, <3>1 DEF Sources, TypeOK
    <3>3. \A a \in Shell : shell'[a] \in {"new", "started"} => to'[a] = NULL
      BY <2>1 DEF Places
    <3>4. \A b \in Shell : \A a \in before'[b] : shell'[a] \in Over
      BY <2>1, <3>1 DEF Places, TypeOK
    <3> QED  BY <2>1, <3>2, <3>3, <3>4 DEF Places
  <2>4. Located' /\ \A d \in Daemon : Ahead(d)'
    BY <2>1 DEF Located, Ahead
  <2>5. WholeCommands' /\ SequentialOrder'
    BY <2>1 DEF WholeCommands, SequentialOrder, TypeOK
  <2> QED  BY <2>2, <2>3, <2>4, <2>5
<1>2. ASSUME NEW d \in Daemon, Reached(d),
             shell' = [shell EXCEPT ![s] = "connected"],
             to' = [to EXCEPT ![s] = d],
             backlog' = [backlog EXCEPT ![d] = Append(@, s)]
      PROVE  CommandInv'
  <2>1. /\ shell[s] = "started" /\ shell'[s] = "connected" /\ to[s] = NULL
        /\ \A a \in Shell : a # s => shell'[a] = shell[a] /\ to'[a] = to[a]
        /\ to'[s] = d /\ stage[d] = "serving"
        /\ UNCHANGED <<path, stage, conn, active, applied, lost, before>>
    BY <1>2 DEF ConnectServer, Reached, TypeOK, Places, serverVars
  <2>2. /\ backlog[d] \in Seq(Shell)
        /\ backlog'[d] = Append(backlog[d], s)
        /\ \A e \in Daemon : e # d => backlog'[e] = backlog[e]
    BY <1>2 DEF TypeOK
  <2> DEFINE n == Len(backlog[d])
  <2>3. /\ n \in Nat /\ backlog'[d] \in Seq(Shell) /\ Len(backlog'[d]) = n + 1
        /\ backlog'[d][n + 1] = s
        /\ \A i \in 1 .. n : backlog'[d][i] = backlog[d][i] /\ backlog[d][i] \in Shell
        /\ backlog'[d] # <<>>
    BY <2>2, AppendBacklog
  <2> HIDE DEF n
  <2>4. TypeOK'
    BY <1>2, <2>1, <2>2, <2>3 DEF TypeOK
  <2>5. /\ s \notin applied
        /\ \A e \in Daemon : \A i \in 1 .. Len(backlog[e]) : backlog[e][i] # s
        /\ \A e \in Daemon, f \in Fd : conn[e][f] # s
        /\ \A a \in Shell : s \notin before[a]
    <3>1. d # NULL /\ \A e \in Daemon : e # NULL
      BY CommandAssumption
    <3>2. s \notin applied
      BY <2>1 DEF Places
    <3>3. \A e \in Daemon : \A i \in 1 .. Len(backlog[e]) : backlog[e][i] # s
      BY <2>1, <3>1 DEF Places
    <3>4. \A e \in Daemon, f \in Fd : conn[e][f] # s
      BY <2>1, <3>1, CommandAssumption DEF Places
    <3>5. \A a \in Shell : s \notin before[a]
      BY <2>1 DEF Places, Over
    <3> QED  BY <3>2, <3>3, <3>4, <3>5
  <2>6. Sources'
    BY <2>1, <2>2, <2>3, <2>5 DEF Sources, TypeOK, Over
  <2>7. Places'
    <3>1. ASSUME NEW e \in Daemon, NEW i \in 1 .. Len(backlog'[e])
          PROVE  to'[backlog'[e][i]] = e
      <4>1. CASE e # d
        BY <2>1, <2>2, <2>5, <3>1, <4>1 DEF Places, TypeOK
      <4>2. CASE e = d /\ i \in 1 .. n
        BY <2>1, <2>3, <2>5, <4>2 DEF Places, n
      <4>3. CASE e = d /\ i = n + 1
        BY <2>1, <2>3, <4>3
      <4> QED  BY <2>3, <3>1, <4>1, <4>2, <4>3
    <3>2. ASSUME NEW e \in Daemon, NEW f \in Fd, conn'[e][f] # NULL
          PROVE  to'[conn'[e][f]] = e
      BY <2>1, <2>5, <3>2 DEF Places, TypeOK
    <3>3. \A a \in Shell : shell'[a] \in {"new", "started"} => to'[a] = NULL
      BY <2>1 DEF Places
    <3>4. \A a \in applied' : to'[a] # NULL
      BY <2>1, <2>5 DEF Places, TypeOK
    <3>5. \A b \in Shell : \A a \in before'[b] : shell'[a] \in Over
      BY <2>1, <2>5 DEF Places, TypeOK
    <3> QED  BY <3>1, <3>2, <3>3, <3>4, <3>5 DEF Places
  <2>8. Located'
    <3> SUFFICES ASSUME NEW a \in Shell, NEW e \in Daemon,
                        to'[a] = e, stage'[e] # "dead", a \notin applied' \cup lost',
                        \A f \in Fd : conn'[e][f] # a
                 PROVE  \E i \in 1 .. Len(backlog'[e]) : backlog'[e][i] = a
      BY DEF Located
    <3>1. CASE a = s
      BY <2>1, <2>3, <3>1
    <3>2. CASE a # s
      <4>1. PICK i \in 1 .. Len(backlog[e]) : backlog[e][i] = a
        BY <2>1, <3>2 DEF Located
      <4>2. i \in 1 .. Len(backlog'[e]) /\ backlog'[e][i] = a
        BY <2>2, <2>3, <4>1 DEF n
      <4> QED  BY <4>2
    <3> QED  BY <3>1, <3>2
  <2>9. ASSUME NEW e \in Daemon PROVE Ahead(e)'
    <3>1. CASE e # d
      BY <2>1, <2>2, <3>1 DEF Ahead
    <3>2. CASE e = d
      <4>1. ASSUME NEW i \in 1 .. Len(backlog'[d]), NEW j \in 1 .. Len(backlog'[d]),
                   backlog'[d][j] \in before[backlog'[d][i]]
            PROVE  j < i
        <5>1. j \in 1 .. n /\ (i \in 1 .. n \/ i = n + 1)
          BY <2>3, <2>5, <4>1
        <5> QED  BY <2>3, <4>1, <5>1 DEF Ahead, n
      <4>2. ASSUME NEW f \in Fd, NEW j \in 1 .. Len(backlog'[d]), conn[d][f] # NULL
            PROVE  backlog'[d][j] \notin before[conn[d][f]]
        <5>1. conn[d][f] \in Shell
          BY <4>2 DEF TypeOK
        <5>2. j \in 1 .. n \/ j = n + 1
          BY <2>3, <4>2
        <5> QED  BY <2>3, <2>5, <4>2, <5>1, <5>2 DEF Ahead, n
      <4>3. ASSUME Listener \in active[d] PROVE backlog'[d][1] = backlog[d][1]
        BY <2>2, <2>3, <4>3 DEF Sources, n
      <4> QED  BY <2>1, <3>2, <4>1, <4>2, <4>3 DEF Ahead
    <3> QED  BY <3>1, <3>2
  <2>10. WholeCommands' /\ SequentialOrder'
    <3>1. \A b \in applied : b \in Shell /\ b # s /\ \A a \in before[b] : a \in Shell /\ a # s
      BY <2>5 DEF TypeOK
    <3> QED  BY <2>1, <3>1 DEF WholeCommands, SequentialOrder
  <2> QED  BY <2>4, <2>6, <2>7, <2>8, <2>9, <2>10
<1> QED  BY <1>1, <1>2 DEF ConnectServer

(* A daemon that does not serve may change its stage freely but back to       *)
(* serving with what it has: nothing.                                         *)
LEMMA StageInv ==
    ASSUME CommandInv, NEW d \in Daemon, StartDaemon(d) \/ Bind(d) \/ Listen(d)
    PROVE  CommandInv'
<1> USE DEF CommandInv
<1>1. /\ stage[d] # "serving" /\ stage[d] # "dead"
      /\ stage' \in [Daemon -> {"off", "starting", "bound", "serving", "dead"}]
      /\ path' \in Daemon \cup {NULL}
      /\ \A e \in Daemon : e # d => stage'[e] = stage[e]
      /\ UNCHANGED <<shell, to, backlog, conn, active, applied, lost, before>>
  BY DEF StartDaemon, Bind, Listen, TypeOK, shellVars
<1>2. TypeOK'
  BY <1>1 DEF TypeOK
<1>3. Sources'
  BY <1>1 DEF Sources
<1>4. Places' /\ (\A e \in Daemon : Ahead(e)') /\ WholeCommands' /\ SequentialOrder'
  BY <1>1 DEF Places, Ahead, WholeCommands, SequentialOrder
<1>5. Located'
  BY <1>1 DEF Located
<1> QED  BY <1>2, <1>3, <1>4, <1>5

LEMMA DieInv ==
    ASSUME CommandInv, NEW d \in Daemon, Die(d)
    PROVE  CommandInv'
<1> USE DEF CommandInv
<1>1. /\ stage'[d] = "dead" /\ backlog'[d] = <<>> /\ active'[d] = {}
      /\ \A f \in Fd : conn'[d][f] = NULL
      /\ \A e \in Daemon : e # d =>
            /\ stage'[e] = stage[e] /\ backlog'[e] = backlog[e]
            /\ conn'[e] = conn[e] /\ active'[e] = active[e]
      /\ UNCHANGED <<shell, to, path, applied, lost, before>>
  BY DEF Die, TypeOK, shellVars
<1>2. TypeOK'
  <2>1. <<>> \in Seq(Shell) /\ [f \in Fd |-> NULL] \in [Fd -> Shell \cup {NULL}]
    OBVIOUS
  <2> QED  BY <2>1 DEF Die, TypeOK, shellVars
<1>3. Len(backlog'[d]) = 0
  BY <1>1
<1>4. Sources'
  <2>1. ASSUME NEW e \in Daemon, e # d
        PROVE  /\ stage'[e] # "serving" =>
                     backlog'[e] = <<>> /\ active'[e] = {} /\ \A f \in Fd : conn'[e][f] = NULL
               /\ Listener \in active'[e] => backlog'[e] # <<>>
               /\ \A f \in Fd : f \in active'[e] =>
                     conn'[e][f] # NULL /\ shell'[conn'[e][f]] \in Over
    BY <1>1, <2>1 DEF Sources
  <2> QED  BY <1>1, <2>1 DEF Sources, Listener
<1>5. Places'
  <2>1. ASSUME NEW e \in Daemon
        PROVE  /\ \A i \in 1 .. Len(backlog'[e]) : to[backlog'[e][i]] = e
               /\ \A f \in Fd : conn'[e][f] # NULL => to[conn'[e][f]] = e
    <3>1. CASE e = d
      BY <1>1, <1>3, <3>1
    <3>2. CASE e # d
      BY <1>1, <3>2 DEF Places
    <3> QED  BY <3>1, <3>2
  <2> QED  BY <1>1, <2>1 DEF Places
<1>6. Located'
  BY <1>1 DEF Located
<1>7. ASSUME NEW e \in Daemon PROVE Ahead(e)'
  <2>1. CASE e = d
    BY <1>1, <1>3, <2>1 DEF Ahead
  <2>2. CASE e # d
    BY <1>1, <2>2 DEF Ahead
  <2> QED  BY <2>1, <2>2
<1>8. WholeCommands' /\ SequentialOrder'
  BY <1>1 DEF WholeCommands, SequentialOrder
<1> QED  BY <1>2, <1>4, <1>5, <1>6, <1>7, <1>8

(* A turn that begins takes every run that is over: two of them that          *)
(* descriptors hold cannot be one after the other.                            *)
LEMMA PollInv ==
    ASSUME CommandInv, NEW d \in Daemon, Poll(d)
    PROVE  CommandInv'
<1> USE DEF CommandInv
<1>1. /\ stage[d] = "serving" /\ active[d] = {} /\ active'[d] = Ready(d)
      /\ Ready(d) \subseteq Fd \cup {Listener}
      /\ \A e \in Daemon : e # d => active'[e] = active[e]
      /\ UNCHANGED <<shell, to, path, stage, backlog, conn, applied, lost, before>>
  BY DEF Poll, Ready, TypeOK, shellVars
<1>2. TypeOK'
  BY <1>1 DEF Poll, TypeOK
<1>3. /\ Listener \in Ready(d) => backlog[d] # <<>>
      /\ \A f \in Fd : f \in Ready(d) <=> conn[d][f] # NULL /\ shell[conn[d][f]] \in Over
  BY CommandAssumption DEF Ready, Listener
<1>4. Sources'
  BY <1>1, <1>3 DEF Sources
<1>5. Places' /\ Located' /\ WholeCommands' /\ SequentialOrder'
  BY <1>1 DEF Places, Located, WholeCommands, SequentialOrder
<1>6. ASSUME NEW e \in Daemon PROVE Ahead(e)'
  <2>1. CASE e # d
    BY <1>1, <2>1 DEF Ahead
  <2>2. CASE e = d
    <3>1. ASSUME NEW f \in Fd, NEW g \in Fd, conn[d][f] # NULL, conn[d][g] # NULL,
                 conn[d][g] \in before[conn[d][f]]
          PROVE  FALSE
      BY <1>1, <3>1 DEF Ahead
    <3>2. ASSUME NEW g \in Fd, Listener \in Ready(d), conn[d][g] # NULL,
                 conn[d][g] \in before[backlog[d][1]]
          PROVE  g \in Ready(d)
      <4>1. backlog[d][1] \in Shell
        BY <1>3, <3>2, TailBacklog DEF TypeOK
      <4> QED  BY <1>3, <3>2, <4>1 DEF Places
    <3> QED  BY <1>1, <2>2, <3>1, <3>2 DEF Ahead
  <2> QED  BY <2>1, <2>2
<1> QED  BY <1>2, <1>4, <1>5, <1>6

LEMMA AcceptFailsInv ==
    ASSUME CommandInv, NEW d \in Daemon, Accept(d), AcceptFails(d)
    PROVE  CommandInv'
<1> USE DEF CommandInv
<1>1. /\ active'[d] = active[d] \ {Listener}
      /\ \A e \in Daemon : e # d => active'[e] = active[e]
      /\ UNCHANGED <<shell, to, path, stage, backlog, conn, applied, lost, before>>
  BY DEF Accept, AcceptFails, Done, TypeOK, shellVars
<1>2. TypeOK'
  BY <1>1 DEF AcceptFails, Done, TypeOK
<1>3. Sources'
  BY <1>1 DEF Sources
<1>4. Places' /\ Located' /\ WholeCommands' /\ SequentialOrder'
  BY <1>1 DEF Places, Located, WholeCommands, SequentialOrder
<1>5. ASSUME NEW e \in Daemon PROVE Ahead(e)'
  <2>1. \A f \in Fd : f # Listener
    BY CommandAssumption DEF Listener
  <2> QED  BY <1>1, <2>1 DEF Ahead
<1> QED  BY <1>2, <1>3, <1>4, <1>5

(* The backlog of d loses its head, which descriptor f now holds or which was *)
(* closed.                                                                    *)
LEMMA AcceptedInv ==
    ASSUME CommandInv, NEW d \in Daemon, Accept(d), NEW s, s = Head(backlog[d]),
           backlog' = [backlog EXCEPT ![d] = Tail(@)], Done(d, Listener),
           stage' = stage,
           \/ \E f \in Free(d) : conn' = [conn EXCEPT ![d][f] = s] /\ lost' = lost
           \/ conn' = conn /\ lost' = lost \cup {s}
    PROVE  CommandInv'
<1> USE DEF CommandInv
<1> DEFINE n == Len(backlog[d])
<1>1. /\ Listener \in active[d] /\ backlog[d] # <<>> /\ backlog[d] \in Seq(Shell)
      /\ active'[d] = active[d] \ {Listener}
      /\ backlog'[d] = Tail(backlog[d])
      /\ \A e \in Daemon : e # d =>
            active'[e] = active[e] /\ backlog'[e] = backlog[e] /\ conn'[e] = conn[e]
      /\ UNCHANGED <<shell, to, path, stage, applied, before>>
  BY DEF Accept, Done, Sources, TypeOK, shellVars, Free
<1>2. /\ s = backlog[d][1] /\ s \in Shell /\ n \in Nat /\ n >= 1
      /\ backlog'[d] \in Seq(Shell) /\ Len(backlog'[d]) = n - 1
      /\ \A i \in 1 .. n - 1 : backlog'[d][i] = backlog[d][i + 1]
  <2> DEFINE q == backlog[d]
  <2>1. q \in Seq(Shell) /\ q # <<>>
    BY <1>1
  <2> HIDE DEF q
  <2>2. /\ Tail(q) \in Seq(Shell) /\ Head(q) = q[1] /\ q[1] \in Shell
        /\ Len(q) \in Nat /\ Len(q) >= 1 /\ Len(Tail(q)) = Len(q) - 1
        /\ \A i \in 1 .. Len(Tail(q)) : Tail(q)[i] = q[i + 1]
    BY <2>1, TailBacklog
  <2> QED  BY <1>1, <2>2 DEF q
<1>3. 1 \in 1 .. n /\ to[s] = d /\ stage[d] = "serving"
  BY <1>1, <1>2 DEF Places, Sources
<1>4. \A f \in Fd : f # Listener
  BY CommandAssumption DEF Listener
<1>5. /\ \A f \in Fd : conn'[d][f] \in {conn[d][f], s}
      /\ \A f \in Fd : conn'[d][f] # conn[d][f] => conn[d][f] = NULL
      /\ \A f, g \in Fd : conn'[d][f] # conn[d][f] /\ conn'[d][g] # conn[d][g] => f = g
  BY DEF Free, TypeOK
<1>6. (\E f \in Fd : conn'[d][f] = s) \/ s \in lost'
  BY DEF Free, TypeOK
<1>7. lost \subseteq lost' /\ lost' \subseteq Shell
  BY <1>2 DEF TypeOK
<1>8. TypeOK'
  <2>1. conn' \in [Daemon -> [Fd -> Shell \cup {NULL}]]
    <3>1. CASE conn' = conn
      BY <3>1 DEF TypeOK
    <3>2. ASSUME NEW f \in Free(d), conn' = [conn EXCEPT ![d][f] = s]
          PROVE  conn' \in [Daemon -> [Fd -> Shell \cup {NULL}]]
      BY <1>2, <3>2 DEF Free, TypeOK
    <3> QED  BY <3>1, <3>2
  <2>2. backlog' \in [Daemon -> Seq(Shell)]
    BY <1>1, <1>2 DEF TypeOK
  <2>3. active' \in [Daemon -> SUBSET (Fd \cup {Listener})]
    BY DEF Done, TypeOK
  <2> QED  BY <1>1, <1>7, <2>1, <2>2, <2>3 DEF TypeOK
<1> HIDE DEF n
<1>9. Sources'
  <2>1. ASSUME NEW e \in Daemon, e # d
        PROVE  /\ stage'[e] # "serving" =>
                     backlog'[e] = <<>> /\ active'[e] = {} /\ \A f \in Fd : conn'[e][f] = NULL
               /\ Listener \in active'[e] => backlog'[e] # <<>>
               /\ \A f \in Fd : f \in active'[e] =>
                     conn'[e][f] # NULL /\ shell'[conn'[e][f]] \in Over
    BY <1>1, <2>1 DEF Sources
  <2>2. ASSUME NEW f \in Fd, f \in active'[d]
        PROVE  conn'[d][f] # NULL /\ shell'[conn'[d][f]] \in Over
    BY <1>1, <1>5, <2>2 DEF Sources
  <2> QED  BY <1>1, <1>3, <2>1, <2>2 DEF Sources
<1>10. Places'
  <2>1. ASSUME NEW e \in Daemon, NEW i \in 1 .. Len(backlog'[e])
        PROVE  to[backlog'[e][i]] = e
    <3>1. CASE e = d
      <4>1. i \in 1 .. n - 1 /\ i + 1 \in 1 .. n
        BY <1>2, <2>1, <3>1
      <4> QED  BY <1>2, <3>1, <4>1 DEF Places, n
    <3>2. CASE e # d
      BY <1>1, <2>1, <3>2 DEF Places
    <3> QED  BY <3>1, <3>2
  <2>2. ASSUME NEW e \in Daemon, NEW f \in Fd, conn'[e][f] # NULL
        PROVE  to[conn'[e][f]] = e
    BY <1>1, <1>3, <1>5, <2>2 DEF Places
  <2> QED  BY <1>1, <2>1, <2>2 DEF Places
<1>11. Located'
  <2> SUFFICES ASSUME NEW a \in Shell, NEW e \in Daemon, to'[a] = e, stage'[e] # "dead",
                      a \notin applied' \cup lost', \A f \in Fd : conn'[e][f] # a
               PROVE  \E i \in 1 .. Len(backlog'[e]) : backlog'[e][i] = a
    BY DEF Located
  <2>1. CASE e # d
    BY <1>1, <1>7, <2>1 DEF Located
  <2>2. CASE e = d
    <3>1. a # s /\ \A f \in Fd : conn[d][f] # a
      BY <1>5, <1>6, <2>2, CommandAssumption
    <3>2. PICK i \in 1 .. n : backlog[d][i] = a
      BY <1>1, <1>7, <2>2, <3>1 DEF Located, n
    <3>3. i - 1 \in 1 .. n - 1 /\ backlog'[d][i - 1] = a
      BY <1>2, <3>1, <3>2
    <3> QED  BY <1>2, <2>2, <3>3
  <2> QED  BY <2>1, <2>2
<1>12. ASSUME NEW e \in Daemon PROVE Ahead(e)'
  <2>1. CASE e # d
    BY <1>1, <2>1 DEF Ahead
  <2>2. CASE e = d
    <3>1. ASSUME NEW i \in 1 .. n - 1, NEW j \in 1 .. n - 1,
                 backlog'[d][j] \in before[backlog'[d][i]]
          PROVE  j < i
      <4>1. i + 1 \in 1 .. n /\ j + 1 \in 1 .. n
        BY <1>2, <3>1
      <4>2. backlog[d][j + 1] \in before[backlog[d][i + 1]]
        BY <1>2, <3>1
      <4>3. j + 1 < i + 1
        BY <4>1, <4>2 DEF Ahead, n
      <4> QED  BY <1>2, <4>3
    <3>2. ASSUME NEW f \in Fd, NEW j \in 1 .. n - 1, conn'[d][f] # NULL
          PROVE  backlog'[d][j] \notin before[conn'[d][f]]
      <4>1. j + 1 \in 1 .. n /\ backlog'[d][j] = backlog[d][j + 1]
        <5>1. backlog'[d][j] = backlog[d][j + 1]
          BY <1>2, <3>2
        <5>2. j + 1 \in 1 .. n
          BY <1>2, <3>2
        <5> QED  BY <5>1, <5>2
      <4>2. CASE conn'[d][f] = conn[d][f]
        BY <3>2, <4>1, <4>2 DEF Ahead, n
      <4>3. CASE conn'[d][f] = s
        <5>1. backlog[d][j + 1] \in before[s] => j + 1 < 1
          BY <1>2, <1>3, <4>1 DEF Ahead, n
        <5> QED  BY <1>2, <3>2, <4>1, <4>3, <5>1
      <4> QED  BY <1>5, <4>2, <4>3
    <3>3. ASSUME NEW f \in Fd, NEW g \in Fd, conn'[d][f] # NULL, conn'[d][g] # NULL,
                 conn'[d][g] \in before[conn'[d][f]]
          PROVE  g \in active[d] /\ f \notin active[d]
      <4>1. s \notin before[s]
        BY <1>2, <1>3 DEF Ahead, n
      <4>2. CASE conn'[d][f] = conn[d][f] /\ conn'[d][g] = conn[d][g]
        BY <3>3, <4>2 DEF Ahead
      <4>3. CASE conn'[d][f] = conn[d][f] /\ conn'[d][g] = s
        BY <1>2, <1>3, <3>3, <4>3 DEF Ahead, n
      <4>4. CASE conn'[d][f] = s /\ conn'[d][f] # conn[d][f] /\ conn'[d][g] = conn[d][g]
        <5>1. conn[d][f] = NULL
          BY <1>5, <4>4
        <5>2. f \notin active[d]
          BY <5>1 DEF Sources
        <5>3. g \in active[d]
          BY <1>1, <1>2, <3>3, <4>4 DEF Ahead
        <5> QED  BY <5>2, <5>3
      <4>5. CASE conn'[d][f] = s /\ conn'[d][g] = s
        BY <3>3, <4>1, <4>5
      <4> QED  BY <1>5, <4>2, <4>3, <4>4, <4>5
    <3>4. \A f \in Fd : f \in active'[d] <=> f \in active[d]
      BY <1>1, <1>4
    <3> QED  BY <1>1, <1>2, <2>2, <3>1, <3>2, <3>3, <3>4 DEF Ahead
  <2> QED  BY <2>1, <2>2
<1>13. WholeCommands' /\ SequentialOrder'
  BY <1>1, <1>7 DEF WholeCommands, SequentialOrder
<1> QED  BY <1>8, <1>9, <1>10, <1>11, <1>12, <1>13

LEMMA AcceptInv ==
    ASSUME CommandInv, NEW d \in Daemon, Accept(d)
    PROVE  CommandInv'
<1>1. CASE AcceptFails(d)
  BY <1>1, AcceptFailsInv
<1>2. CASE Watch(d)
  BY <1>2, AcceptedInv DEF Watch, Lowest
<1>3. CASE Refuse(d)
  BY <1>3, AcceptedInv DEF Refuse
<1>4. CASE Die(d)
  BY <1>4, DieInv
<1> QED  BY <1>1, <1>2, <1>3, <1>4 DEF Accept

(* The run served was behind nobody who still waits: not in the backlog, and  *)
(* on a descriptor only if this turn had not reached it.                      *)
LEMMA RequestInv ==
    ASSUME CommandInv, NEW d \in Daemon, NEW f \in Fd, Request(d, f)
    PROVE  CommandInv'
<1> USE DEF CommandInv
<1> DEFINE s == conn[d][f]
<1>1. /\ f \in active[d] /\ f # Listener /\ active'[d] = active[d] \ {f}
      /\ conn'[d][f] = NULL
      /\ \A g \in Fd : g # f => conn'[d][g] = conn[d][g]
      /\ \A e \in Daemon : e # d => active'[e] = active[e] /\ conn'[e] = conn[e]
      /\ UNCHANGED <<shell, to, path, stage, backlog, before>>
  BY DEF Request, Done, TypeOK, shellVars
<1>2. s \in Shell /\ s # NULL /\ to[s] = d /\ stage[d] = "serving"
  BY <1>1 DEF Sources, Places, TypeOK
<1>3. /\ applied \subseteq applied' /\ lost \subseteq lost'
      /\ applied' \cup lost' = applied \cup lost \cup {s}
      /\ applied' \subseteq applied \cup {s}
      /\ s \in applied' => s \in applied \/ Whole(s)
  BY DEF Request
<1>4. TypeOK'
  <2>1. conn' \in [Daemon -> [Fd -> Shell \cup {NULL}]]
    BY DEF Request, TypeOK
  <2>2. active' \in [Daemon -> SUBSET (Fd \cup {Listener})]
    BY DEF Request, Done, TypeOK
  <2>3. applied' \subseteq Shell /\ lost' \subseteq Shell
    BY <1>2, <1>3 DEF TypeOK
  <2> QED  BY <1>1, <2>1, <2>2, <2>3 DEF TypeOK
<1> HIDE DEF s
<1>5. Sources'
  <2>1. ASSUME NEW e \in Daemon, NEW g \in Fd, g \in active'[e]
        PROVE  conn'[e][g] # NULL /\ shell'[conn'[e][g]] \in Over
    BY <1>1, <2>1 DEF Sources
  <2> QED  BY <1>1, <1>2, <2>1 DEF Sources
<1>6. Places'
  <2>1. ASSUME NEW e \in Daemon, NEW g \in Fd, conn'[e][g] # NULL
        PROVE  to[conn'[e][g]] = e
    BY <1>1, <2>1 DEF Places
  <2>2. \A a \in applied' : to[a] # NULL
    BY <1>2, <1>3, CommandAssumption DEF Places
  <2> QED  BY <1>1, <2>1, <2>2 DEF Places
<1>7. Located'
  <2> SUFFICES ASSUME NEW a \in Shell, NEW e \in Daemon, to'[a] = e, stage'[e] # "dead",
                      a \notin applied' \cup lost', \A g \in Fd : conn'[e][g] # a
               PROVE  \E i \in 1 .. Len(backlog'[e]) : backlog'[e][i] = a
    BY DEF Located
  <2>1. a # s /\ a \notin applied \cup lost
    BY <1>3
  <2>2. \A g \in Fd : conn[e][g] # a
    BY <1>1, <2>1 DEF s
  <2> QED  BY <1>1, <2>1, <2>2 DEF Located
<1>8. ASSUME NEW e \in Daemon PROVE Ahead(e)'
  <2>1. CASE e # d
    BY <1>1, <2>1 DEF Ahead
  <2>2. CASE e = d
    <3>1. \A g \in Fd : conn'[d][g] # NULL => g # f /\ conn'[d][g] = conn[d][g]
      BY <1>1
    <3>2. \A g \in Fd : g # f => (g \in active'[d] <=> g \in active[d])
      BY <1>1
    <3>3. Listener \in active'[d] => Listener \in active[d]
      BY <1>1
    <3> QED  BY <1>1, <2>2, <3>1, <3>2, <3>3 DEF Ahead
  <2> QED  BY <2>1, <2>2
<1>9. WholeCommands'
  BY <1>1, <1>3 DEF WholeCommands, Whole
<1>10. SequentialOrder'
  <2> SUFFICES ASSUME NEW b \in applied', NEW a \in before'[b], to'[a] = to'[b]
               PROVE  a \in applied' \cup lost'
    BY DEF SequentialOrder
  <2>1. CASE b \in applied
    BY <1>1, <1>3, <2>1 DEF SequentialOrder
  <2>2. CASE b = s
    <3>1. a \in Shell /\ a \in before[s] /\ to[a] = d
      BY <1>1, <1>2, <2>2 DEF TypeOK
    <3>2. \A i \in 1 .. Len(backlog[d]) : backlog[d][i] # a
      BY <1>2, <3>1 DEF Ahead, s
    <3>3. \A g \in Fd : conn[d][g] # a
      BY <1>1, <1>2, <3>1, CommandAssumption DEF Ahead, s
    <3>4. a \in applied \cup lost
      BY <1>2, <3>1, <3>2, <3>3 DEF Located
    <3> QED  BY <1>3, <3>4
  <2> QED  BY <1>3, <2>1, <2>2
<1> QED  BY <1>4, <1>5, <1>6, <1>7, <1>8, <1>9, <1>10

LEMMA CommandInvHolds == Spec => []CommandInv
<1>1. ASSUME CommandInv, [Next]_vars PROVE CommandInv'
  <2>1. CASE UNCHANGED vars
    <3>1. /\ TypeOK' /\ Sources' /\ Places' /\ Located'
      BY <1>1, <2>1 DEF CommandInv, vars, TypeOK, Sources, Places, Located
    <3>2. (\A d \in Daemon : Ahead(d)') /\ WholeCommands' /\ SequentialOrder'
      BY <1>1, <2>1 DEF CommandInv, vars, Ahead, WholeCommands, SequentialOrder
    <3> QED  BY <3>1, <3>2 DEF CommandInv
  <2>2. ASSUME NEW s \in Shell, ShellStep(s) PROVE CommandInv'
    BY <1>1, <2>2, StartInv, ConnectInv, EndInv DEF ShellStep
  <2>3. ASSUME NEW d \in Daemon, DaemonStep(d) PROVE CommandInv'
    <3>1. CASE StartDaemon(d) \/ Bind(d) \/ Listen(d)
      BY <1>1, <3>1, StageInv
    <3>2. CASE Kill(d)
      BY <1>1, <3>2, DieInv DEF Kill
    <3>3. CASE Poll(d)
      BY <1>1, <3>3, PollInv
    <3>4. CASE Accept(d)
      BY <1>1, <3>4, AcceptInv
    <3>5. ASSUME NEW f \in Fd, Request(d, f) PROVE CommandInv'
      BY <1>1, <3>5, RequestInv
    <3> QED  BY <2>3, <3>1, <3>2, <3>3, <3>4, <3>5 DEF DaemonStep
  <2> QED  BY <1>1, <2>1, <2>2, <2>3 DEF Next
<1> QED  BY <1>1, InitCommandInv, PTL DEF Spec

(* No connection is in two places: two entries of a backlog, two descriptors, *)
(* one of each, or any of them and among the applied or the lost.             *)
Once ==
    /\ \A d \in Daemon :
          /\ \A i, j \in 1 .. Len(backlog[d]) : backlog[d][i] = backlog[d][j] => i = j
          /\ \A i \in 1 .. Len(backlog[d]) : backlog[d][i] \notin applied \cup lost
          /\ \A f, g \in Fd : conn[d][f] # NULL /\ conn[d][f] = conn[d][g] => f = g
          /\ \A f \in Fd : conn[d][f] \notin applied \cup lost
          /\ \A i \in 1 .. Len(backlog[d]), f \in Fd : backlog[d][i] # conn[d][f]
    /\ \A s \in lost : to[s] # NULL
    /\ applied \cap lost = {}

LEMMA ConnectOnce ==
    ASSUME CommandInv, Once, NEW s \in Shell, ConnectServer(s)
    PROVE  Once'
<1> USE DEF CommandInv
<1>1. UNCHANGED <<conn, applied, lost>>
  BY DEF ConnectServer, serverVars
<1>2. CASE UNCHANGED <<to, backlog>>
  BY <1>1, <1>2 DEF Once
<1>3. ASSUME NEW d \in Daemon, to' = [to EXCEPT ![s] = d],
             backlog' = [backlog EXCEPT ![d] = Append(@, s)]
      PROVE  Once'
  <2>1. to[s] = NULL /\ d # NULL
    BY CommandAssumption DEF ConnectServer, Places
  <2>2. /\ s \notin applied \cup lost
        /\ \A e \in Daemon : \A i \in 1 .. Len(backlog[e]) : backlog[e][i] # s
        /\ \A e \in Daemon, f \in Fd : conn[e][f] # s
    <3>1. \A e \in Daemon : e # NULL
      BY CommandAssumption
    <3>2. s \notin applied \cup lost
      BY <2>1 DEF Places, Once
    <3>3. \A e \in Daemon : \A i \in 1 .. Len(backlog[e]) : backlog[e][i] # s
      BY <2>1, <3>1 DEF Places
    <3>4. \A e \in Daemon, f \in Fd : conn[e][f] # s
      BY <2>1, <3>1, CommandAssumption DEF Places
    <3> QED  BY <3>2, <3>3, <3>4
  <2> DEFINE n == Len(backlog[d])
  <2>3. /\ n \in Nat /\ Len(backlog'[d]) = n + 1 /\ backlog'[d][n + 1] = s
        /\ \A i \in 1 .. n : backlog'[d][i] = backlog[d][i]
        /\ \A e \in Daemon : e # d => backlog'[e] = backlog[e]
    BY <1>3, AppendBacklog DEF TypeOK
  <2>4. \A t \in lost' : to'[t] # NULL
    BY <1>1, <1>3, <2>1 DEF Once, TypeOK
  <2> HIDE DEF n
  <2>5. ASSUME NEW i \in 1 .. Len(backlog'[d])
        PROVE  i \in 1 .. n \/ i = n + 1
    BY <2>3
  <2>6. ASSUME NEW i \in 1 .. Len(backlog'[d]), NEW j \in 1 .. Len(backlog'[d]),
               backlog'[d][i] = backlog'[d][j]
        PROVE  i = j
    BY <2>2, <2>3, <2>5, <2>6 DEF Once, n
  <2>7. ASSUME NEW i \in 1 .. Len(backlog'[d])
        PROVE  /\ backlog'[d][i] \notin applied \cup lost
               /\ \A f \in Fd : backlog'[d][i] # conn[d][f]
    BY <2>2, <2>3, <2>5 DEF Once, n
  <2>8. ASSUME NEW e \in Daemon
        PROVE  /\ \A i, j \in 1 .. Len(backlog'[e]) : backlog'[e][i] = backlog'[e][j] => i = j
               /\ \A i \in 1 .. Len(backlog'[e]) : backlog'[e][i] \notin applied \cup lost
               /\ \A i \in 1 .. Len(backlog'[e]), f \in Fd : backlog'[e][i] # conn[e][f]
    <3>1. CASE e = d
      BY <2>6, <2>7, <3>1
    <3>2. CASE e # d
      BY <2>3, <3>2 DEF Once
    <3> QED  BY <3>1, <3>2
  <2> QED  BY <1>1, <2>4, <2>8 DEF Once
<1> QED  BY <1>2, <1>3 DEF ConnectServer

LEMMA AcceptedOnce ==
    ASSUME CommandInv, Once, NEW d \in Daemon, Accept(d), NEW s, s = Head(backlog[d]),
           backlog' = [backlog EXCEPT ![d] = Tail(@)], Done(d, Listener),
           \/ \E f \in Free(d) : conn' = [conn EXCEPT ![d][f] = s] /\ lost' = lost
           \/ conn' = conn /\ lost' = lost \cup {s}
    PROVE  Once'
<1> USE DEF CommandInv
<1> DEFINE n == Len(backlog[d])
<1>1. /\ backlog[d] # <<>> /\ backlog[d] \in Seq(Shell) /\ backlog'[d] = Tail(backlog[d])
      /\ \A e \in Daemon : e # d => backlog'[e] = backlog[e] /\ conn'[e] = conn[e]
      /\ UNCHANGED <<to, applied>>
  BY DEF Accept, Sources, TypeOK, shellVars, Free
<1>2. /\ s = backlog[d][1] /\ n \in Nat /\ n >= 1
      /\ Len(backlog'[d]) = n - 1
      /\ \A i \in 1 .. n - 1 : backlog'[d][i] = backlog[d][i + 1]
  <2> DEFINE q == backlog[d]
  <2>1. q \in Seq(Shell) /\ q # <<>>
    BY <1>1
  <2> HIDE DEF q
  <2>2. /\ Head(q) = q[1] /\ Len(q) \in Nat /\ Len(q) >= 1 /\ Len(Tail(q)) = Len(q) - 1
        /\ \A i \in 1 .. Len(Tail(q)) : Tail(q)[i] = q[i + 1]
    BY <2>1, TailBacklog
  <2> QED  BY <1>1, <2>2 DEF q
<1>3. \/ lost' = lost /\ (\A f \in Fd : conn'[d][f] \in {conn[d][f], s})
         /\ \A f, g \in Fd : conn'[d][f] # conn[d][f] /\ conn'[d][g] # conn[d][g] => f = g
      \/ lost' = lost \cup {s} /\ conn' = conn
  BY DEF Free, TypeOK
<1> HIDE DEF n
<1>4. 1 \in 1 .. n /\ \A i \in 1 .. n - 1 : i + 1 \in 1 .. n /\ i + 1 # 1
  BY <1>2
<1>5. to[s] # NULL /\ s \notin applied \cup lost /\ \A f \in Fd : conn[d][f] # s
  BY <1>2, <1>4, CommandAssumption DEF Places, Once, n
<1>6. ASSUME NEW i \in 1 .. n - 1
      PROVE  /\ backlog'[d][i] # s /\ backlog'[d][i] \notin applied \cup lost
             /\ \A f \in Fd : backlog'[d][i] # conn[d][f]
  BY <1>2, <1>4 DEF Once, n
<1>7. ASSUME NEW i \in 1 .. n - 1, NEW j \in 1 .. n - 1, backlog'[d][i] = backlog'[d][j]
      PROVE  i = j
  <2>1. i + 1 = j + 1
    BY <1>2, <1>4, <1>7 DEF Once, n
  <2> QED  BY <2>1
<1>8. ASSUME NEW f \in Fd, NEW g \in Fd, conn'[d][f] # NULL, conn'[d][f] = conn'[d][g]
      PROVE  f = g
  BY <1>3, <1>5, <1>8 DEF Once
<1>9. ASSUME NEW f \in Fd PROVE conn'[d][f] \notin applied \cup lost'
  BY <1>3, <1>5 DEF Once
<1>10. ASSUME NEW i \in 1 .. n - 1
       PROVE  /\ backlog'[d][i] \notin applied \cup lost'
              /\ \A f \in Fd : backlog'[d][i] # conn'[d][f]
  <2>1. lost' \subseteq lost \cup {s} /\ \A f \in Fd : conn'[d][f] \in {conn[d][f], s}
    BY <1>3
  <2> QED  BY <1>6, <2>1
<1>11. ASSUME NEW e \in Daemon, e # d
       PROVE  s \notin {backlog[e][i] : i \in 1 .. Len(backlog[e])} /\ \A f \in Fd : conn[e][f] # s
  <2>1. to[s] = d
    BY <1>2, <1>4 DEF Places, n
  <2>2. \A i \in 1 .. Len(backlog[e]) : backlog[e][i] # s
    BY <1>11, <2>1 DEF Places
  <2>3. s # NULL
    <3>1. s \in Shell
      BY <1>1, TailBacklog
    <3> QED  BY <3>1, CommandAssumption
  <2>4. \A f \in Fd : conn[e][f] # s
    BY <1>11, <2>1, <2>3 DEF Places
  <2> QED  BY <2>2, <2>4
<1>12. ASSUME NEW e \in Daemon
       PROVE  /\ \A i, j \in 1 .. Len(backlog'[e]) : backlog'[e][i] = backlog'[e][j] => i = j
              /\ \A i \in 1 .. Len(backlog'[e]) : backlog'[e][i] \notin applied' \cup lost'
              /\ \A f, g \in Fd : conn'[e][f] # NULL /\ conn'[e][f] = conn'[e][g] => f = g
              /\ \A f \in Fd : conn'[e][f] \notin applied' \cup lost'
              /\ \A i \in 1 .. Len(backlog'[e]), f \in Fd : backlog'[e][i] # conn'[e][f]
  <2>1. CASE e = d
    BY <1>1, <1>2, <1>7, <1>8, <1>9, <1>10, <2>1
  <2>2. CASE e # d
    BY <1>1, <1>3, <1>11, <2>2 DEF Once
  <2> QED  BY <2>1, <2>2
<1>13. (\A t \in lost' : to'[t] # NULL) /\ applied' \cap lost' = {}
  BY <1>1, <1>3, <1>5 DEF Once
<1> QED  BY <1>12, <1>13 DEF Once

LEMMA RequestOnce ==
    ASSUME CommandInv, Once, NEW d \in Daemon, NEW f \in Fd, Request(d, f)
    PROVE  Once'
<1> USE DEF CommandInv
<1> DEFINE s == conn[d][f]
<1>1. /\ conn'[d][f] = NULL
      /\ \A g \in Fd : g # f => conn'[d][g] = conn[d][g]
      /\ \A e \in Daemon : e # d => conn'[e] = conn[e]
      /\ UNCHANGED <<to, backlog>>
  BY DEF Request, TypeOK, shellVars
<1>2. s \in Shell /\ s # NULL /\ to[s] = d /\ d # NULL
  BY CommandAssumption DEF Request, Sources, Places, TypeOK
<1>3. /\ applied' \cup lost' = applied \cup lost \cup {s}
      /\ lost' \subseteq lost \cup {s}
      /\ \/ applied' = applied \cup {s} /\ lost' = lost
         \/ applied' = applied /\ lost' = lost \cup {s}
  BY DEF Request
<1>4. s \notin applied \cup lost
  BY DEF Once
<1>5. ASSUME NEW e \in Daemon
      PROVE  /\ \A i \in 1 .. Len(backlog[e]) : backlog[e][i] # s
             /\ \A g \in Fd : conn'[e][g] # s
  <2>1. CASE e = d
    BY <1>1, <1>2, <2>1 DEF Once
  <2>2. CASE e # d
    BY <1>1, <1>2, <2>2 DEF Places
  <2> QED  BY <2>1, <2>2
<1>6. NULL \notin applied \cup lost /\ \A e \in Daemon : \A i \in 1 .. Len(backlog[e]) :
          backlog[e][i] # NULL
  BY CommandAssumption DEF TypeOK
<1> HIDE DEF s
<1>7. ASSUME NEW e \in Daemon, NEW g \in Fd
      PROVE  conn'[e][g] = NULL \/ conn'[e][g] = conn[e][g]
  BY <1>1
<1>8. ASSUME NEW e \in Daemon
      PROVE  /\ \A i \in 1 .. Len(backlog'[e]) : backlog'[e][i] \notin applied' \cup lost'
             /\ \A g, h \in Fd : conn'[e][g] # NULL /\ conn'[e][g] = conn'[e][h] => g = h
             /\ \A g \in Fd : conn'[e][g] \notin applied' \cup lost'
             /\ \A i \in 1 .. Len(backlog'[e]), g \in Fd : backlog'[e][i] # conn'[e][g]
  <2>1. \A i \in 1 .. Len(backlog'[e]) : backlog'[e][i] \notin applied' \cup lost'
    BY <1>1, <1>3, <1>5 DEF Once
  <2>2. \A g, h \in Fd : conn'[e][g] # NULL /\ conn'[e][g] = conn'[e][h] => g = h
    BY <1>7 DEF Once
  <2>3. \A g \in Fd : conn'[e][g] \notin applied' \cup lost'
    BY <1>2, <1>3, <1>5, <1>6, <1>7 DEF Once
  <2>4. \A i \in 1 .. Len(backlog'[e]), g \in Fd : backlog'[e][i] # conn'[e][g]
    BY <1>1, <1>6, <1>7 DEF Once
  <2> QED  BY <2>1, <2>2, <2>3, <2>4
<1>9. (\A t \in lost' : to'[t] # NULL) /\ applied' \cap lost' = {}
  BY <1>1, <1>2, <1>3, <1>4 DEF Once
<1> QED  BY <1>1, <1>8, <1>9 DEF Once

LEMMA DieOnce ==
    ASSUME CommandInv, Once, NEW d \in Daemon, Die(d)
    PROVE  Once'
<1> USE DEF CommandInv
<1>1. /\ backlog'[d] = <<>> /\ Len(<<>>) = 0 /\ \A f \in Fd : conn'[d][f] = NULL
      /\ \A e \in Daemon : e # d => backlog'[e] = backlog[e] /\ conn'[e] = conn[e]
      /\ UNCHANGED <<to, applied, lost>>
  BY DEF Die, TypeOK, shellVars
<1>2. NULL \notin applied \cup lost
  BY CommandAssumption DEF TypeOK
<1>3. ASSUME NEW e \in Daemon
      PROVE  /\ \A i, j \in 1 .. Len(backlog'[e]) : backlog'[e][i] = backlog'[e][j] => i = j
             /\ \A i \in 1 .. Len(backlog'[e]) : backlog'[e][i] \notin applied' \cup lost'
             /\ \A f, g \in Fd : conn'[e][f] # NULL /\ conn'[e][f] = conn'[e][g] => f = g
             /\ \A f \in Fd : conn'[e][f] \notin applied' \cup lost'
             /\ \A i \in 1 .. Len(backlog'[e]), f \in Fd : backlog'[e][i] # conn'[e][f]
  <2>1. CASE e = d
    BY <1>1, <1>2, <2>1
  <2>2. CASE e # d
    BY <1>1, <2>2 DEF Once
  <2> QED  BY <2>1, <2>2
<1> QED  BY <1>1, <1>3 DEF Once

LEMMA OnceHolds == Spec => []Once
<1>1. Init => Once
  BY CommandAssumption DEF Init, Once
<1>2. ASSUME CommandInv, Once, [Next]_vars PROVE Once'
  <2>1. ASSUME UNCHANGED <<to, backlog, conn, applied, lost>> PROVE Once'
    BY <1>2, <2>1 DEF Once
  <2>2. CASE UNCHANGED vars
    BY <2>1, <2>2 DEF vars
  <2>3. ASSUME NEW s \in Shell, ShellStep(s) PROVE Once'
    <3>1. CASE Start(s) \/ Write(s) \/ Interrupt(s)
      BY <2>1, <3>1 DEF Start, Write, Interrupt, serverVars
    <3> QED  BY <1>2, <2>3, <3>1, ConnectOnce DEF ShellStep
  <2>4. ASSUME NEW d \in Daemon, DaemonStep(d) PROVE Once'
    <3>1. CASE StartDaemon(d) \/ Bind(d) \/ Listen(d) \/ Poll(d)
      BY <2>1, <3>1 DEF StartDaemon, Bind, Listen, Poll, shellVars
    <3>2. CASE Kill(d)
      BY <1>2, <3>2, DieOnce DEF Kill
    <3>3. CASE Accept(d)
      <4>1. CASE AcceptFails(d)
        BY <2>1, <3>3, <4>1 DEF Accept, AcceptFails, shellVars
      <4>2. CASE Watch(d)
        BY <1>2, <3>3, <4>2, AcceptedOnce DEF Watch, Lowest
      <4>3. CASE Refuse(d)
        BY <1>2, <3>3, <4>3, AcceptedOnce DEF Refuse
      <4>4. CASE Die(d)
        BY <1>2, <4>4, DieOnce
      <4> QED  BY <3>3, <4>1, <4>2, <4>3, <4>4 DEF Accept
    <3>4. ASSUME NEW f \in Fd, Request(d, f) PROVE Once'
      BY <1>2, <3>4, RequestOnce
    <3> QED  BY <2>4, <3>1, <3>2, <3>3, <3>4 DEF DaemonStep
  <2> QED  BY <1>2, <2>2, <2>3, <2>4 DEF Next
<1> QED  BY <1>1, <1>2, CommandInvHolds, PTL DEF Spec

(* A backlog is no longer than there are runs to be in it.                    *)
LEMMA BacklogBounded ==
    ASSUME CommandInv, Once, NEW d \in Daemon
    PROVE  Len(backlog[d]) \in Nat /\ Len(backlog[d]) <= Cardinality(Shell)
<1> DEFINE q == backlog[d]
<1>1. q \in Seq(Shell)
  BY DEF CommandInv, TypeOK
<1>2. \A i, j \in 1 .. Len(q) : q[i] = q[j] => i = j
  BY DEF Once
<1> HIDE DEF q
<1>3. Len(q) \in Nat /\ q \in [1 .. Len(q) -> Shell]
  BY <1>1
<1>4. q \in Injection(1 .. Len(q), Shell)
  BY <1>2, <1>3 DEF Injection, IsInjective
<1>5. Cardinality(1 .. Len(q)) <= Cardinality(Shell)
  BY <1>4, CommandAssumption, FS_Injection
<1>6. Cardinality(1 .. Len(q)) = Len(q)
  BY <1>3, FS_Interval
<1> QED  BY <1>3, <1>5, <1>6 DEF q

(* Every state is well-typed: what the callbacks put into the backlog, the    *)
(* descriptors and the turn is what they look for there (be_main.c:68-138).   *)
THEOREM CommandTypes == Spec => []TypeOK
BY CommandInvHolds, PTL DEF CommandInv

(* Only whole messages of the daemon's own layout are applied                 *)
(* (be_main.c:85-98).                                                         *)
THEOREM OnlyWholeCommands == Spec => []WholeCommands
BY CommandInvHolds, PTL DEF CommandInv

(* Commands given to one daemon one after the other take effect in that       *)
(* order, however many processes, daemons and descriptors there are           *)
(* (be_main.c:111).                                                           *)
THEOREM CommandsInOrder == Spec => []SequentialOrder
BY CommandInvHolds, PTL DEF CommandInv

LEMMA AtMostOne ==
    ASSUME NEW S, \A x, y \in S : x = y
    PROVE  Cardinality(S) = IF S = {} THEN 0 ELSE 1
<1>1. CASE S = {}
  BY <1>1, FS_EmptySet
<1>2. CASE S # {}
  <2>1. PICK x \in S : S = {x}
    BY <1>2
  <2> QED  BY <1>2, <2>1, FS_Singleton
<1> QED  BY <1>1, <1>2

(* A connection is in one place and never in two, and none disappears while   *)
(* its daemon lives, however many there are (be_main.c:68-138).               *)
THEOREM OneFateEach == Spec => []OneFate
<1>1. ASSUME CommandInv, Once, NEW s \in Shell
      PROVE  LET waits == {p \in Daemon \X (1 .. Cardinality(Shell)) :
                              p[2] <= Len(backlog[p[1]]) /\ backlog[p[1]][p[2]] = s}
                 holds == {p \in Daemon \X Fd : conn[p[1]][p[2]] = s}
                 fates == Cardinality(waits) + Cardinality(holds)
                     + (IF s \in applied THEN 1 ELSE 0) + (IF s \in lost THEN 1 ELSE 0)
             IN  /\ fates <= 1
                 /\ fates = 0 => to[s] = NULL \/ stage[to[s]] = "dead"
                 /\ \A p \in waits \cup holds : p[1] = to[s]
  <2> USE <1>1 DEF CommandInv
  <2> DEFINE waits == {p \in Daemon \X (1 .. Cardinality(Shell)) :
                          p[2] <= Len(backlog[p[1]]) /\ backlog[p[1]][p[2]] = s}
             holds == {p \in Daemon \X Fd : conn[p[1]][p[2]] = s}
  <2>1. Cardinality(Shell) \in Nat /\ s # NULL
    BY CommandAssumption, FS_CardinalityType
  <2>2. ASSUME NEW p \in waits
        PROVE  /\ p = <<p[1], p[2]>> /\ p[1] \in Daemon
               /\ p[2] \in 1 .. Len(backlog[p[1]]) /\ backlog[p[1]][p[2]] = s
    <3>1. p = <<p[1], p[2]>> /\ p[1] \in Daemon /\ p[2] \in 1 .. Cardinality(Shell)
      OBVIOUS
    <3>2. p[2] <= Len(backlog[p[1]]) /\ backlog[p[1]][p[2]] = s
      OBVIOUS
    <3>3. Len(backlog[p[1]]) \in Nat
      BY <3>1, BacklogBounded
    <3>4. \A i, n, m : m \in Nat /\ n \in Nat /\ i \in 1 .. m /\ i <= n => i \in 1 .. n
      OBVIOUS
    <3>5. p[2] \in 1 .. Len(backlog[p[1]])
      BY <2>1, <3>1, <3>2, <3>3, <3>4, Zenon
    <3> QED  BY <3>1, <3>2, <3>5
  <2>3. ASSUME NEW p \in holds
        PROVE  p = <<p[1], p[2]>> /\ p[1] \in Daemon /\ p[2] \in Fd /\ conn[p[1]][p[2]] = s
    BY <2>3
  <2>4. ASSUME NEW p \in waits PROVE p[1] = to[s] /\ s \notin applied \cup lost
    BY <2>2 DEF Places, Once
  <2>5. ASSUME NEW p \in holds PROVE p[1] = to[s] /\ s \notin applied \cup lost
    BY <2>1, <2>3 DEF Places, Once
  <2>6. ASSUME to[s] # NULL, stage[to[s]] # "dead", s \notin applied \cup lost
        PROVE  waits # {} \/ holds # {}
    <3>1. to[s] \in Daemon
      BY <2>6 DEF TypeOK
    <3>2. CASE \E i \in 1 .. Len(backlog[to[s]]) : backlog[to[s]][i] = s
      <4>1. PICK i \in 1 .. Len(backlog[to[s]]) : backlog[to[s]][i] = s
        BY <3>2
      <4>2. Len(backlog[to[s]]) \in Nat /\ Len(backlog[to[s]]) <= Cardinality(Shell)
        BY <3>1, BacklogBounded
      <4>3. \A j, n, m : m \in Nat /\ n \in Nat /\ n <= m /\ j \in 1 .. n =>
                j \in 1 .. m /\ j <= n
        OBVIOUS
      <4>4. i \in 1 .. Cardinality(Shell) /\ i <= Len(backlog[to[s]])
        BY <2>1, <4>2, <4>3, Zenon
      <4>5. <<to[s], i>> \in waits
        BY <3>1, <4>1, <4>4
      <4> QED  BY <4>5
    <3>3. CASE \E f \in Fd : conn[to[s]][f] = s
      <4>1. PICK f \in Fd : conn[to[s]][f] = s
        BY <3>3
      <4>2. <<to[s], f>> \in holds
        BY <3>1, <4>1
      <4> QED  BY <4>2
    <3> QED  BY <2>6, <3>1, <3>2, <3>3 DEF Located
  <2> HIDE DEF waits, holds
  <2>7. \A p, r \in waits : p = r
    <3> SUFFICES ASSUME NEW p \in waits, NEW r \in waits PROVE p = r
      OBVIOUS
    <3>1. p[1] = r[1] /\ p[1] \in Daemon
      BY <2>2, <2>4
    <3>2. p[2] = r[2]
      BY <2>2, <3>1 DEF Once
    <3> QED  BY <2>2, <3>1, <3>2
  <2>8. \A p, r \in holds : p = r
    <3> SUFFICES ASSUME NEW p \in holds, NEW r \in holds PROVE p = r
      OBVIOUS
    <3>1. p[1] = r[1] /\ p[1] \in Daemon
      BY <2>3, <2>5
    <3>2. p[2] = r[2]
      BY <2>1, <2>3, <3>1 DEF Once
    <3> QED  BY <2>3, <3>1, <3>2
  <2>9. waits = {} \/ holds = {}
    <3> SUFFICES ASSUME NEW p \in waits, NEW r \in holds PROVE FALSE
      OBVIOUS
    <3>1. p[1] = r[1] /\ p[1] \in Daemon
      BY <2>2, <2>4, <2>5
    <3> QED  BY <2>2, <2>3, <3>1 DEF Once
  <2>10. /\ Cardinality(waits) = IF waits = {} THEN 0 ELSE 1
         /\ Cardinality(holds) = IF holds = {} THEN 0 ELSE 1
    BY <2>7, <2>8, AtMostOne
  <2>11. /\ waits # {} \/ holds # {} => s \notin applied /\ s \notin lost
         /\ ~(s \in applied /\ s \in lost)
    BY <2>4, <2>5 DEF Once
  <2> DEFINE fates == Cardinality(waits) + Cardinality(holds)
                     + (IF s \in applied THEN 1 ELSE 0) + (IF s \in lost THEN 1 ELSE 0)
  <2>12. fates <= 1 /\ (fates = 0 => waits = {} /\ holds = {} /\ s \notin applied \cup lost)
    BY <2>9, <2>10, <2>11
  <2>13. \A p \in waits \cup holds : p[1] = to[s]
    BY <2>4, <2>5
  <2> HIDE DEF fates
  <2>14. fates <= 1 /\ (fates = 0 => to[s] = NULL \/ stage[to[s]] = "dead")
    BY <2>6, <2>12
  <2> QED  BY <2>13, <2>14 DEF waits, holds, fates
<1>2. CommandInv /\ Once => OneFate
  BY <1>1 DEF OneFate
<1> QED  BY <1>2, CommandInvHolds, OnceHolds, PTL
=============================================================================
