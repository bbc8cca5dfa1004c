------------------------------ MODULE MCBackEnd ------------------------------
(* Small backends for TLC: two paths whose cards program the same switch      *)
(* behind ssh, or one of them the host's, or a path no plugin matches.        *)
EXTENDS BackEnd, TLC

CONSTANTS c1, c2, f1, f2, p1, p2, m1, m2

MCCard == {c1, c2}
MCFd == {f1, f2}
MCPath == {p1, p2}
MCMatch == {m1, m2}
MCBatch == {<<m1, m2>>, <<m2>>}
OneFlow == {<<m1>>}

BothRemote == p1 :> "remote" @@ p2 :> "remote"
OneEach == p1 :> "local" @@ p2 :> "remote"
OneUnmatched == p1 :> "local" @@ p2 :> NULL

MemorySymmetry == Permutations(MCCard) \cup Permutations(MCFd)
FullSymmetry == MemorySymmetry \cup Permutations(MCPath)
=============================================================================
