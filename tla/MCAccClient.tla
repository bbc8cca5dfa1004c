---------------------------- MODULE MCAccClient ----------------------------
(* Two worker threads on a client table with room for both, and descriptors  *)
(* for the connections a race can leave behind.                              *)
EXTENDS AccClient

CONSTANTS t1, t2, f1, f2

MCThread == {t1, t2}
MCFd == {f1, f2}
=============================================================================
