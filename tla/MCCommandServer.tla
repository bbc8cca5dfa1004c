-------------------------- MODULE MCCommandServer --------------------------
(* Three runs of accsh, one of them of another build, two daemons of which   *)
(* one may take the path from the other, and fewer descriptors than runs.    *)
EXTENDS CommandServer

CONSTANTS s1, s2, s3

MCShell == {s1, s2, s3}
MCStale == {s3}
MCDaemon == 1 .. 2
MCFd == 1 .. 2
=============================================================================
