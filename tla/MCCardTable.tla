----------------------------- MODULE MCCardTable -----------------------------
(* A small card table for TLC: more paths and blocks than slots, so that the  *)
(* table fills up, frees a slot in the middle and reuses a freed block.       *)
EXTENDS CardTable
=============================================================================
