----------------------------- MODULE SyncLoopMC -----------------------------
(***************************************************************************)
(* SyncLoop for TLC.  No symmetry, which is unsound with liveness.         *)
(***************************************************************************)
EXTENDS SyncLoop

CONSTANTS h1, h2, l1, l2
=============================================================================
