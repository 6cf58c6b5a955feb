---------------------------- MODULE ConfigSyncMC ----------------------------
(***************************************************************************)
(* ConfigSync for TLC.                                                     *)
(***************************************************************************)
EXTENDS ConfigSync, TLC

CONSTANTS h1, h2, l1, xray, singbox

Symmetry == Permutations({h1, h2}) \cup Permutations({xray, singbox})
=============================================================================
