---------------------------- MODULE WGAccountMC -----------------------------
(***************************************************************************)
(* WGAccount for TLC.                                                      *)
(***************************************************************************)
EXTENDS WGAccount, TLC

CONSTANTS old, new
=============================================================================
