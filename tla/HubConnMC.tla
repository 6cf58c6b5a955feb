----------------------------- MODULE HubConnMC ------------------------------
(***************************************************************************)
(* HubConn for TLC.                                                        *)
(***************************************************************************)
EXTENDS HubConn

CONSTANTS s1, s2, a1
=============================================================================
