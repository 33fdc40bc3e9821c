---------------------------- MODULE MCTCPWindowRx ----------------------------
(***************************************************************************)
(* A small connection for TLC.                                              *)
(***************************************************************************)
EXTENDS TCPWindowRx
=============================================================================
