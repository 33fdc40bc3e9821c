---------------------------- MODULE MCTCPWindowTx ----------------------------
(***************************************************************************)
(* Small connections for TLC.                                               *)
(***************************************************************************)
EXTENDS TCPWindowTx
=============================================================================
