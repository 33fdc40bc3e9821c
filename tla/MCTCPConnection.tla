-------------------------- MODULE MCTCPConnection --------------------------
(***************************************************************************)
(* A connection with a few segments and a few packets on the way, for TLC.  *)
(***************************************************************************)
EXTENDS TCPConnection
=============================================================================
