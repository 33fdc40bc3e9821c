---------------------------- MODULE MCTCPListen ----------------------------
(***************************************************************************)
(* Small servers for TLC.                                                   *)
(***************************************************************************)
EXTENDS TCPListen
=============================================================================
