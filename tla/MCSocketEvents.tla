--------------------------- MODULE MCSocketEvents ---------------------------
(***************************************************************************)
(* One task at one socket, for TLC: receiving and sending, while the IP     *)
(* task has the higher priority, and when it may be interrupted.            *)
(***************************************************************************)
EXTENDS SocketEvents

MCScenes ==
    {[priority |-> "ip", calls |-> {"connect", "recv", "shutdown"}, peer |-> {"data", "FIN", "RST"}],
     [priority |-> "ip", calls |-> {"connect", "send", "shutdown"}, peer |-> {"FIN", "RST"}],
     [priority |-> "any", calls |-> {"connect", "recv"}, peer |-> {"data", "RST"}],
     [priority |-> "any", calls |-> {"connect", "send", "shutdown"}, peer |-> {"RST"}]}
=============================================================================
