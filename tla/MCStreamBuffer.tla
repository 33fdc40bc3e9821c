--------------------------- MODULE MCStreamBuffer ---------------------------
(***************************************************************************)
(* A small stream buffer for TLC, used as an rxStream or as a txStream.  It *)
(* holds LENGTH - 1 bytes and MaxPos lets every index wrap around the array *)
(* several times.                                                           *)
(***************************************************************************)
EXTENDS StreamBuffer

VARIABLE use   \* which of the two streams of a socket it is

MCInit == Init /\ use \in {"rxStream", "txStream"}

MCNext ==
    /\ \/ use = "rxStream" /\ NextRx
       \/ use = "txStream" /\ NextTx
    /\ UNCHANGED use

MCSpec == MCInit /\ [][MCNext]_<<vars, use>>

=============================================================================
