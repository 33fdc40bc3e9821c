----------------------------- MODULE ByteStream -----------------------------
(***************************************************************************)
(* What a stream buffer promises: a bounded first-in first-out queue of the *)
(* bytes of a stream.  A byte is its position in the stream; next is the    *)
(* position of the byte that is put next.                                   *)
(***************************************************************************)
EXTENDS Integers, Sequences

CONSTANT Capacity

VARIABLES queue, next

Init == queue = << >> /\ next = 0

Put(n) ==
    /\ Len(queue) + n <= Capacity
    /\ queue' = queue \o [i \in 1 .. n |-> next + i - 1]
    /\ next' = next + n

Take(n) ==
    /\ queue' = SubSeq(queue, n + 1, Len(queue))
    /\ UNCHANGED next

Reset == queue' = << >> /\ next' = 0

Next ==
    \/ \E n \in 1 .. Capacity : Put(n)
    \/ \E n \in 1 .. Len(queue) : Take(n)
    \/ Reset

Spec == Init /\ [][Next]_<<queue, next>>
=============================================================================
