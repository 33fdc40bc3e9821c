-------------------------------- MODULE Lists --------------------------------
(***************************************************************************)
(* The lists of the kernel, as sequences.                                   *)
(***************************************************************************)
EXTENDS Naturals, Sequences, FiniteSets, SequencesExt

\* No two places of the list hold the same element.
Distinct(q) == \A i, j \in 1 .. Len(q) : q[i] = q[j] => i = j

\* uxListRemove: the list q without the elements of S, in the same order.
Without(q, S) ==
    LET kept == {i \in 1 .. Len(q) : q[i] \notin S}
        place(i) == Cardinality({j \in kept : j <= i})
    IN  [k \in 1 .. Cardinality(kept) |-> q[CHOOSE i \in kept : place(i) = k]]
=============================================================================
