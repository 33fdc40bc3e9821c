----------------------------- MODULE TCPSequence -----------------------------
(***************************************************************************)
(* Sequence numbers: uint32_t in the code, here the numbers below           *)
(* 2 * SeqHalf, with the comparisons of FreeRTOS_TCP_WIN.c.  The C          *)
(* expressions test bit 31 of a difference, which is set exactly when the   *)
(* difference is at least half of the number range.                         *)
(***************************************************************************)
EXTENDS Integers

CONSTANT SeqHalf       \* half of the sequence number range, 2^31 in the code

ASSUME SeqHalfAssumption == SeqHalf \in Nat /\ SeqHalf >= 2

SeqNr == 0 .. 2 * SeqHalf - 1

\* uint32_t addition of a count and uint32_t subtraction.
SeqAdd(a, n) == IF a + n >= 2 * SeqHalf THEN a + n - 2 * SeqHalf ELSE a + n
SeqSub(a, b) == IF a >= b THEN a - b ELSE a - b + 2 * SeqHalf

\* The cast of a difference to int32_t.
Signed(d) == IF d >= SeqHalf THEN d - 2 * SeqHalf ELSE d

xSequenceLessThanOrEqual(a, b) == SeqSub(b, a) < SeqHalf

xSequenceLessThan(a, b) == SeqSub(b, SeqAdd(a, 1)) < SeqHalf

xSequenceGreaterThan(a, b) == SeqSub(a, SeqAdd(b, 1)) < SeqHalf

xSequenceGreaterThanOrEqual(a, b) == SeqSub(a, b) < SeqHalf

-----------------------------------------------------------------------------
(***************************************************************************)
(* Chains of segments, records with a sequence number seq and a length len. *)
(***************************************************************************)
\* The sequence numbers that are reached from seq by following the segments,
\* each of which starts where the one before it ends.
Reached(segs, seq) ==
    LET numbers == {seq} \cup {SeqAdd(s.seq, s.len) : s \in segs}
        Closed(N) == seq \in N /\ \A s \in segs : s.seq \in N => SeqAdd(s.seq, s.len) \in N
    IN  {x \in numbers : \A N \in SUBSET numbers : Closed(N) => x \in N}

\* The chain of segments that starts at sequence number seq: the number after
\* its last byte and the segments it consists of.
Chain(segs, seq) ==
    [next |-> CHOOSE x \in Reached(segs, seq) : \A s \in segs : s.seq # x,
     used |-> {s \in segs : s.seq \in Reached(segs, seq)}]
=============================================================================
