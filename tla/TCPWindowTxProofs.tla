------------------------- MODULE TCPWindowTxProofs -------------------------
(***************************************************************************)
(* Proofs about the sending side of a TCP connection, for streams, buffers, *)
(* segments and descriptor pools of every size, wherever the sequence       *)
(* numbers and the indices of txStream wrap.                                *)
(***************************************************************************)
EXTENDS TCPWindowTx, ListLemmas

-----------------------------------------------------------------------------
(***************************************************************************)
(* Sequence numbers, positions in the stream and indices of the buffer.     *)
(***************************************************************************)
\* The sequence number of the byte at position o of the stream.
At(o) == SeqAdd(Isn, o)

LEMMA Sizes ==
    /\ {Total, MSS, LENGTH, TxWindow, PeerCapacity, SegCount, MaxTransmit, DupAcks,
        LargeCount, MaxAcks, SendRepeated, SeqHalf} \subseteq Nat
    /\ Total \in Nat /\ MSS \in Nat /\ LENGTH \in Nat /\ MSS > 0 /\ LENGTH > 1
    /\ Total + 1 < SeqHalf
    /\ \A o \in 0 .. Total : o \in 0 .. Total + 1
BY TxAssumption, SeqHalfAssumption

LEMMA Positions ==
    ASSUME NEW a \in 0 .. Total + 1, NEW b \in 0 .. Total + 1
    PROVE  /\ At(a) \in SeqNr /\ SeqSub(At(a), Isn) = a
           /\ At(a) = At(b) => a = b
           /\ b <= a => SeqSub(At(a), At(b)) = a - b
           /\ xSequenceLessThan(At(a), At(b)) <=> a < b
           /\ xSequenceLessThanOrEqual(At(a), At(b)) <=> a <= b
           /\ xSequenceGreaterThan(At(a), At(b)) <=> a > b
BY SeqHalfAssumption, TxAssumption
   DEF At, SeqNr, SeqAdd, SeqSub, xSequenceLessThan, xSequenceLessThanOrEqual,
       xSequenceGreaterThan

LEMMA Advance ==
    ASSUME NEW a \in 0 .. Total + 1, NEW n \in Nat, a + n <= Total + 1
    PROVE  SeqAdd(At(a), n) = At(a + n)
BY SeqHalfAssumption, TxAssumption DEF At, SeqNr, SeqAdd

LEMMA NumberOf ==
    ASSUME NEW x \in SeqNr
    PROVE  SeqSub(x, Isn) \in Nat /\ At(SeqSub(x, Isn)) = x
BY SeqHalfAssumption, TxAssumption DEF At, SeqNr, SeqAdd, SeqSub

LEMMA Wrapping ==
    ASSUME NEW i \in 0 .. LENGTH - 1, NEW n \in 0 .. LENGTH - 1, NEW k \in 0 .. LENGTH - 1,
           n + k <= LENGTH - 1
    PROVE  /\ Wrap(i + n) \in 0 .. LENGTH - 1
           /\ Wrap(Wrap(i + n) + k) = Wrap(i + (n + k))
           /\ Wrap(LENGTH + Wrap(i + n) - i) = n
           /\ lTCPIncrementTxPosition(Wrap(i + n), LENGTH, k) = Wrap(i + (n + k))
BY Sizes DEF Wrap, lTCPIncrementTxPosition

-----------------------------------------------------------------------------
(***************************************************************************)
(* The segments.  A window has the bytes from position t to position m - 1  *)
(* of the stream, and t is at index i of the buffer.                        *)
(***************************************************************************)
Numbers(S) == {s.seq : s \in S}

Unsent(S) == {s \in S : ~s.outstanding}

Open(S) == {s \in S : s.outstanding /\ ~s.acked}

Place(s, t, m, i) ==
    /\ t <= Offset(s) /\ Offset(s) + s.len <= m
    /\ s.pos = Wrap(i + (Offset(s) - t))

Tiled(S, t, m) ==
    \A b \in t .. m - 1 : \E s \in S : Covers(s, b) /\ \A u \in S : Covers(u, b) => u = s

Segments(S, t, m, i) ==
    /\ S \subseteq SegRecord /\ IsFiniteSet(S)
    /\ \A s \in S : Place(s, t, m, i)
    /\ Tiled(S, t, m)

\* A part of the stream that fits in the buffer.
Fits(t, m, i) ==
    /\ t \in 0 .. m /\ m \in 0 .. Total /\ m - t <= LENGTH - 1 /\ i \in 0 .. LENGTH - 1

LEMMA SegmentTypes ==
    ASSUME NEW s \in SegRecord
    PROVE  /\ s.seq \in SeqNr /\ s.len \in Nat /\ s.len > 0 /\ s.len <= MSS
           /\ Offset(s) \in Nat /\ At(Offset(s)) = s.seq
           /\ s.transmits \in Nat /\ s.dups \in Nat /\ s.pos \in Nat
<1>1. s.seq \in SeqNr /\ s.len \in 1 .. MSS /\ s.transmits \in 0 .. MaxTransmit
      /\ s.dups \in 0 .. DupAcks + 1 /\ s.pos \in 0 .. LENGTH - 1
    BY DEF SegRecord
<1> QED
    BY <1>1, NumberOf, Sizes DEF Offset

LEMMA OffsetRange ==
    ASSUME NEW S, NEW t, NEW m, NEW i, Fits(t, m, i), Segments(S, t, m, i), NEW s \in S
    PROVE  /\ s \in SegRecord /\ Offset(s) \in t .. m - 1 /\ Offset(s) + s.len \in t .. m
           /\ Offset(s) \in 0 .. Total + 1 /\ Offset(s) + s.len \in 0 .. Total + 1
           /\ s.seq = At(Offset(s)) /\ SeqAdd(s.seq, s.len) = At(Offset(s) + s.len)
           /\ Covers(s, Offset(s))
<1>1. s \in SegRecord /\ Place(s, t, m, i)
    BY DEF Segments
<1>2. /\ s.len \in Nat /\ s.len > 0 /\ Offset(s) \in Nat /\ At(Offset(s)) = s.seq
    BY <1>1, SegmentTypes
<1>3. t <= Offset(s) /\ Offset(s) + s.len <= m /\ t \in Nat /\ m \in Nat /\ m <= Total
    BY <1>1, Sizes DEF Place, Fits
<1>4. /\ Offset(s) \in t .. m - 1 /\ Offset(s) + s.len \in t .. m
      /\ Offset(s) \in 0 .. Total + 1 /\ Offset(s) + s.len \in 0 .. Total + 1
      /\ Offset(s) + s.len <= Total + 1
    BY <1>2, <1>3, Sizes
<1>5. SeqAdd(At(Offset(s)), s.len) = At(Offset(s) + s.len)
    BY <1>2, <1>4, Advance
<1> QED
    BY <1>1, <1>2, <1>4, <1>5 DEF Covers

\* No two segments share a byte, or a sequence number.
LEMMA NoOverlap ==
    ASSUME NEW S, NEW t, NEW m, NEW i, Fits(t, m, i), Segments(S, t, m, i),
           NEW s \in S, NEW u \in S, s.seq = u.seq \/ Covers(s, Offset(u))
    PROVE  s = u
<1>1. Covers(u, Offset(u)) /\ Offset(u) \in t .. m - 1
    BY OffsetRange
<1>2. Covers(s, Offset(u))
    <2>1. CASE s.seq = u.seq
        <3>1. Covers(s, Offset(s))
            BY OffsetRange
        <3> QED
            BY <2>1, <3>1 DEF Offset
    <2> QED
        BY <2>1
<1> QED
    BY <1>1, <1>2 DEF Segments, Tiled

LEMMA SizeOf ==
    ASSUME NEW S, IsFiniteSet(S), \A s, u \in S : s.seq = u.seq => s = u
    PROVE  IsFiniteSet(Numbers(S)) /\ Cardinality(Numbers(S)) = Cardinality(S)
<1> DEFINE N == Numbers(S)
           f == [s \in S |-> s.seq]
<1>1. f \in [S -> N]
    BY DEF Numbers
<1>2. \A s, u \in S : f[s] = f[u] => s = u
    OBVIOUS
<1>3. \A x \in N : \E s \in S : f[s] = x
    BY DEF Numbers
<1> HIDE DEF f, N
<1>4. f \in Injection(S, N) /\ f \in Surjection(S, N)
    BY <1>1, <1>2, <1>3, Fun_IsInj, Fun_IsSurj
<1> QED
    BY <1>4, FS_Surjection DEF N

\* Segments keep their place when only their flags and counters change.
Alike(s, u) == s.seq = u.seq /\ s.len = u.len /\ s.pos = u.pos

LEMMA Relabelled ==
    ASSUME NEW S, NEW t, NEW m, NEW i, Fits(t, m, i), Segments(S, t, m, i),
           NEW U \in SUBSET SegRecord, IsFiniteSet(U),
           \A s \in S : \E u \in U : Alike(s, u),
           \A u \in U : \E s \in S : Alike(s, u),
           \A u, v \in U : u.seq = v.seq => u = v
    PROVE  /\ Segments(U, t, m, i) /\ Numbers(U) = Numbers(S)
           /\ Cardinality(U) = Cardinality(S)
<1>1. \A s, u : Alike(s, u) => Offset(s) = Offset(u)
    BY DEF Alike, Offset
<1>2. \A s, u, b : Alike(s, u) => (Covers(s, b) <=> Covers(u, b))
    BY <1>1 DEF Alike, Covers
<1>3. \A u \in U : Place(u, t, m, i)
    <2> TAKE u \in U
    <2>1. PICK s \in S : Alike(s, u)
        OBVIOUS
    <2>2. Place(s, t, m, i)
        BY DEF Segments
    <2> QED
        BY <1>1, <2>1, <2>2 DEF Alike, Place
<1>4. Tiled(U, t, m)
    <2> SUFFICES ASSUME NEW b \in t .. m - 1
                 PROVE  \E u \in U : Covers(u, b) /\ \A v \in U : Covers(v, b) => v = u
        BY DEF Tiled
    <2>1. PICK s \in S : Covers(s, b) /\ \A v \in S : Covers(v, b) => v = s
        BY DEF Segments, Tiled
    <2>2. PICK u \in U : Alike(s, u)
        OBVIOUS
    <2>3. ASSUME NEW v \in U, Covers(v, b) PROVE v = u
        <3>1. PICK r \in S : Alike(r, v)
            OBVIOUS
        <3>2. r = s
            BY <1>2, <2>1, <2>3, <3>1
        <3> QED
            BY <2>2, <3>1, <3>2 DEF Alike
    <2> QED
        BY <1>2, <2>1, <2>2, <2>3
<1>5. Numbers(U) = Numbers(S)
    BY DEF Numbers, Alike
<1>6. \A s, u \in S : s.seq = u.seq => s = u
    BY NoOverlap
<1>7. IsFiniteSet(S)
    BY DEF Segments
<1>8. Cardinality(Numbers(U)) = Cardinality(U) /\ Cardinality(Numbers(S)) = Cardinality(S)
    BY <1>6, <1>7, SizeOf
<1> QED
    BY <1>3, <1>4, <1>5, <1>8 DEF Segments

-----------------------------------------------------------------------------
(***************************************************************************)
(* The window.                                                              *)
(***************************************************************************)
WinType == [cur : SeqNr, highest : SeqNr, next : SeqNr, segs : SUBSET SegRecord,
            txq : Seq(SeqNr), waitq : Seq(SeqNr), prioq : Seq(SeqNr),
            headSeg : SUBSET SeqNr, txWindow : Nat, finSeq : SeqNr]

\* The queues hold the numbers N of segments that were not sent, and the numbers
\* O of those that wait for an acknowledgement.
Lined(tx, wait, prio, N, O) ==
    /\ {tx, wait, prio} \subseteq Seq(SeqNr)
    /\ Distinct(tx) /\ Distinct(wait) /\ Distinct(prio)
    /\ ToSet(wait) \cap ToSet(prio) = {}
    /\ ToSet(tx) = N /\ ToSet(wait) \cup ToSet(prio) = O

Sorted(q) == \A j, k \in 1 .. Len(q) : j < k => SeqSub(q[j], Isn) < SeqSub(q[k], Isn)

\* What was sent ends at or before position h, the rest begins at or after it.
SentUpTo(S, h) ==
    \A s \in S : /\ s.outstanding => Offset(s) + s.len <= h
                 /\ ~s.outstanding => h <= Offset(s) /\ ~s.acked

\* Data may be added to the segment at the end of the window, before it is sent.
HeadIsLast(win, m) ==
    \A s \in win.segs : s.seq \in win.headSeg => ~s.outstanding /\ Offset(s) + s.len = m

Good(win, t, m, i) ==
    /\ win \in WinType
    /\ win.cur = At(t) /\ win.next = At(m)
    /\ Segments(win.segs, t, m, i)
    /\ Lined(win.txq, win.waitq, win.prioq, Numbers(Unsent(win.segs)), Numbers(Open(win.segs)))
    /\ Sorted(win.txq)
    /\ \E h \in t .. m : win.highest = At(h) /\ SentUpTo(win.segs, h)
    /\ HeadIsLast(win, m)

\* The bytes that were confirmed by a SACK.
Sacked(S) == {b \in Nat : \E s \in S : s.acked /\ Covers(s, b)}

\* A record with the fields of a window is one.
LEMMA WindowRecord ==
    ASSUME NEW win \in WinType
    PROVE  /\ win.cur \in SeqNr /\ win.highest \in SeqNr /\ win.next \in SeqNr
           /\ win.segs \subseteq SegRecord /\ win.txq \in Seq(SeqNr)
           /\ win.waitq \in Seq(SeqNr) /\ win.prioq \in Seq(SeqNr)
           /\ win.headSeg \subseteq SeqNr /\ win.txWindow \in Nat /\ win.finSeq \in SeqNr
           /\ DOMAIN win = {"cur", "highest", "next", "segs", "txq", "waitq", "prioq",
                            "headSeg", "txWindow", "finSeq"}
BY DEF WinType

LEMMA SameFlags ==
    ASSUME NEW S, NEW U,
           \A s \in S : \E u \in U :
               Alike(s, u) /\ u.outstanding = s.outstanding /\ u.acked = s.acked,
           \A u \in U : \E s \in S :
               Alike(s, u) /\ u.outstanding = s.outstanding /\ u.acked = s.acked
    PROVE  /\ Numbers(Unsent(U)) = Numbers(Unsent(S))
           /\ Numbers(Open(U)) = Numbers(Open(S))
           /\ Sacked(U) = Sacked(S)
           /\ \A h : SentUpTo(S, h) => SentUpTo(U, h)
<1>1. \A s, u : Alike(s, u) => s.seq = u.seq /\ Offset(s) = Offset(u) /\ s.len = u.len
    BY DEF Alike, Offset
<1>2. \A s, u, b : Alike(s, u) => (Covers(s, b) <=> Covers(u, b))
    BY <1>1 DEF Covers
<1>3. Numbers(Unsent(U)) = Numbers(Unsent(S))
    BY <1>1 DEF Numbers, Unsent
<1>4. Numbers(Open(U)) = Numbers(Open(S))
    BY <1>1 DEF Numbers, Open
<1>5. Sacked(U) = Sacked(S)
    <2>1. \A b \in Nat : b \in Sacked(U) => b \in Sacked(S)
        BY <1>2 DEF Sacked
    <2>2. \A b \in Nat : b \in Sacked(S) => b \in Sacked(U)
        BY <1>2 DEF Sacked
    <2> QED
        BY <2>1, <2>2 DEF Sacked
<1>6. ASSUME NEW h, SentUpTo(S, h) PROVE SentUpTo(U, h)
    <2> SUFFICES ASSUME NEW u \in U
                 PROVE  /\ u.outstanding => Offset(u) + u.len <= h
                        /\ ~u.outstanding => h <= Offset(u) /\ ~u.acked
        BY DEF SentUpTo
    <2>1. PICK s \in S : Alike(s, u) /\ u.outstanding = s.outstanding /\ u.acked = s.acked
        OBVIOUS
    <2>2. /\ s.outstanding => Offset(s) + s.len <= h
          /\ ~s.outstanding => h <= Offset(s) /\ ~s.acked
        BY <1>6 DEF SentUpTo
    <2> QED
        BY <1>1, <2>1, <2>2
<1> QED
    BY <1>3, <1>4, <1>5, <1>6

\* A fast retransmission moves segments from one queue to another.
LEMMA Requeued ==
    ASSUME NEW t, NEW m, NEW i, Fits(t, m, i), NEW win, Good(win, t, m, i), NEW first
    PROVE  LET u == prvTCPWindowFastRetransmit(win, first)
           IN  /\ Good(u, t, m, i)
               /\ Cardinality(u.segs) = Cardinality(win.segs)
               /\ u.highest = win.highest /\ Sacked(u.segs) = Sacked(win.segs)
<1> DEFINE u == prvTCPWindowFastRetransmit(win, first)
           counts == {s \in win.segs : /\ s.seq \in ToSet(win.waitq) /\ ~s.acked
                                       /\ xSequenceLessThan(s.seq, first)}
           moved == {s.seq : s \in {r \in counts : r.dups + 1 = DupAcks}}
           new(s) == [s EXCEPT !.dups = Min2(@ + 1, DupAcks + 1),
                               !.transmits = IF s.seq \in moved THEN 0 ELSE @]
           U == (win.segs \ counts) \cup {new(s) : s \in counts}
           wait == Without(win.waitq, moved)
           prio == win.prioq \o Without(win.waitq, ToSet(win.waitq) \ moved)
<1>1. win \in WinType /\ Segments(win.segs, t, m, i) /\ win.segs \subseteq SegRecord
    BY DEF Good, Segments
<1>2. counts \subseteq win.segs /\ moved \subseteq ToSet(win.waitq)
    OBVIOUS
<1>3. u = [win EXCEPT !.waitq = wait, !.prioq = prio, !.segs = U]
    BY DEF prvTCPWindowFastRetransmit
<1>4. ASSUME NEW s \in win.segs
      PROVE  /\ new(s) \in SegRecord /\ Alike(s, new(s))
             /\ new(s).outstanding = s.outstanding /\ new(s).acked = s.acked
    <2>1. s \in SegRecord /\ s.dups \in Nat /\ 0 \in 0 .. MaxTransmit
        BY <1>1, SegmentTypes, Sizes
    <2> DEFINE d == Min2(s.dups + 1, DupAcks + 1)
               c == IF s.seq \in moved THEN 0 ELSE s.transmits
    <2>2. d \in 0 .. DupAcks + 1
        BY <2>1, Sizes DEF Min2
    <2>3. c \in 0 .. MaxTransmit
        BY <2>1 DEF SegRecord
    <2>4. new(s) = [s EXCEPT !.dups = d, !.transmits = c]
        OBVIOUS
    <2> HIDE DEF d, c
    <2> QED
        BY <2>1, <2>2, <2>3, <2>4 DEF SegRecord, Alike
<1> HIDE DEF new
<1>5. /\ U \in SUBSET SegRecord
      /\ \A s \in win.segs : \E v \in U :
             Alike(s, v) /\ v.outstanding = s.outstanding /\ v.acked = s.acked
      /\ \A v \in U : \E s \in win.segs :
             Alike(s, v) /\ v.outstanding = s.outstanding /\ v.acked = s.acked
    <2>1. \A s : Alike(s, s)
        BY DEF Alike
    <2> QED
        BY <1>1, <1>2, <1>4, <2>1
<1>6. \A v, r \in U : v.seq = r.seq => v = r
    <2>1. \A s, r \in win.segs : s.seq = r.seq => s = r
        BY <1>1, NoOverlap
    <2>2. \A s \in counts : new(s).seq = s.seq
        BY <1>2, <1>4 DEF Alike
    <2> HIDE DEF counts
    <2> QED
        BY <1>2, <2>1, <2>2
<1>7. IsFiniteSet(U)
    <2>1. IsFiniteSet(win.segs)
        BY <1>1 DEF Segments
    <2>2. IsFiniteSet(counts) /\ IsFiniteSet(win.segs \ counts)
        BY <2>1, <1>2, FS_Subset
    <2>3. IsFiniteSet({new(s) : s \in counts})
        <3> DEFINE f == [s \in counts |-> new(s)]
        <3> HIDE DEF counts
        <3>1. IsFiniteSet({f[s] : s \in DOMAIN f})
            BY <2>2, ValuesFinite
        <3> QED
            BY <3>1
    <2> QED
        BY <2>2, <2>3, FS_Union
<1> HIDE DEF U, counts
<1>8. Segments(U, t, m, i) /\ Cardinality(U) = Cardinality(win.segs)
    BY <1>1, <1>5, <1>6, <1>7, Relabelled
<1>9. /\ Numbers(Unsent(U)) = Numbers(Unsent(win.segs))
      /\ Numbers(Open(U)) = Numbers(Open(win.segs))
      /\ Sacked(U) = Sacked(win.segs)
      /\ \A h : SentUpTo(win.segs, h) => SentUpTo(U, h)
    BY <1>5, SameFlags
<1> HIDE DEF moved
<1>10. Lined(win.txq, wait, prio, Numbers(Unsent(U)), Numbers(Open(U)))
    <2>1. /\ win.waitq \in Seq(SeqNr) /\ win.prioq \in Seq(SeqNr)
          /\ Distinct(win.waitq) /\ Distinct(win.prioq)
          /\ ToSet(win.waitq) \cap ToSet(win.prioq) = {}
        BY DEF Good, Lined
    <2> DEFINE rest == Without(win.waitq, ToSet(win.waitq) \ moved)
    <2>2. /\ wait \in Seq(SeqNr) /\ Distinct(wait)
          /\ ToSet(wait) = ToSet(win.waitq) \ moved
        BY <2>1, WithoutList
    <2>3. /\ rest \in Seq(SeqNr) /\ Distinct(rest)
          /\ ToSet(rest) = ToSet(win.waitq) \ (ToSet(win.waitq) \ moved)
        BY <2>1, WithoutList
    <2> HIDE DEF rest
    <2>4. ToSet(rest) = moved /\ ToSet(win.prioq) \cap ToSet(rest) = {}
        BY <1>2, <2>1, <2>3
    <2>5. /\ win.prioq \o rest \in Seq(SeqNr) /\ Distinct(win.prioq \o rest)
          /\ ToSet(win.prioq \o rest) = ToSet(win.prioq) \cup moved
        BY <2>1, <2>3, <2>4, JoinLists
    <2>6. prio = win.prioq \o rest
        BY DEF rest
    <2> HIDE DEF wait, prio
    <2>7. /\ win.txq \in Seq(SeqNr) /\ Distinct(win.txq)
          /\ ToSet(win.txq) = Numbers(Unsent(U))
          /\ ToSet(win.waitq) \cup ToSet(win.prioq) = Numbers(Open(U))
        BY <1>9 DEF Good, Lined
    <2> QED
        BY <1>2, <2>1, <2>2, <2>5, <2>6, <2>7 DEF Lined
<1>11. wait \in Seq(SeqNr) /\ prio \in Seq(SeqNr)
    BY <1>10 DEF Lined
<1> HIDE DEF wait, prio, u
<1>12. /\ u \in WinType /\ u.segs = U /\ u.waitq = wait /\ u.prioq = prio
       /\ u.cur = win.cur /\ u.next = win.next /\ u.highest = win.highest
       /\ u.txq = win.txq /\ u.headSeg = win.headSeg
    BY <1>1, <1>3, <1>5, <1>11 DEF WinType
<1>13. HeadIsLast(u, m)
    <2> SUFFICES ASSUME NEW v \in U, v.seq \in win.headSeg
                 PROVE  ~v.outstanding /\ Offset(v) + v.len = m
        BY <1>12 DEF HeadIsLast
    <2>1. PICK s \in win.segs : Alike(s, v) /\ v.outstanding = s.outstanding
        BY <1>5
    <2> QED
        BY <2>1 DEF Good, HeadIsLast, Alike, Offset
<1>14. Good(u, t, m, i)
    BY <1>8, <1>9, <1>10, <1>12, <1>13 DEF Good
<1> QED
    BY <1>8, <1>9, <1>12, <1>14 DEF u

LEMMA TheSegment ==
    ASSUME NEW t, NEW m, NEW i, Fits(t, m, i), NEW win, Segments(win.segs, t, m, i),
           NEW x \in win.segs
    PROVE  SegOf(win, x.seq) = x
BY NoOverlap DEF SegOf

LEMMA Replaced ==
    ASSUME NEW S, NEW t, NEW m, NEW i, Fits(t, m, i), Segments(S, t, m, i),
           NEW x \in S, NEW y \in SegRecord, Alike(x, y)
    PROVE  /\ Segments((S \ {x}) \cup {y}, t, m, i)
           /\ Cardinality((S \ {x}) \cup {y}) = Cardinality(S)
<1> DEFINE U == (S \ {x}) \cup {y}
<1>1. \A s : Alike(s, s)
    BY DEF Alike
<1>2. U \in SUBSET SegRecord /\ IsFiniteSet(U)
    <2>1. S \subseteq SegRecord /\ IsFiniteSet(S)
        BY DEF Segments
    <2>2. IsFiniteSet(S \ {x}) /\ IsFiniteSet({y})
        BY <2>1, FS_Subset, FS_Singleton
    <2> QED
        BY <2>1, <2>2, FS_Union
<1>3. /\ \A s \in S : \E u \in U : Alike(s, u)
      /\ \A u \in U : \E s \in S : Alike(s, u)
    BY <1>1
<1>4. \A u, v \in U : u.seq = v.seq => u = v
    <2>1. \A s, r \in S : s.seq = r.seq => s = r
        BY NoOverlap
    <2>2. x.seq = y.seq
        BY DEF Alike
    <2> QED
        BY <2>1, <2>2
<1> HIDE DEF U
<1>5. Segments(U, t, m, i) /\ Cardinality(U) = Cardinality(S)
    BY <1>2, <1>3, <1>4, Relabelled
<1> QED
    BY <1>5 DEF U

\* A segment x that is not confirmed is sent and becomes y.
LEMMA Sent ==
    ASSUME NEW S, NEW t, NEW m, NEW i, Fits(t, m, i), Segments(S, t, m, i),
           NEW x \in S, NEW y \in SegRecord, Alike(x, y),
           ~x.acked, y.outstanding, ~y.acked, NEW U, U = (S \ {x}) \cup {y},
           NEW h \in t .. m, SentUpTo(S, h)
    PROVE  /\ Numbers(Unsent(U)) = Numbers(Unsent(S)) \ {x.seq}
           /\ Numbers(Open(U)) = Numbers(Open(S)) \cup {x.seq}
           /\ Sacked(U) = Sacked(S)
           /\ x.outstanding => SentUpTo(U, h)
           /\ (~x.outstanding /\ \A s \in Unsent(S) : Offset(x) <= Offset(s))
                 => SentUpTo(U, Offset(x) + x.len)
<1>1. \A s, r \in S : s.seq = r.seq => s = r
    BY NoOverlap
<1>2. x.seq = y.seq /\ x.len = y.len /\ Offset(x) = Offset(y)
    BY DEF Alike, Offset
<1>3. Numbers(Unsent(U)) = Numbers(Unsent(S)) \ {x.seq}
    BY <1>1, <1>2 DEF Numbers, Unsent
<1>4. Numbers(Open(U)) = Numbers(Open(S)) \cup {x.seq}
    BY <1>1, <1>2 DEF Numbers, Open
<1>5. Sacked(U) = Sacked(S)
    BY DEF Sacked
<1>6. ASSUME x.outstanding PROVE SentUpTo(U, h)
    BY <1>2, <1>6 DEF SentUpTo
<1>7. ASSUME ~x.outstanding, \A s \in Unsent(S) : Offset(x) <= Offset(s)
      PROVE  SentUpTo(U, Offset(x) + x.len)
    <2> SUFFICES ASSUME NEW s \in S, s # x
                 PROVE  /\ s.outstanding => Offset(s) + s.len <= Offset(x) + x.len
                        /\ ~s.outstanding => Offset(x) + x.len <= Offset(s) /\ ~s.acked
        <3>1. Offset(y) + y.len <= Offset(x) + x.len
            BY <1>2, OffsetRange
        <3> QED
            BY <3>1 DEF SentUpTo
    <2>1. /\ Offset(s) \in 0 .. Total + 1 /\ Offset(s) + s.len \in 0 .. Total + 1
          /\ Offset(x) \in 0 .. Total + 1 /\ Offset(x) + x.len \in 0 .. Total + 1
          /\ s.len \in Nat /\ x.len \in Nat
        BY OffsetRange, SegmentTypes
    <2>2. h <= Offset(x) /\ h \in Nat
        BY <1>7 DEF SentUpTo, Fits
    <2>3. s.outstanding => Offset(s) + s.len <= Offset(x) + x.len
        BY <2>1, <2>2, Sizes DEF SentUpTo
    <2>4. ASSUME ~s.outstanding PROVE Offset(x) + x.len <= Offset(s) /\ ~s.acked
        <3>1. Offset(x) <= Offset(s)
            BY <1>7, <2>4 DEF Unsent
        <3>2. ~Covers(x, Offset(s))
            BY NoOverlap
        <3> QED
            BY <2>1, <2>4, <3>1, <3>2, Sizes DEF Covers, SentUpTo
    <2> QED
        BY <2>3, <2>4
<1> QED
    BY <1>3, <1>4, <1>5, <1>6, <1>7

\* The queue q after x left it, if it was the first.
Popped(q, x) == IF q # << >> /\ Head(q) = x THEN Tail(q) ELSE q

\* The queues after the transmission of the segment x.
LEMMA SentQueues ==
    ASSUME NEW tx, NEW wait, NEW prio, NEW N, NEW O, Lined(tx, wait, prio, N, O),
           N \cap O = {}, NEW x,
           \/ prio # << >> /\ x = Head(prio)
           \/ prio = << >> /\ wait # << >> /\ x = Head(wait)
           \/ prio = << >> /\ tx # << >> /\ x = Head(tx)
    PROVE  Lined(Popped(tx, x), Append(Popped(wait, x), x), Popped(prio, x), N \ {x}, O \cup {x})
<1> DEFINE tx2 == Popped(tx, x)
           wait1 == Popped(wait, x)
           prio2 == Popped(prio, x)
<1>1. /\ {tx, wait, prio} \subseteq Seq(SeqNr)
      /\ Distinct(tx) /\ Distinct(wait) /\ Distinct(prio)
      /\ ToSet(wait) \cap ToSet(prio) = {}
      /\ ToSet(tx) = N /\ ToSet(wait) \cup ToSet(prio) = O
    BY DEF Lined
<1>2. \A q \in {tx, wait, prio} : q # << >> =>
          /\ Head(q) \in SeqNr /\ Head(q) \in ToSet(q)
          /\ Tail(q) \in Seq(SeqNr) /\ Distinct(Tail(q))
          /\ ToSet(Tail(q)) = ToSet(q) \ {Head(q)}
    BY <1>1, TailList
<1>3. ToSet(<< >>) = {}
    BY DEF ToSet
<1>4. x \in SeqNr
    BY <1>2
<1>5. tx2 \in Seq(SeqNr) /\ Distinct(tx2) /\ ToSet(tx2) = N \ {x}
    BY <1>1, <1>2, <1>3 DEF Popped
<1>6. wait1 \in Seq(SeqNr) /\ Distinct(wait1) /\ ToSet(wait1) = ToSet(wait) \ {x}
    BY <1>1, <1>2, <1>3 DEF Popped
<1>7. prio2 \in Seq(SeqNr) /\ Distinct(prio2) /\ ToSet(prio2) = ToSet(prio) \ {x}
    BY <1>1, <1>2, <1>3 DEF Popped
<1> HIDE DEF tx2, wait1, prio2
<1>8. /\ Append(wait1, x) \in Seq(SeqNr)
      /\ ToSet(Append(wait1, x)) = ToSet(wait1) \cup {x}
      /\ Distinct(Append(wait1, x))
    <2>1. x \notin ToSet(wait1)
        BY <1>6
    <2>2. wait1 \in Seq(SeqNr) /\ Distinct(wait1)
        BY <1>6
    <2> QED
        BY ONLY <1>4, <2>1, <2>2, AppendList
<1> QED
    BY <1>1, <1>5, <1>6, <1>7, <1>8 DEF Lined, tx2, wait1, prio2

\* The transmission of a segment keeps the window in order.
LEMMA Transmitted ==
    ASSUME NEW t, NEW m, NEW i, Fits(t, m, i), NEW win, Good(win, t, m, i), NEW seq,
           \/ win.prioq # << >> /\ seq = Head(win.prioq)
           \/ win.prioq = << >> /\ win.waitq # << >> /\ seq = Head(win.waitq)
           \/ win.prioq = << >> /\ win.txq # << >> /\ seq = Head(win.txq),
           NEW x, x = SegOf(win, seq), NEW u, u = Transmit(win, seq)
    PROVE  /\ x \in win.segs /\ x.seq = seq
           /\ Good(u, t, m, i) /\ u.finSeq = win.finSeq
           /\ Cardinality(u.segs) = Cardinality(win.segs)
           /\ Sacked(u.segs) = Sacked(win.segs)
           /\ \/ x.outstanding /\ u.highest = win.highest
              \/ /\ u.highest = SeqAdd(seq, x.len)
                 /\ win.txq # << >> /\ seq = Head(win.txq)
                 /\ seq \notin ToSet(win.waitq) \cup ToSet(win.prioq)
<1> DEFINE S == win.segs
           count == Min2(x.transmits + 1, MaxTransmit)
           isNew == win.txq # << >> /\ Head(win.txq) = seq
           isOld == win.waitq # << >> /\ Head(win.waitq) = seq
           prio == IF win.prioq # << >> /\ Head(win.prioq) = seq THEN Tail(win.prioq)
                   ELSE win.prioq
           tx == IF isNew THEN Tail(win.txq) ELSE win.txq
           wait1 == IF isOld THEN Tail(win.waitq) ELSE win.waitq
           wait == Append(wait1, seq)
           headSeg == IF isNew THEN win.headSeg \ {seq} ELSE win.headSeg
           highest == IF isNew THEN SeqAdd(seq, x.len) ELSE win.highest
           dups == IF isOld THEN 0 ELSE x.dups
           y == [x EXCEPT !.outstanding = TRUE, !.transmits = count, !.dups = dups]
           U == (S \ {x}) \cup {y}
           txWindow == IF count = LargeCount /\ win.txWindow > 2 * MSS THEN 2 * MSS
                       ELSE win.txWindow
<1>1. u = [win EXCEPT !.prioq = prio, !.txq = tx, !.waitq = wait, !.headSeg = headSeg,
                      !.highest = highest, !.segs = U, !.txWindow = txWindow]
    BY DEF Transmit
<1>2. /\ win \in WinType /\ Segments(S, t, m, i) /\ S \subseteq SegRecord
      /\ Lined(win.txq, win.waitq, win.prioq, Numbers(Unsent(S)), Numbers(Open(S)))
      /\ Sorted(win.txq) /\ HeadIsLast(win, m)
      /\ win.cur = At(t) /\ win.next = At(m)
    BY DEF Good, Segments
<1>3. PICK h \in t .. m : win.highest = At(h) /\ SentUpTo(S, h)
    BY DEF Good
<1>4. ToSet(win.txq) = Numbers(Unsent(S))
      /\ ToSet(win.waitq) \cup ToSet(win.prioq) = Numbers(Open(S))
      /\ {win.txq, win.waitq, win.prioq} \subseteq Seq(SeqNr)
      /\ Distinct(win.txq) /\ Distinct(win.waitq) /\ Distinct(win.prioq)
    BY <1>2 DEF Lined
<1>5. \A s, r \in S : s.seq = r.seq => s = r
    BY <1>2, NoOverlap
<1>6. Numbers(Unsent(S)) \cap Numbers(Open(S)) = {}
    BY <1>5 DEF Numbers, Unsent, Open
<1>7. \/ seq \in Numbers(Open(S)) /\ seq \notin Numbers(Unsent(S)) /\ ~isNew
      \/ seq \in Numbers(Unsent(S)) /\ isNew
    <2>1. \A q \in {win.txq, win.waitq, win.prioq} : q # << >> => Head(q) \in ToSet(q)
        BY <1>4, TailList
    <2> QED
        BY <1>4, <1>6, <2>1
<1>8. /\ x \in S /\ x.seq = seq /\ ~x.acked /\ x \in SegRecord
      /\ isNew <=> ~x.outstanding
    <2>1. PICK s \in S : s.seq = seq
        BY <1>7 DEF Numbers, Unsent, Open
    <2>2. x = s
        BY <1>2, <2>1, TheSegment
    <2>3. \A r \in S : r.seq = seq => r = x
        BY <1>5, <2>1, <2>2
    <2>4. CASE seq \in Numbers(Open(S)) /\ ~isNew
        <3>1. x \in Open(S)
            BY <2>3, <2>4 DEF Numbers, Open
        <3> QED
            BY <1>2, <2>1, <2>2, <2>4, <3>1 DEF Open
    <2>5. CASE seq \in Numbers(Unsent(S)) /\ isNew
        <3>1. x \in Unsent(S)
            BY <2>3, <2>5 DEF Numbers, Unsent
        <3> QED
            BY <1>2, <1>3, <2>1, <2>2, <2>5, <3>1 DEF Unsent, SentUpTo
    <2> QED
        BY <1>7, <2>4, <2>5
<1>9. y \in SegRecord /\ Alike(x, y) /\ y.outstanding /\ ~y.acked
    <2>1. x.transmits \in Nat /\ x.dups \in 0 .. DupAcks + 1
        BY <1>8, SegmentTypes DEF SegRecord
    <2>2. count \in 0 .. MaxTransmit
        <3>1. MaxTransmit \in Nat /\ x.transmits + 1 \in Nat
            BY <2>1, Sizes
        <3> QED
            BY <3>1 DEF Min2
    <2>3. dups \in 0 .. DupAcks + 1
        BY <2>1, Sizes
    <2> HIDE DEF count, dups, isNew
    <2>4. y \in SegRecord /\ Alike(x, y) /\ y.outstanding
        BY <1>8, <2>2, <2>3 DEF SegRecord, Alike
    <2> DEFINE b == x.acked
    <2>5. b = FALSE
        BY <1>8 DEF SegRecord
    <2>6. y.acked = b
        OBVIOUS
    <2> HIDE DEF b, y
    <2> QED
        BY <2>4, <2>5, <2>6
<1> HIDE DEF y
<1>10. /\ Segments(U, t, m, i) /\ Cardinality(U) = Cardinality(S)
    BY <1>2, <1>8, <1>9, Replaced
<1>11. /\ Numbers(Unsent(U)) = Numbers(Unsent(S)) \ {seq}
       /\ Numbers(Open(U)) = Numbers(Open(S)) \cup {seq}
       /\ Sacked(U) = Sacked(S)
       /\ x.outstanding => SentUpTo(U, h)
       /\ (~x.outstanding /\ \A s \in Unsent(S) : Offset(x) <= Offset(s))
             => SentUpTo(U, Offset(x) + x.len)
    BY <1>2, <1>3, <1>8, <1>9, Sent
<1>12. Lined(tx, wait, prio, Numbers(Unsent(U)), Numbers(Open(U)))
    <2> DEFINE N == Numbers(Unsent(S))
               O == Numbers(Open(S))
    <2>1. Lined(win.txq, win.waitq, win.prioq, N, O) /\ N \cap O = {}
        BY <1>2, <1>6
    <2>2. tx = Popped(win.txq, seq) /\ wait1 = Popped(win.waitq, seq)
          /\ prio = Popped(win.prioq, seq)
        BY DEF Popped
    <2> HIDE DEF N, O, tx, wait1, prio
    <2>3. Lined(Popped(win.txq, seq), Append(Popped(win.waitq, seq), seq),
                Popped(win.prioq, seq), N \ {seq}, O \cup {seq})
        BY <2>1, SentQueues
    <2> QED
        BY <1>11, <2>2, <2>3 DEF N, O
<1>13. /\ tx \in Seq(SeqNr) /\ wait \in Seq(SeqNr) /\ prio \in Seq(SeqNr)
    BY <1>12 DEF Lined
<1>14. Sorted(tx)
    <2>1. win.txq \in Seq(SeqNr)
        BY <1>4
    <2> QED
        BY <1>2, <2>1 DEF Sorted
<1>15. ASSUME isNew, NEW s \in Unsent(S) PROVE Offset(x) <= Offset(s)
    <2>1. s \in S /\ s.seq \in ToSet(win.txq)
        BY <1>4 DEF Unsent, Numbers
    <2>2. win.txq \in Seq(SeqNr) /\ Len(win.txq) \in Nat
        BY <1>4
    <2>3. PICK k \in 1 .. Len(win.txq) : win.txq[k] = s.seq
        BY <2>1, <2>2, ElementsOf
    <2>4. win.txq[1] = x.seq
        BY <1>8, <1>15, <2>2
    <2>5. k = 1 \/ SeqSub(win.txq[1], Isn) < SeqSub(win.txq[k], Isn)
        BY <1>2, <2>2 DEF Sorted
    <2>6. Offset(s) \in Nat /\ Offset(x) \in Nat
        BY <1>2, <1>8, <2>1, SegmentTypes
    <2> QED
        BY <2>3, <2>4, <2>5, <2>6 DEF Offset
<1>16. \E k \in t .. m : highest = At(k) /\ SentUpTo(U, k)
    <2>1. CASE isNew
        <3>1. /\ SeqAdd(x.seq, x.len) = At(Offset(x) + x.len)
              /\ Offset(x) + x.len \in t .. m
            BY <1>2, <1>8, OffsetRange
        <3>2. SentUpTo(U, Offset(x) + x.len)
            BY <1>8, <1>11, <1>15, <2>1
        <3> QED
            BY <1>8, <2>1, <3>1, <3>2
    <2>2. CASE ~isNew
        BY <1>3, <1>8, <1>11, <2>2
    <2> QED
        BY <2>1, <2>2
<1>17. highest \in SeqNr /\ txWindow \in Nat /\ headSeg \subseteq SeqNr
    <2>1. highest \in SeqNr
        <3>1. PICK k \in t .. m : highest = At(k)
            BY <1>16
        <3>2. k \in 0 .. Total + 1
            BY Sizes DEF Fits
        <3> QED
            BY <3>1, <3>2, Positions
    <2>2. headSeg \subseteq SeqNr /\ win.txWindow \in Nat
        BY <1>2, WindowRecord
    <2> QED
        BY <2>1, <2>2, Sizes
<1>18. U \subseteq SegRecord
    BY <1>10 DEF Segments
<1>19. \A s \in U : s.seq \in headSeg => ~s.outstanding /\ Offset(s) + s.len = m
    <2>1. y.seq \notin headSeg
        <3>1. y.seq = seq
            BY <1>8, <1>9 DEF Alike
        <3> QED
            BY <1>2, <1>8, <3>1 DEF HeadIsLast
    <2> QED
        BY <1>2, <2>1 DEF HeadIsLast
<1> HIDE DEF prio, tx, wait, headSeg, highest, U, txWindow
<1>20. /\ u \in WinType /\ u.segs = U /\ u.waitq = wait /\ u.prioq = prio /\ u.txq = tx
       /\ u.cur = win.cur /\ u.next = win.next /\ u.highest = highest
       /\ u.headSeg = headSeg /\ u.finSeq = win.finSeq
    BY <1>1, <1>2, <1>13, <1>17, <1>18 DEF WinType
<1>21. HeadIsLast(u, m)
    BY <1>19, <1>20 DEF HeadIsLast
<1>22. Good(u, t, m, i)
    BY <1>2, <1>10, <1>12, <1>14, <1>16, <1>20, <1>21 DEF Good
<1>23. \/ x.outstanding /\ highest = win.highest
       \/ /\ highest = SeqAdd(seq, x.len) /\ isNew
          /\ seq \notin ToSet(win.waitq) \cup ToSet(win.prioq)
    BY <1>4, <1>7, <1>6, <1>8 DEF highest
<1> QED
    BY <1>8, <1>10, <1>11, <1>20, <1>22, <1>23

\* The segment that ulTCPWindowTxGet returns was sent before, or it is new, ends
\* at highest and fits in the windows.
LEMMA Taken ==
    ASSUME NEW t, NEW m, NEW i, Fits(t, m, i), NEW win, Good(win, t, m, i),
           NEW size, NEW expired, NEW r, r = ulTCPWindowTxGet(win, size, expired)
    PROVE  /\ Good(r.win, t, m, i) /\ r.win.finSeq = win.finSeq
           /\ Cardinality(r.win.segs) = Cardinality(win.segs)
           /\ Sacked(r.win.segs) = Sacked(win.segs)
           /\ r.seg = NULL => r.win = win
           /\ \A s \in r.seg :
                 /\ s \in win.segs
                 /\ \/ s.outstanding /\ r.win.highest = win.highest
                    \/ /\ r.win.highest = SeqAdd(s.seq, s.len)
                       /\ s = SegOf(win, Head(win.txq)) /\ prvTCPWindowTxHasSpace(win, size)
<1> DEFINE wait == pxTCPWindowTx_GetWaitQueue(win, expired)
           tx == pxTCPWindowTx_GetTXQueue(win, size)
           c == IF win.prioq # << >> THEN {Head(win.prioq)} ELSE IF wait # NULL THEN wait ELSE tx
<1>1. r = IF c = NULL THEN [win |-> win, seg |-> NULL]
          ELSE [win |-> Transmit(win, CHOOSE s \in c : TRUE),
                seg |-> {SegOf(win, CHOOSE s \in c : TRUE)}]
    BY DEF ulTCPWindowTxGet
<1>2. ASSUME c # NULL
      PROVE \E seq : /\ c = {seq}
                     /\ \/ win.prioq # << >> /\ seq = Head(win.prioq)
                        \/ win.prioq = << >> /\ win.waitq # << >> /\ seq = Head(win.waitq)
                        \/ /\ win.prioq = << >> /\ win.txq # << >> /\ seq = Head(win.txq)
                           /\ prvTCPWindowTxHasSpace(win, size)
    BY <1>2 DEF NULL, pxTCPWindowTx_GetWaitQueue, pxTCPWindowTx_GetTXQueue
<1> HIDE DEF c
<1>3. CASE c = NULL
    BY <1>1, <1>3 DEF NULL
<1>4. CASE c # NULL
    <2>1. PICK seq : /\ c = {seq}
                     /\ \/ win.prioq # << >> /\ seq = Head(win.prioq)
                        \/ win.prioq = << >> /\ win.waitq # << >> /\ seq = Head(win.waitq)
                        \/ /\ win.prioq = << >> /\ win.txq # << >> /\ seq = Head(win.txq)
                           /\ prvTCPWindowTxHasSpace(win, size)
        BY <1>2, <1>4
    <2> DEFINE u == Transmit(win, seq)
               x == SegOf(win, seq)
    <2>2. r.win = u /\ r.seg = {x}
        BY <1>1, <1>4, <2>1
    <2> HIDE DEF u, x
    <2>3. /\ x \in win.segs /\ x.seq = seq
          /\ Good(u, t, m, i) /\ u.finSeq = win.finSeq
          /\ Cardinality(u.segs) = Cardinality(win.segs)
          /\ Sacked(u.segs) = Sacked(win.segs)
          /\ \/ x.outstanding /\ u.highest = win.highest
             \/ /\ u.highest = SeqAdd(seq, x.len)
                /\ win.txq # << >> /\ seq = Head(win.txq)
                /\ seq \notin ToSet(win.waitq) \cup ToSet(win.prioq)
        <3>1. u = Transmit(win, seq) /\ x = SegOf(win, seq)
            BY DEF u, x
        <3>2. \/ win.prioq # << >> /\ seq = Head(win.prioq)
              \/ win.prioq = << >> /\ win.waitq # << >> /\ seq = Head(win.waitq)
              \/ win.prioq = << >> /\ win.txq # << >> /\ seq = Head(win.txq)
            BY <2>1
        <3> QED
            BY <3>1, <3>2, Transmitted
    <2>4. /\ win.prioq # << >> => Head(win.prioq) \in ToSet(win.prioq)
          /\ win.waitq # << >> => Head(win.waitq) \in ToSet(win.waitq)
        BY TailList DEF Good, Lined
    <2>5. \/ x.outstanding /\ u.highest = win.highest
          \/ /\ u.highest = SeqAdd(x.seq, x.len)
             /\ x = SegOf(win, Head(win.txq)) /\ prvTCPWindowTxHasSpace(win, size)
        BY <2>1, <2>3, <2>4 DEF x
    <2> QED
        BY <2>2, <2>3, <2>5 DEF NULL
<1> QED
    BY <1>3, <1>4

-----------------------------------------------------------------------------
(***************************************************************************)
(* Acknowledgements.                                                        *)
(***************************************************************************)
\* The segments before position d are in P, have a number in R and end at or
\* before d.
Prefix(S, P, R, d) ==
    \A s \in S : Offset(s) < d => s \in P /\ s.seq \in R /\ Offset(s) + s.len <= d

\* What is reached from a place that is in order is in order.
LEMMA ReachedInOrder ==
    ASSUME NEW S, NEW t, NEW m, NEW i, Fits(t, m, i), Segments(S, t, m, i),
           NEW P \in SUBSET S, NEW R, R = Reached(P, At(t))
    PROVE  /\ At(t) \in R
           /\ \A s \in P : s.seq \in R => SeqAdd(s.seq, s.len) \in R
           /\ \A x \in R : \E d \in t .. m : x = At(d) /\ Prefix(S, P, R, d)
<1> DEFINE numbers == {At(t)} \cup {SeqAdd(s.seq, s.len) : s \in P}
           Closed(N) == At(t) \in N /\ \A s \in P : s.seq \in N => SeqAdd(s.seq, s.len) \in N
           G == {x \in R : \E d \in t .. m : x = At(d) /\ Prefix(S, P, R, d)}
<1>1. R = {x \in numbers : \A N \in SUBSET numbers : Closed(N) => x \in N}
    BY DEF Reached
<1> HIDE DEF numbers
<1>2. Closed(R) /\ R \in SUBSET numbers
    <2>1. At(t) \in numbers /\ \A s \in P : SeqAdd(s.seq, s.len) \in numbers
        BY DEF numbers
    <2> QED
        BY <1>1, <2>1
<1>3. At(t) \in G
    <2>1. t \in t .. m
        BY Sizes DEF Fits
    <2>2. ASSUME NEW s \in S PROVE ~(Offset(s) < t)
        BY OffsetRange DEF Fits
    <2> QED
        BY <1>2, <2>1, <2>2 DEF Prefix
<1>4. ASSUME NEW s \in P, s.seq \in G PROVE SeqAdd(s.seq, s.len) \in G
    <2>1. PICK d \in t .. m : s.seq = At(d) /\ Prefix(S, P, R, d)
        BY <1>4
    <2>2. /\ Offset(s) \in 0 .. Total + 1 /\ s.seq = At(Offset(s))
          /\ Offset(s) + s.len \in t .. m /\ SeqAdd(s.seq, s.len) = At(Offset(s) + s.len)
          /\ s.len \in Nat
        BY OffsetRange, SegmentTypes
    <2>3. Offset(s) = d
        <3>1. d \in 0 .. Total + 1
            BY Sizes DEF Fits
        <3> QED
            BY <2>1, <2>2, <3>1, Positions
    <2>4. ASSUME NEW u \in S, Offset(u) < Offset(s) + s.len
          PROVE  u \in P /\ u.seq \in R /\ Offset(u) + u.len <= Offset(s) + s.len
        <3>1. Offset(u) \in 0 .. Total + 1 /\ Offset(u) + u.len \in 0 .. Total + 1
            BY OffsetRange
        <3>2. CASE Offset(u) < d
            BY <2>1, <2>2, <2>3, <3>1, <3>2 DEF Prefix
        <3>3. CASE ~(Offset(u) < d)
            <4>1. Covers(s, Offset(u))
                BY <2>2, <2>3, <2>4, <3>1, <3>3 DEF Covers
            <4>2. s = u
                BY <4>1, NoOverlap
            <4> QED
                BY <1>4, <2>2, <4>2
        <3> QED
            BY <3>2, <3>3
    <2>5. SeqAdd(s.seq, s.len) \in R
        BY <1>2, <1>4
    <2> QED
        BY <2>2, <2>4, <2>5 DEF Prefix
<1>5. R \subseteq G
    <2>1. G \in SUBSET numbers /\ Closed(G)
        BY <1>2, <1>3, <1>4
    <2> HIDE DEF G, Closed
    <2> QED
        BY <1>1, <2>1
<1> QED
    BY <1>2, <1>5

\* The chain from the left side of the window ends at a position e, and it is
\* what the window has before that position.
LEMMA LeftChain ==
    ASSUME NEW S, NEW t, NEW m, NEW i, Fits(t, m, i), Segments(S, t, m, i),
           NEW P \in SUBSET S
    PROVE  \E e \in t .. m :
               /\ Chain(P, At(t)).next = At(e)
               /\ Chain(P, At(t)).used = {s \in S : Offset(s) < e}
               /\ \A s \in S : Offset(s) < e => s \in P /\ Offset(s) + s.len <= e
<1> DEFINE R == Reached(P, At(t))
           D == {d \in t .. m : At(d) \in R}
<1>1. /\ At(t) \in R
      /\ \A s \in P : s.seq \in R => SeqAdd(s.seq, s.len) \in R
      /\ \A x \in R : \E d \in t .. m : x = At(d) /\ Prefix(S, P, R, d)
    BY ReachedInOrder
<1> HIDE DEF R
<1>2. t \in Nat /\ m \in Nat /\ t <= m /\ m <= Total /\ \A d \in t .. m : d \in 0 .. Total + 1
    BY Sizes DEF Fits
<1>3. \E x \in R : \A s \in P : s.seq # x
    <2> DEFINE f == [d \in D |-> m - d]
    <2>1. f \in [D -> Nat] /\ D # {}
        BY <1>1, <1>2
    <2>2. PICK d \in D : \A b \in D : f[d] <= f[b]
        <3> HIDE DEF D, f
        <3> QED
            BY <2>1, LeastValue
    <2>3. ASSUME NEW s \in P, s.seq = At(d) PROVE FALSE
        <3>1. /\ s.seq = At(Offset(s)) /\ Offset(s) \in 0 .. Total + 1
              /\ Offset(s) + s.len \in t .. m /\ SeqAdd(s.seq, s.len) = At(Offset(s) + s.len)
              /\ s.len > 0 /\ s.len \in Nat
            BY OffsetRange, SegmentTypes
        <3>2. Offset(s) = d
            BY <1>2, <2>3, <3>1, Positions
        <3>3. d + s.len \in D
            BY <1>1, <2>3, <3>1, <3>2
        <3>4. m - d <= m - (d + s.len)
            BY <2>2, <3>3
        <3> QED
            BY <1>2, <3>1, <3>4
    <2> QED
        BY <2>3
<1> DEFINE x == Chain(P, At(t)).next
<1>4. x \in R /\ \A s \in P : s.seq # x
    BY <1>3 DEF Chain, R
<1>5. Chain(P, At(t)).used = {s \in P : s.seq \in R}
    BY DEF Chain, R
<1> HIDE DEF x
<1>6. PICK e \in t .. m : x = At(e) /\ Prefix(S, P, R, e)
    BY <1>1, <1>4
<1>7. ASSUME NEW s \in P, s.seq \in R PROVE Offset(s) < e
    <2>1. Offset(s) \in t .. m - 1 /\ s.seq = At(Offset(s)) /\ Offset(s) + s.len \in 0 .. Total + 1
        BY OffsetRange
    <2> SUFFICES ASSUME e < Offset(s) PROVE FALSE
        BY <1>4, <1>6, <2>1
    <2>2. PICK d \in t .. m : s.seq = At(d) /\ Prefix(S, P, R, d)
        BY <1>1, <1>7
    <2>3. d = Offset(s)
        <3>1. d \in 0 .. Total + 1 /\ Offset(s) \in 0 .. Total + 1 /\ At(d) = At(Offset(s))
            BY <1>2, <2>1, <2>2
        <3> QED
            BY ONLY <3>1, Positions
    <2>4. PICK u \in S : Covers(u, e)
        <3>1. e \in t .. m - 1
            BY <1>2, <2>1
        <3> QED
            BY <3>1 DEF Segments, Tiled
    <2>5. /\ Offset(u) \in t .. m - 1 /\ Offset(u) + u.len \in 0 .. Total + 1
          /\ u.seq = At(Offset(u)) /\ Offset(u) <= e /\ e < Offset(u) + u.len
        BY <2>4, OffsetRange DEF Covers
    <2>6. u \in P /\ Offset(u) + u.len <= Offset(s)
        BY <1>2, <2>1, <2>2, <2>3, <2>5 DEF Prefix
    <2>7. Offset(u) = e
        BY <1>2, <1>6, <2>5 DEF Prefix
    <2> QED
        BY <1>4, <1>6, <2>5, <2>6, <2>7
<1>8. \A s \in S : Offset(s) < e => s \in P /\ s.seq \in R /\ Offset(s) + s.len <= e
    BY <1>6 DEF Prefix
<1>9. {s \in P : s.seq \in R} = {s \in S : Offset(s) < e}
    BY <1>7, <1>8
<1> QED
    BY <1>5, <1>6, <1>8, <1>9 DEF x

\* Segments leave the queues.
LEMMA Unqueued ==
    ASSUME NEW tx, NEW wait, NEW prio, NEW N, NEW O, Lined(tx, wait, prio, N, O),
           Sorted(tx), NEW K
    PROVE  /\ Lined(Without(tx, K), Without(wait, K), Without(prio, K), N \ K, O \ K)
           /\ Sorted(Without(tx, K))
<1>1. /\ {tx, wait, prio} \subseteq Seq(SeqNr)
      /\ Distinct(tx) /\ Distinct(wait) /\ Distinct(prio)
      /\ ToSet(wait) \cap ToSet(prio) = {}
      /\ ToSet(tx) = N /\ ToSet(wait) \cup ToSet(prio) = O
    BY DEF Lined
<1>2. \A q \in {tx, wait, prio} :
          /\ Without(q, K) \in Seq(SeqNr) /\ Distinct(Without(q, K))
          /\ ToSet(Without(q, K)) = ToSet(q) \ K
    BY <1>1, WithoutList
<1>3. Lined(Without(tx, K), Without(wait, K), Without(prio, K), N \ K, O \ K)
    BY <1>1, <1>2 DEF Lined
<1>4. \A j, k \in 1 .. Len(Without(tx, K)) : j < k =>
          \E a, b \in 1 .. Len(tx) :
              a < b /\ Without(tx, K)[j] = tx[a] /\ Without(tx, K)[k] = tx[b]
    BY <1>1, WithoutList
<1>5. Sorted(Without(tx, K))
    BY <1>4 DEF Sorted
<1> QED
    BY <1>3, <1>5

\* The segments before e are confirmed and freed.
LEMMA Freed ==
    ASSUME NEW S, NEW t, NEW m, NEW i, Fits(t, m, i), Segments(S, t, m, i),
           NEW e \in t .. m, \A s \in S : Offset(s) < e => s.outstanding /\ Offset(s) + s.len <= e,
           NEW U, U = {s \in S : ~(Offset(s) < e)}, NEW h \in t .. m, SentUpTo(S, h)
    PROVE  /\ Segments(U, e, m, Wrap(i + (e - t)))
           /\ h \in e .. m /\ SentUpTo(U, h)
<1>1. /\ t \in Nat /\ m \in Nat /\ m - t <= LENGTH - 1 /\ i \in 0 .. LENGTH - 1
      /\ LENGTH \in Nat
    BY Sizes DEF Fits
<1>2. ASSUME NEW s \in U PROVE Place(s, e, m, Wrap(i + (e - t)))
    <2>1. Offset(s) \in t .. m - 1 /\ Place(s, t, m, i)
        BY OffsetRange DEF Segments
    <2>2. e <= Offset(s) /\ Offset(s) + s.len <= m /\ s.pos = Wrap(i + (Offset(s) - t))
        BY <1>1, <2>1 DEF Place
    <2> DEFINE n == e - t
               k == Offset(s) - e
    <2>3. n \in 0 .. LENGTH - 1 /\ k \in 0 .. LENGTH - 1 /\ n + k <= LENGTH - 1
          /\ n + k = Offset(s) - t
        BY <1>1, <2>1, <2>2
    <2> HIDE DEF n, k
    <2>4. Wrap(Wrap(i + n) + k) = Wrap(i + (n + k))
        BY <1>1, <2>3, Wrapping
    <2> QED
        BY <2>2, <2>3, <2>4 DEF Place, n, k
<1>3. Tiled(U, e, m)
    <2> SUFFICES ASSUME NEW b \in e .. m - 1
                 PROVE  \E s \in U : Covers(s, b) /\ \A u \in U : Covers(u, b) => u = s
        BY DEF Tiled
    <2>1. b \in t .. m - 1
        BY <1>1
    <2>2. PICK s \in S : Covers(s, b) /\ \A u \in S : Covers(u, b) => u = s
        BY <2>1 DEF Segments, Tiled
    <2>3. Offset(s) + s.len \in t .. m /\ Offset(s) \in t .. m - 1
        BY OffsetRange
    <2>4. s \in U
        BY <1>1, <2>2, <2>3 DEF Covers
    <2> QED
        BY <2>2, <2>4
<1>4. U \subseteq SegRecord /\ IsFiniteSet(U)
    BY FS_Subset DEF Segments
<1>5. h \in e .. m
    <2>1. CASE e = t
        BY <2>1
    <2>2. CASE e # t
        <3>1. e - 1 \in t .. m - 1
            BY <1>1, <2>2
        <3>2. PICK s \in S : Covers(s, e - 1)
            BY <3>1 DEF Segments, Tiled
        <3>3. Offset(s) + s.len \in t .. m /\ Offset(s) \in t .. m - 1
            BY OffsetRange
        <3>4. s.outstanding /\ e <= Offset(s) + s.len
            BY <1>1, <3>2, <3>3 DEF Covers
        <3>5. Offset(s) + s.len <= h
            BY <3>4 DEF SentUpTo
        <3> QED
            BY <1>1, <3>3, <3>4, <3>5
    <2> QED
        BY <2>1, <2>2
<1>6. SentUpTo(U, h)
    BY DEF SentUpTo
<1> QED
    BY <1>2, <1>3, <1>4, <1>5, <1>6 DEF Segments

\* The segments in A are confirmed and kept.
WithMarks(S, A) == (S \ A) \cup {[s EXCEPT !.acked = TRUE] : s \in A}

LEMMA Marked ==
    ASSUME NEW S, NEW t, NEW m, NEW i, Fits(t, m, i), Segments(S, t, m, i),
           NEW A \in SUBSET S, \A s \in A : s.outstanding,
           NEW U, U = WithMarks(S, A),
           NEW h, SentUpTo(S, h)
    PROVE  /\ Segments(U, t, m, i) /\ Cardinality(U) = Cardinality(S) /\ SentUpTo(U, h)
           /\ \A u \in U : \E s \in S : Alike(s, u) /\ u.outstanding = s.outstanding
           /\ Numbers(Unsent(U)) = Numbers(Unsent(S)) \ Numbers(A)
           /\ Numbers(Open(U)) = Numbers(Open(S)) \ Numbers(A)
           /\ \A b \in Sacked(U) : b \in Sacked(S) \/ \E s \in A : Covers(s, b)
<1> DEFINE new(s) == [s EXCEPT !.acked = TRUE]
<1>1. S \subseteq SegRecord /\ IsFiniteSet(S) /\ \A s, r \in S : s.seq = r.seq => s = r
    BY NoOverlap DEF Segments
<1>2. ASSUME NEW s \in S
      PROVE  /\ new(s) \in SegRecord /\ Alike(s, new(s)) /\ new(s).outstanding = s.outstanding
             /\ new(s).acked
    BY <1>1 DEF SegRecord, Alike
<1>3. U = (S \ A) \cup {new(s) : s \in A}
    BY DEF WithMarks
<1>4. IsFiniteSet(U)
    <2>1. IsFiniteSet(A) /\ IsFiniteSet(S \ A)
        BY <1>1, FS_Subset
    <2> DEFINE f == [s \in A |-> new(s)]
    <2> HIDE DEF new
    <2>2. IsFiniteSet({f[s] : s \in DOMAIN f})
        BY <2>1, ValuesFinite
    <2>3. {f[s] : s \in DOMAIN f} = {new(s) : s \in A}
        OBVIOUS
    <2>4. IsFiniteSet({new(s) : s \in A})
        BY <2>2, <2>3
    <2>5. IsFiniteSet((S \ A) \cup {new(s) : s \in A})
        BY <2>1, <2>4, FS_Union
    <2> QED
        BY <1>3, <2>5
<1> HIDE DEF new
<1>5. \A s : Alike(s, s)
    BY DEF Alike
<1>6. /\ U \in SUBSET SegRecord
      /\ \A s \in S : \E u \in U : Alike(s, u)
      /\ \A u \in U : \E s \in S : Alike(s, u) /\ u.outstanding = s.outstanding
    BY <1>1, <1>2, <1>3, <1>5
<1>7. \A u, v \in U : u.seq = v.seq => u = v
    BY <1>1, <1>2, <1>3 DEF Alike
<1>8. Segments(U, t, m, i) /\ Cardinality(U) = Cardinality(S)
    BY <1>4, <1>6, <1>7, Relabelled
<1>9. \A s \in A : ~new(s).acked => FALSE
    BY <1>2
<1>10. \A s \in A : new(s).seq = s.seq /\ new(s).outstanding /\ Offset(new(s)) = Offset(s)
                    /\ new(s).len = s.len
    BY <1>2 DEF Alike, Offset
<1>11. SentUpTo(U, h)
    BY <1>3, <1>10 DEF SentUpTo
<1>12. Numbers(Unsent(U)) = Numbers(Unsent(S)) \ Numbers(A)
    BY <1>1, <1>3, <1>10 DEF Numbers, Unsent
<1>13. Numbers(Open(U)) = Numbers(Open(S)) \ Numbers(A)
    BY <1>1, <1>3, <1>9, <1>10 DEF Numbers, Open
<1>14. ASSUME NEW b \in Sacked(U) PROVE b \in Sacked(S) \/ \E s \in A : Covers(s, b)
    <2>1. b \in Nat /\ \E u \in U : u.acked /\ Covers(u, b)
        BY DEF Sacked
    <2>2. \A s \in A : Covers(new(s), b) <=> Covers(s, b)
        BY <1>10 DEF Covers
    <2> QED
        BY <1>3, <2>1, <2>2 DEF Sacked
<1> QED
    BY <1>6, <1>8, <1>11, <1>12, <1>13, <1>14

\* A chain has nothing that begins before it does.
LEMMA ReachedForward ==
    ASSUME NEW S, NEW t, NEW m, NEW i, Fits(t, m, i), Segments(S, t, m, i),
           NEW P \in SUBSET S, NEW lo \in 0 .. Total
    PROVE  \A s \in Chain(P, At(lo)).used : lo <= Offset(s)
<1> DEFINE R == Reached(P, At(lo))
           numbers == {At(lo)} \cup {SeqAdd(s.seq, s.len) : s \in P}
           Closed(N) == At(lo) \in N /\ \A s \in P : s.seq \in N => SeqAdd(s.seq, s.len) \in N
           G == {x \in numbers : \E d \in lo .. Total + 1 : x = At(d)}
<1>1. R = {x \in numbers : \A N \in SUBSET numbers : Closed(N) => x \in N}
    BY DEF Reached
<1>2. \A s \in P : /\ s.seq = At(Offset(s)) /\ SeqAdd(s.seq, s.len) = At(Offset(s) + s.len)
                   /\ Offset(s) \in 0 .. Total + 1 /\ Offset(s) + s.len \in 0 .. Total + 1
                   /\ s.len \in Nat /\ SeqAdd(s.seq, s.len) \in numbers
    BY OffsetRange, SegmentTypes
<1>3. At(lo) \in G
    BY Sizes
<1>4. ASSUME NEW s \in P, NEW d \in lo .. Total + 1, s.seq = At(d) PROVE lo <= Offset(s)
    <2>1. d \in 0 .. Total + 1 /\ Offset(s) \in 0 .. Total + 1 /\ At(d) = At(Offset(s))
        BY <1>2, <1>4, Sizes
    <2>2. d = Offset(s)
        BY ONLY <2>1, Positions
    <2> QED
        BY <2>2
<1>5. ASSUME NEW s \in P, s.seq \in G PROVE SeqAdd(s.seq, s.len) \in G
    <2>1. lo <= Offset(s)
        BY <1>4, <1>5
    <2>2. Offset(s) + s.len \in lo .. Total + 1
        BY <1>2, <2>1, Sizes
    <2> QED
        BY <1>2, <2>2
<1>6. R \subseteq G
    <2>1. G \in SUBSET numbers /\ Closed(G)
        BY <1>3, <1>5
    <2> HIDE DEF G, Closed, numbers
    <2> QED
        BY <1>1, <2>1
<1>7. Chain(P, At(lo)).used = {s \in P : s.seq \in R}
    BY DEF Chain
<1> HIDE DEF R, numbers
<1> QED
    BY <1>4, <1>6, <1>7

\* What ulTCPWindowTxAck and ulTCPWindowTxSack confirm.
LEMMA Checked ==
    ASSUME NEW t, NEW m, NEW i, Fits(t, m, i), NEW win, Good(win, t, m, i),
           NEW first, NEW last, NEW r, r = prvTCPWindowTxCheckAck(win, first, last)
    PROVE  \E e \in t .. m :
               /\ Good(r.win, e, m, Wrap(i + (e - t))) /\ r.bytes = e - t
               /\ r.win.highest = win.highest
               /\ Cardinality(r.win.segs) <= Cardinality(win.segs)
               /\ \A lo, hi \in 0 .. Total : first = At(lo) /\ last = At(hi) =>
                      (t .. e - 1) \cup Sacked(r.win.segs) \subseteq
                          Sacked(win.segs) \cup (lo .. hi - 1)
<1> DEFINE S == win.segs
           passes == {s \in win.segs :
                         /\ s.outstanding /\ xSequenceLessThan(s.seq, last)
                         /\ s.acked \/ ~xSequenceGreaterThan(SeqAdd(s.seq, s.len), last)}
           chain == Chain(passes, first)
           numbers == Numbers(chain.used)
           left == first = win.cur
           cur == IF left THEN chain.next ELSE win.cur
           U == (S \ chain.used) \cup
                    (IF left THEN {} ELSE {[s EXCEPT !.acked = TRUE] : s \in chain.used})
           tx == Without(win.txq, numbers)
           wait == Without(win.waitq, numbers)
           prio == Without(win.prioq, numbers)
           headSeg == IF left THEN win.headSeg \ numbers ELSE win.headSeg
<1>1. /\ r.win = [win EXCEPT !.cur = cur, !.segs = U, !.txq = tx, !.waitq = wait,
                             !.prioq = prio, !.headSeg = headSeg]
      /\ r.bytes = SeqSub(cur, win.cur)
    BY DEF prvTCPWindowTxCheckAck, Numbers
<1>2. /\ win \in WinType /\ Segments(S, t, m, i) /\ S \subseteq SegRecord
      /\ Lined(win.txq, win.waitq, win.prioq, Numbers(Unsent(S)), Numbers(Open(S)))
      /\ Sorted(win.txq) /\ HeadIsLast(win, m)
      /\ win.cur = At(t) /\ win.next = At(m)
    BY DEF Good, Segments
<1>3. PICK h \in t .. m : win.highest = At(h) /\ SentUpTo(S, h)
    BY DEF Good
<1>4. \A s, q \in S : s.seq = q.seq => s = q
    BY <1>2, NoOverlap
<1>5. t \in 0 .. Total + 1 /\ \A e \in t .. m : e \in 0 .. Total + 1 /\ e \in Nat
    BY Sizes DEF Fits
<1>6. passes \in SUBSET S /\ chain.used \subseteq passes
    BY DEF Chain
<1>7. \A s \in chain.used : s \in S /\ s.outstanding
    BY <1>6
<1>8. ASSUME NEW lo \in 0 .. Total, NEW hi \in 0 .. Total, last = At(hi), first = At(lo),
             NEW s \in chain.used, NEW b \in Nat, Covers(s, b)
      PROVE  b \in Sacked(S) \cup (lo .. hi - 1)
    <2>1. lo <= Offset(s)
        BY <1>2, <1>6, <1>8, ReachedForward
    <2>2. /\ SeqAdd(s.seq, s.len) = At(Offset(s) + s.len)
          /\ Offset(s) + s.len \in 0 .. Total + 1 /\ Offset(s) \in 0 .. Total + 1
        BY <1>2, <1>7, OffsetRange
    <2>3. s.acked \/ Offset(s) + s.len <= hi
        <3>1. s.acked \/ ~xSequenceGreaterThan(SeqAdd(s.seq, s.len), last)
            BY <1>6
        <3>2. hi \in 0 .. Total + 1
            BY Sizes
        <3>3. xSequenceGreaterThan(At(Offset(s) + s.len), At(hi)) <=> Offset(s) + s.len > hi
            BY <2>2, <3>2, Positions
        <3> QED
            BY <1>8, <2>2, <3>1, <3>2, <3>3, Sizes
    <2>4. s.acked => b \in Sacked(S)
        BY <1>7, <1>8 DEF Sacked
    <2>5. ~s.acked => b \in lo .. hi - 1
        BY <1>8, <2>1, <2>2, <2>3, Sizes DEF Covers
    <2> QED
        BY <2>4, <2>5
<1> DEFINE N == Numbers(Unsent(S))
           O == Numbers(Open(S))
<1>9. /\ Lined(tx, wait, prio, N \ numbers, O \ numbers)
      /\ Sorted(tx)
    <2>1. Lined(win.txq, win.waitq, win.prioq, N, O) /\ Sorted(win.txq)
        BY <1>2
    <2> HIDE DEF N, O, numbers
    <2> QED
        BY <2>1, Unqueued
<1>10. /\ tx \in Seq(SeqNr) /\ wait \in Seq(SeqNr) /\ prio \in Seq(SeqNr)
    BY <1>9 DEF Lined
<1>11. headSeg \subseteq SeqNr
    BY <1>2, WindowRecord
<1> HIDE DEF passes, chain
<1>12. \E e \in t .. m :
           /\ cur = At(e) /\ Segments(U, e, m, Wrap(i + (e - t)))
           /\ Cardinality(U) <= Cardinality(S)
           /\ h \in e .. m /\ SentUpTo(U, h)
           /\ N \ numbers = Numbers(Unsent(U)) /\ O \ numbers = Numbers(Open(U))
           /\ \A s \in U : s.seq \in headSeg => ~s.outstanding /\ Offset(s) + s.len = m
           /\ \A b \in (t .. e - 1) \cup Sacked(U) :
                  b \in Sacked(S) \/ \E s \in chain.used : Covers(s, b)
    <2>1. CASE left
        <3>1. PICK e \in t .. m :
                  /\ chain.next = At(e) /\ chain.used = {s \in S : Offset(s) < e}
                  /\ \A s \in S : Offset(s) < e => s \in passes /\ Offset(s) + s.len <= e
            <4>1. chain = Chain(passes, At(t)) /\ passes \in SUBSET S
                BY <1>2, <1>6, <2>1 DEF chain
            <4> HIDE DEF S
            <4> QED
                BY <1>2, <4>1, LeftChain
        <3>2. U = {s \in S : ~(Offset(s) < e)}
            BY <2>1, <3>1
        <3>3. \A s \in S : Offset(s) < e => s.outstanding /\ Offset(s) + s.len <= e
            BY <3>1 DEF passes
        <3> HIDE DEF U, S
        <3>4. /\ Segments(U, e, m, Wrap(i + (e - t)))
              /\ h \in e .. m /\ SentUpTo(U, h)
            BY <1>2, <1>3, <3>2, <3>3, Freed
        <3>5. Cardinality(U) <= Cardinality(S)
            <4>1. U \subseteq S /\ IsFiniteSet(S)
                BY <1>2, <3>2 DEF Segments
            <4> QED
                BY <4>1, FS_Subset
        <3>6. U = S \ chain.used
            BY <3>1, <3>2
        <3>7. N \ numbers = Numbers(Unsent(U)) /\ O \ numbers = Numbers(Open(U))
            BY <1>4, <1>7, <3>6 DEF S, Numbers, Unsent, Open
        <3>8. \A s \in U : s.seq \in headSeg => ~s.outstanding /\ Offset(s) + s.len = m
            BY <1>2, <3>6 DEF HeadIsLast, S
        <3>9. ASSUME NEW b \in (t .. e - 1) \cup Sacked(U)
              PROVE  b \in Sacked(S) \/ \E s \in chain.used : Covers(s, b)
            <4>1. CASE b \in Sacked(U)
                BY <3>6, <4>1 DEF Sacked
            <4>2. CASE b \in t .. e - 1
                <5>1. b \in t .. m - 1
                    BY <1>5, <4>2 DEF Fits
                <5>2. PICK s \in S : Covers(s, b)
                    BY <1>2, <5>1 DEF Segments, Tiled
                <5>3. Offset(s) \in t .. m - 1
                    BY <1>2, OffsetRange
                <5>4. Offset(s) < e
                    BY <1>5, <4>2, <5>2, <5>3 DEF Covers, Fits
                <5> QED
                    BY <3>1, <5>2, <5>4
            <4> QED
                BY <4>1, <4>2
        <3> QED
            BY <2>1, <3>1, <3>4, <3>5, <3>7, <3>8, <3>9
    <2>2. CASE ~left
        <3>1. U = WithMarks(S, chain.used)
            BY <2>2 DEF WithMarks
        <3>2. chain.used \in SUBSET S /\ \A s \in chain.used : s.outstanding
            BY <1>7
        <3> HIDE DEF U, S
        <3>3. /\ Segments(U, t, m, i) /\ Cardinality(U) = Cardinality(S) /\ SentUpTo(U, h)
              /\ \A u \in U : \E s \in S : Alike(s, u) /\ u.outstanding = s.outstanding
              /\ Numbers(Unsent(U)) = Numbers(Unsent(S)) \ Numbers(chain.used)
              /\ Numbers(Open(U)) = Numbers(Open(S)) \ Numbers(chain.used)
              /\ \A b \in Sacked(U) : b \in Sacked(S) \/ \E s \in chain.used : Covers(s, b)
            BY <1>2, <1>3, <3>1, <3>2, Marked
        <3>4. Wrap(i + (t - t)) = i
            BY Sizes DEF Fits, Wrap
        <3>5. \A s \in U : s.seq \in headSeg => ~s.outstanding /\ Offset(s) + s.len = m
            <4> SUFFICES ASSUME NEW u \in U, u.seq \in win.headSeg
                         PROVE  ~u.outstanding /\ Offset(u) + u.len = m
                BY <2>2
            <4>1. PICK s \in S : Alike(s, u) /\ u.outstanding = s.outstanding
                BY <3>3
            <4> QED
                BY <1>2, <4>1 DEF HeadIsLast, Alike, Offset, S
        <3>6. Cardinality(U) <= Cardinality(S) /\ t \in t .. m
            <4>1. IsFiniteSet(S)
                BY <1>2 DEF Segments
            <4> QED
                BY <3>3, <4>1, FS_CardinalityType, <1>3, <1>5 DEF Fits
        <3>7. \A b \in t .. t - 1 : FALSE
            BY <1>5
        <3> QED
            BY <1>2, <1>3, <2>2, <3>3, <3>4, <3>5, <3>6, <3>7
    <2> QED
        BY <2>1, <2>2
<1>13. PICK e \in t .. m :
           /\ cur = At(e) /\ Segments(U, e, m, Wrap(i + (e - t)))
           /\ Cardinality(U) <= Cardinality(S)
           /\ h \in e .. m /\ SentUpTo(U, h)
           /\ N \ numbers = Numbers(Unsent(U)) /\ O \ numbers = Numbers(Open(U))
           /\ \A s \in U : s.seq \in headSeg => ~s.outstanding /\ Offset(s) + s.len = m
           /\ \A b \in (t .. e - 1) \cup Sacked(U) :
                  b \in Sacked(S) \/ \E s \in chain.used : Covers(s, b)
    BY <1>12
<1>14. cur \in SeqNr /\ U \subseteq SegRecord
    BY <1>5, <1>13, Positions DEF Segments
<1>15. r.bytes = e - t
    <2>1. t <= e /\ e \in 0 .. Total + 1
        BY <1>5
    <2> QED
        BY <1>1, <1>2, <1>5, <1>13, <2>1, Positions
<1> HIDE DEF cur, U, tx, wait, prio, headSeg, N, O
<1>16. /\ r.win \in WinType /\ r.win.segs = U /\ r.win.waitq = wait /\ r.win.prioq = prio
       /\ r.win.txq = tx /\ r.win.cur = cur /\ r.win.next = win.next
       /\ r.win.highest = win.highest /\ r.win.headSeg = headSeg
    BY <1>1, <1>2, <1>10, <1>11, <1>14 DEF WinType
<1>17. Good(r.win, e, m, Wrap(i + (e - t)))
    <2>1. HeadIsLast(r.win, m)
        BY <1>13, <1>16 DEF HeadIsLast
    <2> QED
        BY <1>2, <1>3, <1>9, <1>13, <1>16, <2>1 DEF Good
<1>18. ASSUME NEW lo \in 0 .. Total, NEW hi \in 0 .. Total, first = At(lo), last = At(hi)
       PROVE  (t .. e - 1) \cup Sacked(r.win.segs) \subseteq Sacked(win.segs) \cup (lo .. hi - 1)
    <2>1. \A b \in (t .. e - 1) \cup Sacked(U) : b \in Nat
        BY <1>5 DEF Sacked
    <2> QED
        BY <1>8, <1>13, <1>16, <1>18, <2>1
<1> QED
    BY <1>13, <1>15, <1>16, <1>17, <1>18

\* The window confirms some bytes, from position t on.  They, and those that are
\* marked as confirmed, are in B or were marked before.
Confirms(win, r, t, m, i, B) ==
    \E e \in t .. m :
        /\ Good(r.win, e, m, Wrap(i + (e - t))) /\ r.bytes = e - t
        /\ r.win.highest = win.highest
        /\ Cardinality(r.win.segs) <= Cardinality(win.segs)
        /\ (t .. e - 1) \cup Sacked(r.win.segs) \subseteq Sacked(win.segs) \cup B

\* A block of sequence numbers that says no more than that B was received.
BlockIn(first, last, B) ==
    \E lo, hi \in 0 .. Total : first = At(lo) /\ last = At(hi) /\ lo .. hi - 1 \subseteq B

LEMMA SameSpot ==
    ASSUME NEW t, NEW m, NEW i, Fits(t, m, i)
    PROVE  /\ t \in t .. m /\ Wrap(i + (t - t)) = i /\ t .. t - 1 = {}
           /\ t \in Nat /\ m \in Nat /\ t \in 0 .. Total + 1
           /\ \A e \in t .. m : Fits(e, m, Wrap(i + (e - t))) /\ e \in 0 .. Total /\ e \in Nat
<1>1. /\ t \in Nat /\ m \in Nat /\ t <= m /\ m <= Total /\ m - t <= LENGTH - 1
      /\ i \in 0 .. LENGTH - 1 /\ Total \in Nat /\ LENGTH \in Nat /\ LENGTH > 1
    BY Sizes DEF Fits
<1>2. ASSUME NEW e \in t .. m PROVE Fits(e, m, Wrap(i + (e - t)))
    <2> DEFINE n == e - t
    <2>1. n \in 0 .. LENGTH - 1 /\ 0 \in 0 .. LENGTH - 1 /\ n + 0 <= LENGTH - 1
        BY <1>1
    <2> HIDE DEF n
    <2>2. Wrap(i + n) \in 0 .. LENGTH - 1
        BY <1>1, <2>1, Wrapping
    <2> QED
        BY <1>1, <2>2 DEF Fits, n
<1> QED
    BY <1>1, <1>2 DEF Wrap

LEMMA Checks ==
    ASSUME NEW t, NEW m, NEW i, Fits(t, m, i), NEW win, Good(win, t, m, i),
           NEW first, NEW last, NEW B \in SUBSET Nat, B = Nat \/ BlockIn(first, last, B)
    PROVE  Confirms(win, prvTCPWindowTxCheckAck(win, first, last), t, m, i, B)
<1> DEFINE r == prvTCPWindowTxCheckAck(win, first, last)
<1>1. PICK e \in t .. m :
          /\ Good(r.win, e, m, Wrap(i + (e - t))) /\ r.bytes = e - t
          /\ r.win.highest = win.highest
          /\ Cardinality(r.win.segs) <= Cardinality(win.segs)
          /\ \A lo, hi \in 0 .. Total : first = At(lo) /\ last = At(hi) =>
                 (t .. e - 1) \cup Sacked(r.win.segs) \subseteq
                     Sacked(win.segs) \cup (lo .. hi - 1)
    BY Checked
<1> HIDE DEF r
<1>2. (t .. e - 1) \cup Sacked(r.win.segs) \subseteq Nat
    BY SameSpot DEF Sacked
<1>3. (t .. e - 1) \cup Sacked(r.win.segs) \subseteq Sacked(win.segs) \cup B
    BY <1>1, <1>2 DEF BlockIn
<1> QED
    BY <1>1, <1>3 DEF Confirms, r

\* One acknowledgement after the other.
LEMMA ConfirmsTwice ==
    ASSUME NEW t, NEW m, NEW i, Fits(t, m, i), NEW win, NEW r, NEW B,
           NEW e \in t .. m, Good(r.win, e, m, Wrap(i + (e - t))), r.bytes = e - t,
           r.win.highest = win.highest, Cardinality(r.win.segs) <= Cardinality(win.segs),
           (t .. e - 1) \cup Sacked(r.win.segs) \subseteq Sacked(win.segs) \cup B,
           IsFiniteSet(win.segs),
           NEW a, Confirms(r.win, a, e, m, Wrap(i + (e - t)), B)
    PROVE  Confirms(win, [win |-> a.win, bytes |-> r.bytes + a.bytes], t, m, i, B)
<1>1. PICK d \in e .. m :
          /\ Good(a.win, d, m, Wrap(Wrap(i + (e - t)) + (d - e))) /\ a.bytes = d - e
          /\ a.win.highest = r.win.highest
          /\ Cardinality(a.win.segs) <= Cardinality(r.win.segs)
          /\ (e .. d - 1) \cup Sacked(a.win.segs) \subseteq Sacked(r.win.segs) \cup B
    BY DEF Confirms
<1>2. /\ t \in Nat /\ m \in Nat /\ e \in Nat /\ d \in Nat /\ t <= e /\ e <= d /\ d <= m
      /\ i \in 0 .. LENGTH - 1 /\ LENGTH \in Nat /\ m - t <= LENGTH - 1
    BY Sizes DEF Fits
<1> DEFINE n == e - t
           k == d - e
<1>3. n \in 0 .. LENGTH - 1 /\ k \in 0 .. LENGTH - 1 /\ n + k <= LENGTH - 1 /\ n + k = d - t
    BY <1>2
<1> HIDE DEF n, k
<1>4. Wrap(Wrap(i + n) + k) = Wrap(i + (n + k))
    BY <1>2, <1>3, Wrapping
<1>5. Wrap(Wrap(i + (e - t)) + (d - e)) = Wrap(i + (d - t))
    BY <1>3, <1>4 DEF n, k
<1>6. Cardinality(a.win.segs) <= Cardinality(win.segs)
    <2>1. IsFiniteSet(a.win.segs) /\ IsFiniteSet(r.win.segs)
        BY <1>1 DEF Good, Segments
    <2>2. /\ Cardinality(a.win.segs) \in Nat /\ Cardinality(r.win.segs) \in Nat
          /\ Cardinality(win.segs) \in Nat
        BY <2>1, FS_CardinalityType
    <2> QED
        BY <1>1, <2>2
<1>7. (t .. d - 1) \cup Sacked(a.win.segs) \subseteq Sacked(win.segs) \cup B
    <2>1. t .. d - 1 \subseteq (t .. e - 1) \cup (e .. d - 1)
        BY <1>2
    <2> QED
        BY <1>1, <2>1
<1>8. d \in t .. m /\ (e - t) + (d - e) = d - t
    BY <1>2
<1> QED
    BY <1>1, <1>5, <1>6, <1>7, <1>8 DEF Confirms

\* An acknowledgement that says no more than that B was received.
Says(msg, B) ==
    /\ \E c \in 0 .. Total : msg.ack = At(c) /\ 0 .. c - 1 \subseteq B
    /\ msg.sack = NoSack \/ BlockIn(msg.sack[1], msg.sack[2], B)

LEMMA Acks ==
    ASSUME NEW t, NEW m, NEW i, Fits(t, m, i), NEW win, Good(win, t, m, i), NEW ack,
           NEW B \in SUBSET Nat,
           B = Nat \/ \E c \in 0 .. Total : ack = At(c) /\ 0 .. c - 1 \subseteq B
    PROVE  Confirms(win, ulTCPWindowTxAck(win, ack), t, m, i, B)
<1>1. t \in t .. m /\ Wrap(i + (t - t)) = i /\ t .. t - 1 = {} /\ t - t = 0 /\ t \in 0 .. Total
    BY SameSpot
<1>2. Cardinality(win.segs) \in Nat /\ win.cur = At(t)
    BY FS_CardinalityType DEF Good, Segments
<1>3. Confirms(win, [win |-> win, bytes |-> 0], t, m, i, B)
    BY <1>1, <1>2 DEF Confirms
<1>4. B = Nat \/ BlockIn(win.cur, ack, B)
    <2>1. ASSUME NEW c \in 0 .. Total, ack = At(c), 0 .. c - 1 \subseteq B
          PROVE  BlockIn(win.cur, ack, B)
        <3>1. t .. c - 1 \subseteq B
            BY <1>1, <2>1
        <3> QED
            BY <1>1, <1>2, <2>1, <3>1 DEF BlockIn
    <2> QED
        BY <2>1
<1>5. Confirms(win, prvTCPWindowTxCheckAck(win, win.cur, ack), t, m, i, B)
    BY <1>4, Checks
<1> QED
    BY <1>3, <1>5 DEF ulTCPWindowTxAck

LEMMA Sacks ==
    ASSUME NEW t, NEW m, NEW i, Fits(t, m, i), NEW win, Good(win, t, m, i),
           NEW first, NEW last, NEW B \in SUBSET Nat, B = Nat \/ BlockIn(first, last, B)
    PROVE  Confirms(win, ulTCPWindowTxSack(win, first, last), t, m, i, B)
<1> DEFINE c == prvTCPWindowTxCheckAck(win, first, last)
           u == prvTCPWindowFastRetransmit(c.win, first)
           r == ulTCPWindowTxSack(win, first, last)
<1>1. r.win = u /\ r.bytes = c.bytes
    BY DEF ulTCPWindowTxSack, prvTCPWindowTxCheckAck
<1>2. Confirms(win, c, t, m, i, B)
    BY Checks
<1> HIDE DEF c
<1>3. PICK e \in t .. m :
          /\ Good(c.win, e, m, Wrap(i + (e - t))) /\ c.bytes = e - t
          /\ c.win.highest = win.highest
          /\ Cardinality(c.win.segs) <= Cardinality(win.segs)
          /\ (t .. e - 1) \cup Sacked(c.win.segs) \subseteq Sacked(win.segs) \cup B
    BY <1>2 DEF Confirms
<1>4. Fits(e, m, Wrap(i + (e - t)))
    BY SameSpot
<1>5. /\ Good(u, e, m, Wrap(i + (e - t)))
      /\ Cardinality(u.segs) = Cardinality(c.win.segs)
      /\ u.highest = c.win.highest /\ Sacked(u.segs) = Sacked(c.win.segs)
    BY <1>3, <1>4, Requeued
<1> HIDE DEF u, r
<1> QED
    BY <1>1, <1>3, <1>5 DEF Confirms, r

LEMMA Confirming ==
    ASSUME NEW t, NEW m, NEW i, Fits(t, m, i), Good(w, t, m, i), NEW msg,
           NEW B \in SUBSET Nat, B = Nat \/ Says(msg, B)
    PROVE  Confirms(w, Confirmed(msg), t, m, i, B)
<1> DEFINE s == IF msg.sack = NoSack THEN [win |-> w, bytes |-> 0]
                ELSE ulTCPWindowTxSack(w, msg.sack[1], msg.sack[2])
           a == ulTCPWindowTxAck(s.win, msg.ack)
<1>1. Confirmed(msg) = [win |-> a.win, bytes |-> s.bytes + a.bytes]
    BY DEF Confirmed
<1>2. IsFiniteSet(w.segs) /\ Cardinality(w.segs) \in Nat
    BY FS_CardinalityType DEF Good, Segments
<1>3. Confirms(w, s, t, m, i, B)
    <2>1. CASE msg.sack = NoSack
        <3>1. t \in t .. m /\ Wrap(i + (t - t)) = i /\ t .. t - 1 = {} /\ t - t = 0
            BY SameSpot
        <3> QED
            BY <1>2, <2>1, <3>1 DEF Confirms
    <2>2. CASE msg.sack # NoSack
        <3>1. B = Nat \/ BlockIn(msg.sack[1], msg.sack[2], B)
            BY <2>2 DEF Says
        <3>2. Confirms(w, ulTCPWindowTxSack(w, msg.sack[1], msg.sack[2]), t, m, i, B)
            BY <3>1, Sacks
        <3> QED
            BY <2>2, <3>2
    <2> QED
        BY <2>1, <2>2
<1> HIDE DEF s
<1>4. PICK e \in t .. m :
          /\ Good(s.win, e, m, Wrap(i + (e - t))) /\ s.bytes = e - t
          /\ s.win.highest = w.highest
          /\ Cardinality(s.win.segs) <= Cardinality(w.segs)
          /\ (t .. e - 1) \cup Sacked(s.win.segs) \subseteq Sacked(w.segs) \cup B
    BY <1>3 DEF Confirms
<1>5. Fits(e, m, Wrap(i + (e - t)))
    BY SameSpot
<1>6. Confirms(s.win, a, e, m, Wrap(i + (e - t)), B)
    <2>1. B = Nat \/ \E c \in 0 .. Total : msg.ack = At(c) /\ 0 .. c - 1 \subseteq B
        BY DEF Says
    <2> QED
        BY <1>4, <1>5, <2>1, Acks
<1> HIDE DEF a
<1> QED
    BY <1>1, <1>2, <1>4, <1>6, ConfirmsTwice

-----------------------------------------------------------------------------
(***************************************************************************)
(* New segments.                                                            *)
(***************************************************************************)
\* The length of k full segments.
Full(k) == k * MSS

LEMMA Fulls ==
    /\ Full(0) = 0
    /\ \A k \in Nat : Full(k) \in Nat /\ Full(k + 1) = Full(k) + MSS
    /\ \A k, l \in Nat : k <= l => Full(k) <= Full(l)
<1>1. MSS \in Nat
    BY Sizes
<1>2. Full(0) = 0
    BY <1>1 DEF Full
<1>3. \A k \in Nat : Full(k) \in Nat /\ Full(k + 1) = Full(k) + MSS
    BY <1>1 DEF Full
<1>4. \A k, l \in Nat : k <= l => Full(k) <= Full(l)
    BY <1>1 DEF Full
<1> QED
    BY <1>2, <1>3, <1>4

\* The segments that are made for the next rest bytes, with free descriptors.
Batch(rest, free) == {k \in 1 .. free : Full(k - 1) < rest}

LEMMA BatchInterval ==
    ASSUME NEW rest \in Nat, NEW free \in Nat
    PROVE  \E n \in 0 .. free : Batch(rest, free) = 1 .. n
<1> DEFINE K == Batch(rest, free)
           T == {j \in 0 .. free : j + 1 \notin K}
<1>1. \A k \in K : k \in 1 .. free /\ Full(k - 1) < rest
    BY DEF Batch
<1>2. ASSUME NEW k \in K, NEW j \in 1 .. k PROVE j \in K
    <2>1. j \in 1 .. free /\ j - 1 \in Nat /\ k - 1 \in Nat /\ j - 1 <= k - 1
        BY <1>1
    <2>2. Full(j - 1) <= Full(k - 1) /\ Full(j - 1) \in Nat /\ Full(k - 1) \in Nat
        BY <2>1, Fulls
    <2>3. Full(j - 1) < rest
        BY <1>1, <2>2
    <2> QED
        BY <2>1, <2>3 DEF Batch
<1>3. T \in SUBSET Nat /\ T # {}
    <2>1. free + 1 \notin K
        BY <1>1
    <2> QED
        BY <2>1
<1>4. PICK n \in T : \A j \in T : n <= j
    <2> HIDE DEF T
    <2> QED
        BY <1>3, LeastNumber
<1>5. K \subseteq 1 .. n
    <2> SUFFICES ASSUME NEW k \in K, ~(k <= n) PROVE FALSE
        BY <1>1, <1>3
    <2>1. n + 1 \in 1 .. k
        BY <1>1, <1>3, <1>4
    <2> QED
        BY <1>2, <1>4, <2>1
<1>6. 1 .. n \subseteq K
    <2> SUFFICES ASSUME NEW k \in 1 .. n PROVE k \in K
        OBVIOUS
    <2>1. k - 1 \in 0 .. free /\ ~(n <= k - 1) /\ (k - 1) + 1 = k
        BY <1>3, <1>4
    <2> QED
        BY <1>4, <2>1
<1> QED
    BY <1>4, <1>5, <1>6

\* There is room for rest bytes after position m.
Room(t, m, i, rest, free) ==
    /\ rest \in Nat /\ free \in Nat /\ m \in Nat /\ t \in 0 .. m
    /\ Fits(t, m, i) /\ Fits(t, m + rest, i)

\* The k-th new segment, after position m of the stream.
Fresh(t, m, i, rest, k) ==
    xTCPWindowTxNew(At(m + Full(k - 1)), Min2(rest - Full(k - 1), MSS),
                    Wrap(i + (m + Full(k - 1) - t)))

FreshSet(t, m, i, rest, free) == {Fresh(t, m, i, rest, k) : k \in Batch(rest, free)}

FreshNumbers(m, rest, free) == [k \in Batch(rest, free) |-> At(m + Full(k - 1))]

LEMMA FreshSegment ==
    ASSUME NEW t, NEW m, NEW i, NEW rest, NEW free, Room(t, m, i, rest, free),
           NEW k \in Batch(rest, free),
           NEW s, s = Fresh(t, m, i, rest, k)
    PROVE  /\ s \in SegRecord /\ s.seq = At(m + Full(k - 1)) /\ Offset(s) = m + Full(k - 1)
           /\ Full(k - 1) \in Nat /\ Full(k) = Full(k - 1) + MSS /\ Full(k - 1) < rest
           /\ s.len = Min2(rest - Full(k - 1), MSS) /\ s.len > 0 /\ s.len \in Nat
           /\ ~s.outstanding /\ ~s.acked
           /\ m + Full(k - 1) \in 0 .. Total
           /\ Place(s, t, m + rest, i)
<1> DEFINE a == Full(k - 1)
           n == Min2(rest - a, MSS)
           p == Wrap(i + (m + a - t))
<1>0. /\ rest \in Nat /\ free \in Nat /\ m \in Nat /\ t \in 0 .. m
      /\ Fits(t, m + rest, i)
    BY DEF Room
<1> USE <1>0
<1>1. k \in 1 .. free /\ k - 1 \in Nat /\ (k - 1) + 1 = k /\ a < rest
    BY DEF Batch
<1>2. a \in Nat /\ Full(k) = a + MSS
    BY <1>1, Fulls
<1> HIDE DEF a
<1>3. /\ m \in Nat /\ t \in Nat /\ t <= m /\ m + rest <= Total /\ m + rest - t <= LENGTH - 1
      /\ i \in 0 .. LENGTH - 1 /\ MSS \in Nat /\ MSS > 0 /\ LENGTH \in Nat /\ Total \in Nat
    BY Sizes DEF Fits
<1>4. n \in 1 .. MSS /\ n <= rest - a /\ n \in Nat
    BY <1>1, <1>2, <1>3 DEF Min2
<1>5. m + a \in 0 .. Total /\ m + a \in 0 .. Total + 1 /\ m + a - t \in 0 .. LENGTH - 1
    BY <1>1, <1>2, <1>3
<1>6. At(m + a) \in SeqNr /\ SeqSub(At(m + a), Isn) = m + a
    BY <1>5, Positions
<1>7. p \in 0 .. LENGTH - 1
    <2> DEFINE c == m + a - t
    <2>1. c \in 0 .. LENGTH - 1 /\ 0 \in 0 .. LENGTH - 1 /\ c + 0 <= LENGTH - 1
        BY <1>3, <1>5
    <2> HIDE DEF c
    <2>2. Wrap(i + c) \in 0 .. LENGTH - 1
        BY <1>3, <2>1, Wrapping
    <2> QED
        BY <2>2 DEF c
<1>8. s = xTCPWindowTxNew(At(m + a), n, p)
    BY DEF Fresh, a
<1> HIDE DEF n, p
<1>9. 0 \in 0 .. MaxTransmit /\ 0 \in 0 .. DupAcks + 1
    BY Sizes
<1>10. /\ s \in SegRecord /\ s.seq = At(m + a) /\ s.len = n /\ s.pos = p
    BY <1>4, <1>6, <1>7, <1>8, <1>9 DEF xTCPWindowTxNew, SegRecord
<1>11. ~s.outstanding /\ ~s.acked
    BY <1>8 DEF xTCPWindowTxNew
<1>12. Offset(s) = m + a
    BY <1>6, <1>10 DEF Offset
<1>13. Place(s, t, m + rest, i)
    BY <1>2, <1>3, <1>4, <1>10, <1>12 DEF Place, p
<1> QED
    BY <1>1, <1>2, <1>4, <1>5, <1>10, <1>11, <1>12, <1>13 DEF a, n

\* The new segments follow the others, S, without a gap, and have n bytes.
Extended(S, new, t, m, i, free, n) ==
    /\ Segments(S \cup new, t, m + n, i)
    /\ Cardinality(S \cup new) <= Cardinality(S) + free
    /\ Numbers(Unsent(S \cup new)) = Numbers(Unsent(S)) \cup Numbers(new)
    /\ Numbers(Open(S \cup new)) = Numbers(Open(S))
    /\ Sacked(S \cup new) = Sacked(S)
    /\ \A h \in t .. m : SentUpTo(S, h) => SentUpTo(S \cup new, h)
    /\ \A s \in new : s.len < MSS => Offset(s) + s.len = m + n
    /\ \A s \in S : Offset(s) < m /\ Offset(s) + s.len <= m

LEMMA FreshSegments ==
    ASSUME NEW S, NEW t, NEW m, NEW i, Segments(S, t, m, i),
           NEW rest, NEW free, Room(t, m, i, rest, free),
           NEW new, new = FreshSet(t, m, i, rest, free),
           NEW placed, placed = Min2(rest, Full(free))
    PROVE  placed \in 0 .. rest /\ Extended(S, new, t, m, i, free, placed)
<1> DEFINE K == Batch(rest, free)
           fresh(k) == Fresh(t, m, i, rest, k)
<1>0. rest \in Nat /\ free \in Nat /\ Fits(t, m, i) /\ Fits(t, m + rest, i)
    BY DEF Room
<1> USE <1>0
<1>1. /\ m \in Nat /\ t \in Nat /\ t \in 0 .. m /\ MSS \in Nat /\ MSS > 0 /\ Total \in Nat
      /\ m <= Total /\ m + rest <= Total
    BY Sizes DEF Fits
<1>2. /\ Full(free) \in Nat /\ Full(0) = 0
    BY Fulls
<1>3. placed \in Nat /\ placed <= rest /\ placed <= Full(free)
      /\ (placed = rest \/ placed = Full(free))
    BY <1>2 DEF Min2
<1>4. ASSUME NEW k \in K
      PROVE  /\ fresh(k) \in SegRecord /\ Offset(fresh(k)) = m + Full(k - 1)
             /\ Full(k - 1) \in Nat /\ Full(k) = Full(k - 1) + MSS /\ Full(k - 1) < rest
             /\ Full(k) <= Full(free)
             /\ fresh(k).len = Min2(rest - Full(k - 1), MSS)
             /\ fresh(k).len > 0 /\ fresh(k).len \in Nat
             /\ ~fresh(k).outstanding /\ ~fresh(k).acked
             /\ Place(fresh(k), t, m + rest, i)
    <2>1. k \in 1 .. free
        BY DEF Batch
    <2>2. Full(k) <= Full(free)
        BY <2>1, Fulls
    <2>3. k \in Batch(rest, free)
        BY DEF K
    <2>4. fresh(k) = Fresh(t, m, i, rest, k)
        OBVIOUS
    <2> HIDE DEF fresh
    <2>5. /\ fresh(k) \in SegRecord /\ Offset(fresh(k)) = m + Full(k - 1)
          /\ Full(k - 1) \in Nat /\ Full(k) = Full(k - 1) + MSS /\ Full(k - 1) < rest
          /\ fresh(k).len = Min2(rest - Full(k - 1), MSS)
          /\ fresh(k).len > 0 /\ fresh(k).len \in Nat
          /\ ~fresh(k).outstanding /\ ~fresh(k).acked
          /\ Place(fresh(k), t, m + rest, i)
        BY ONLY <2>3, <2>4, Room(t, m, i, rest, free), FreshSegment
    <2> QED
        BY <2>2, <2>5
<1>5. new = {fresh(k) : k \in K}
    BY DEF FreshSet
<1> HIDE DEF K, fresh
<1>6. ASSUME NEW k \in K
      PROVE  /\ Offset(fresh(k)) + fresh(k).len <= m + placed
             /\ Offset(fresh(k)) + fresh(k).len <= m + Full(k)
             /\ m <= Offset(fresh(k))
             /\ fresh(k).len < MSS => Offset(fresh(k)) + fresh(k).len = m + placed
    <2>1. /\ Full(k - 1) \in Nat /\ Full(k) = Full(k - 1) + MSS /\ Full(k - 1) < rest
          /\ Full(k) <= Full(free) /\ Offset(fresh(k)) = m + Full(k - 1)
          /\ fresh(k).len = Min2(rest - Full(k - 1), MSS)
        BY <1>4
    <2> DEFINE a == Full(k - 1)
               b == Full(k)
               c == Full(free)
    <2>2. a \in Nat /\ b = a + MSS /\ a < rest /\ b <= c /\ c \in Nat
        BY <2>1, <1>2
    <2> HIDE DEF a, b, c
    <2>3. fresh(k).len = IF rest - a < MSS THEN rest - a ELSE MSS
        BY <2>1 DEF Min2, a
    <2>4. placed <= rest /\ placed <= c /\ (placed = rest \/ placed = c) /\ placed \in Nat
        BY <1>3 DEF c
    <2>5. Offset(fresh(k)) = m + a
        BY <2>1 DEF a
    <2>6. /\ m + a + fresh(k).len <= m + placed /\ m + a + fresh(k).len <= m + b
          /\ fresh(k).len < MSS => m + a + fresh(k).len = m + placed
        BY <1>1, <2>2, <2>3, <2>4
    <2> QED
        BY <1>1, <2>2, <2>5, <2>6 DEF b
<1>7. ASSUME NEW k \in K PROVE Place(fresh(k), t, m + placed, i)
    BY <1>4, <1>6 DEF Place
<1>8. \A s \in S : Offset(s) \in t .. m - 1 /\ Offset(s) + s.len \in t .. m /\ s.len \in Nat
    BY OffsetRange, SegmentTypes
<1>9. ASSUME NEW s \in S PROVE Place(s, t, m + placed, i)
    <2>1. Place(s, t, m, i)
        BY DEF Segments
    <2> QED
        BY <1>1, <1>3, <1>8, <2>1 DEF Place
<1> DEFINE U == S \cup new
<1>10. Tiled(U, t, m + placed)
    <2> SUFFICES ASSUME NEW b \in t .. (m + placed) - 1
                 PROVE  \E s \in U : Covers(s, b) /\ \A u \in U : Covers(u, b) => u = s
        <3> HIDE DEF U
        <3> QED
            BY DEF Tiled
    <2>1. CASE b < m
        <3>1. b \in t .. m - 1
            BY <1>1, <2>1
        <3>2. PICK s \in S : Covers(s, b) /\ \A u \in S : Covers(u, b) => u = s
            BY <3>1 DEF Segments, Tiled
        <3>3. \A k \in K : ~Covers(fresh(k), b)
            BY <1>1, <1>4, <1>6, <2>1 DEF Covers
        <3> QED
            BY <1>5, <3>2, <3>3
    <2>2. CASE ~(b < m)
        <3> DEFINE o == b - m
                   T == {k \in Nat : o < Full(k)}
        <3>1. o \in Nat /\ o < placed /\ b = m + o
            BY <1>1, <1>3, <2>2
        <3> HIDE DEF o
        <3>2. T \in SUBSET Nat /\ free \in T
            BY <1>2, <1>3, <3>1
        <3>3. PICK k \in T : \A j \in T : k <= j
            <4> HIDE DEF T
            <4> QED
                BY <3>2, LeastNumber
        <3>4. k \in 1 .. free /\ k - 1 \in Nat /\ (k - 1) + 1 = k
            BY <1>2, <3>1, <3>2, <3>3
        <3>5. Full(k - 1) \in Nat /\ Full(k - 1) <= o /\ o < Full(k)
            <4>1. k - 1 \notin T
                BY <3>3, <3>4
            <4>2. Full(k - 1) \in Nat
                BY <3>4, Fulls
            <4> QED
                BY <3>1, <3>3, <3>4, <4>1, <4>2
        <3>6. Full(k - 1) < rest
            BY <1>3, <3>1, <3>5
        <3>7. k \in K
            BY <3>4, <3>6 DEF K, Batch
        <3>8. Covers(fresh(k), b)
            <4>1. /\ fresh(k).len = Min2(rest - Full(k - 1), MSS) /\ Full(k) = Full(k - 1) + MSS
                  /\ Offset(fresh(k)) = m + Full(k - 1)
                BY <1>4, <3>7
            <4> DEFINE a == Full(k - 1)
                       c == Full(k)
            <4>2. a \in Nat /\ c = a + MSS /\ a <= o /\ o < c
                BY <3>5, <4>1
            <4>3. Offset(fresh(k)) = m + a
                  /\ fresh(k).len = IF rest - a < MSS THEN rest - a ELSE MSS
                BY <4>1 DEF Min2
            <4> HIDE DEF a, c
            <4> QED
                BY <1>1, <1>3, <3>1, <4>2, <4>3 DEF Covers
        <3>9. ASSUME NEW l \in K, Covers(fresh(l), b) PROVE l = k
            <4>1. /\ Offset(fresh(l)) = m + Full(l - 1) /\ Full(l - 1) \in Nat
                  /\ Offset(fresh(l)) + fresh(l).len <= m + Full(l) /\ Full(l) = Full(l - 1) + MSS
                  /\ fresh(l).len \in Nat
                BY <1>4, <1>6
            <4>2. Full(l - 1) <= o /\ o < Full(l)
                BY <1>1, <3>1, <3>9, <4>1 DEF Covers
            <4>3. l \in 1 .. free
                BY DEF K, Batch
            <4>4. k <= l
                BY <3>3, <4>2, <4>3
            <4>5. l <= k
                <5> SUFFICES ASSUME k <= l - 1 PROVE FALSE
                    BY <3>4, <4>3
                <5>1. Full(k) <= Full(l - 1) /\ Full(k) \in Nat
                    BY <3>4, <4>3, Fulls
                <5> QED
                    BY <3>1, <3>5, <4>1, <4>2, <5>1
            <4> QED
                BY <3>4, <4>3, <4>4, <4>5
        <3>10. \A u \in S : ~Covers(u, b)
            BY <1>1, <1>8, <2>2 DEF Covers
        <3> QED
            BY <1>5, <3>7, <3>8, <3>9, <3>10
    <2> QED
        BY <2>1, <2>2
<1>11. IsFiniteSet(new) /\ Cardinality(new) <= free
    <2> DEFINE f == [k \in K |-> fresh(k)]
    <2>1. K \subseteq 1 .. free
        BY DEF K, Batch
    <2>2. IsFiniteSet(1 .. free) /\ Cardinality(1 .. free) = free
        BY FS_Interval
    <2>3. IsFiniteSet(K) /\ Cardinality(K) <= free
        BY <2>1, <2>2, FS_Subset
    <2>4. f \in [K -> new] /\ \A s \in new : \E k \in K : f[k] = s
        BY <1>5
    <2> HIDE DEF f
    <2>5. f \in Surjection(K, new)
        BY <2>4, Fun_IsSurj
    <2>6. IsFiniteSet(new) /\ Cardinality(new) <= Cardinality(K)
        BY <2>3, <2>5, FS_Surjection
    <2>7. Cardinality(new) \in Nat /\ Cardinality(K) \in Nat
        BY <2>3, <2>6, FS_CardinalityType
    <2> QED
        BY <2>3, <2>6, <2>7
<1>12. IsFiniteSet(S \cup new) /\ Cardinality(S \cup new) <= Cardinality(S) + free
    <2>1. IsFiniteSet(S)
        BY DEF Segments
    <2>2. /\ IsFiniteSet(S \cup new)
          /\ Cardinality(S \cup new) = Cardinality(S) + Cardinality(new) - Cardinality(S \cap new)
        BY <1>11, <2>1, FS_Union
    <2>3. IsFiniteSet(S \cap new)
        BY <2>1, FS_Subset
    <2>4. /\ Cardinality(S) \in Nat /\ Cardinality(new) \in Nat
          /\ Cardinality(S \cap new) \in Nat
        BY <1>11, <2>1, <2>3, FS_CardinalityType
    <2> QED
        BY <1>11, <2>2, <2>4
<1>13. \A s \in new : s \in SegRecord /\ ~s.outstanding /\ ~s.acked /\ m <= Offset(s)
    BY <1>4, <1>5, <1>6
<1>14. Segments(S \cup new, t, m + placed, i)
    BY <1>5, <1>7, <1>9, <1>10, <1>12, <1>13 DEF Segments
<1>15. /\ Numbers(Unsent(S \cup new)) = Numbers(Unsent(S)) \cup Numbers(new)
       /\ Numbers(Open(S \cup new)) = Numbers(Open(S))
       /\ Sacked(S \cup new) = Sacked(S)
    BY <1>13 DEF Numbers, Unsent, Open, Sacked
<1>16. ASSUME NEW h \in t .. m, SentUpTo(S, h) PROVE SentUpTo(S \cup new, h)
    <2>1. \A s \in new : h <= Offset(s)
        <3>1. \A s \in new : Offset(s) \in Nat
            BY <1>13, SegmentTypes
        <3> QED
            BY <1>1, <1>13, <3>1
    <2> QED
        BY <1>13, <1>16, <2>1 DEF SentUpTo
<1>17. \A s \in new : s.len < MSS => Offset(s) + s.len = m + placed
    BY <1>5, <1>6
<1>18. \A s \in S : Offset(s) < m /\ Offset(s) + s.len <= m
    BY <1>1, <1>8
<1>19. placed \in 0 .. rest
    BY <1>3
<1> QED
    BY <1>12, <1>14, <1>15, <1>16, <1>17, <1>18, <1>19 DEF Extended

LEMMA FreshQueue ==
    ASSUME NEW t, NEW m, NEW i, NEW rest, NEW free, Room(t, m, i, rest, free),
           NEW tx \in Seq(SeqNr), Distinct(tx), Sorted(tx),
           \A x \in ToSet(tx) : SeqSub(x, Isn) < m,
           NEW number, number = FreshNumbers(m, rest, free),
           NEW new, new = FreshSet(t, m, i, rest, free)
    PROVE  /\ tx \o number \in Seq(SeqNr) /\ Distinct(tx \o number) /\ Sorted(tx \o number)
           /\ ToSet(tx \o number) = ToSet(tx) \cup Numbers(new)
<1> DEFINE K == Batch(rest, free)
<1>0. /\ rest \in Nat /\ free \in Nat /\ m \in Nat /\ t \in 0 .. m
      /\ Fits(t, m + rest, i)
    BY DEF Room
<1> USE <1>0
<1>1. PICK n \in 0 .. free : K = 1 .. n
    BY BatchInterval
<1>2. ASSUME NEW k \in K
      PROVE  /\ Fresh(t, m, i, rest, k).seq = At(m + Full(k - 1))
             /\ m + Full(k - 1) \in 0 .. Total + 1
             /\ Full(k - 1) \in Nat /\ Full(k) = Full(k - 1) + MSS
    <2>1. Fresh(t, m, i, rest, k).seq = At(m + Full(k - 1))
        BY DEF Fresh, xTCPWindowTxNew
    <2>2. k \in 1 .. free /\ Full(k - 1) < rest
        BY DEF Batch
    <2>3. k - 1 \in Nat /\ (k - 1) + 1 = k
        BY <2>2
    <2>4. Full(k - 1) \in Nat /\ Full(k) = Full(k - 1) + MSS
        BY <2>3, Fulls
    <2>5. m + rest <= Total /\ Total \in Nat
        BY Sizes DEF Fits
    <2> QED
        BY <2>1, <2>2, <2>4, <2>5
<1>3. number = [k \in K |-> At(m + Full(k - 1))] /\ new = {Fresh(t, m, i, rest, k) : k \in K}
    BY DEF FreshSet, FreshNumbers
<1> HIDE DEF K
<1>4. number \in Seq(SeqNr) /\ Len(number) = n /\ \A k \in 1 .. n : number[k] = At(m + Full(k - 1))
    <2>1. \A k \in 1 .. n : At(m + Full(k - 1)) \in SeqNr
        BY <1>1, <1>2, Positions
    <2>2. number = [k \in 1 .. n |-> At(m + Full(k - 1))]
        BY <1>1, <1>3
    <2>3. number \in [1 .. n -> SeqNr]
        BY <2>1, <2>2
    <2>4. n \in Nat
        BY <1>1
    <2> QED
        BY <2>2, <2>3, <2>4
<1>5. ASSUME NEW k \in 1 .. n
      PROVE  SeqSub(number[k], Isn) = m + Full(k - 1) /\ number[k] \in SeqNr
    BY <1>1, <1>2, <1>4, Positions
<1>6. ASSUME NEW j \in 1 .. n, NEW k \in 1 .. n, j < k
      PROVE  Full(j - 1) < Full(k - 1) /\ Full(j - 1) \in Nat /\ Full(k - 1) \in Nat
    <2>1. j \in Nat /\ k - 1 \in Nat /\ j <= k - 1
        BY <1>1, <1>6
    <2>2. Full(j) <= Full(k - 1)
        BY <2>1, Fulls
    <2>3. /\ Full(j) = Full(j - 1) + MSS /\ Full(j - 1) \in Nat /\ Full(k - 1) \in Nat
          /\ MSS \in Nat /\ MSS > 0
        BY <1>1, <1>2, Sizes
    <2> QED
        BY <2>2, <2>3
<1>7. Distinct(number)
    <2> SUFFICES ASSUME NEW j \in 1 .. n, NEW k \in 1 .. n, number[j] = number[k] PROVE j = k
        BY <1>4 DEF Distinct
    <2>1. m + Full(j - 1) = m + Full(k - 1) /\ Full(j - 1) \in Nat /\ Full(k - 1) \in Nat
        BY <1>1, <1>2, <1>5
    <2>2. ~(j < k) /\ ~(k < j)
        BY <1>6, <2>1
    <2> QED
        BY <1>1, <2>2
<1>a. \A x : x \in ToSet(number) <=> \E k \in 1 .. n : number[k] = x
    <2>1. number \in Seq(SeqNr) /\ Len(number) = n
        BY <1>4
    <2>2. \A x : x \in ToSet(number) <=> \E k \in 1 .. Len(number) : number[k] = x
        BY ONLY <2>1, ElementsOf
    <2> QED
        BY <2>1, <2>2, Zenon
<1>8. ToSet(number) = Numbers(new)
    <2>1. \A x : x \in ToSet(number) <=> \E k \in 1 .. n : number[k] = x
        BY <1>a, Zenon
    <2>2. \A x : x \in Numbers(new) <=> \E k \in K : Fresh(t, m, i, rest, k).seq = x
        BY <1>3 DEF Numbers
    <2>3. \A k \in 1 .. n : number[k] = Fresh(t, m, i, rest, k).seq
        BY <1>1, <1>2, <1>4
    <2>4. \A x : x \in ToSet(number) <=> x \in Numbers(new)
        BY <1>1, <2>1, <2>2, <2>3, Zenon
    <2> QED
        BY <2>4, Zenon
<1>9. ToSet(tx) \cap ToSet(number) = {}
    <2> SUFFICES ASSUME NEW x \in ToSet(tx), x \in ToSet(number) PROVE FALSE
        OBVIOUS
    <2>1. PICK k \in 1 .. n : number[k] = x
        BY <1>a, Zenon
    <2>2. SeqSub(x, Isn) = m + Full(k - 1) /\ Full(k - 1) \in Nat
        BY <1>1, <1>2, <1>5, <2>1
    <2> QED
        BY <2>2
<1>10. /\ tx \o number \in Seq(SeqNr) /\ Distinct(tx \o number)
       /\ ToSet(tx \o number) = ToSet(tx) \cup ToSet(number)
    <2>1. number \in Seq(SeqNr)
        BY <1>4
    <2> QED
        BY ONLY tx \in Seq(SeqNr), Distinct(tx), <1>7, <1>9, <2>1, JoinLists
<1>11. Sorted(tx \o number)
    <2>1. /\ Len(tx) \in Nat /\ Len(tx \o number) = Len(tx) + n /\ n \in Nat
          /\ \A j \in 1 .. Len(tx) + n :
                (tx \o number)[j] = IF j <= Len(tx) THEN tx[j] ELSE number[j - Len(tx)]
        BY <1>1, <1>4, ConcatProperties
    <2> DEFINE q == tx \o number
               l == Len(tx)
    <2> SUFFICES ASSUME NEW j \in 1 .. l + n, NEW k \in 1 .. l + n, j < k
                 PROVE  SeqSub(q[j], Isn) < SeqSub(q[k], Isn)
        BY <2>1 DEF Sorted
    <2>2. q[j] = (IF j <= l THEN tx[j] ELSE number[j - l])
          /\ q[k] = (IF k <= l THEN tx[k] ELSE number[k - l])
        BY <2>1
    <2>3. l \in Nat
        BY <2>1
    <2> HIDE DEF q
    <2>4. CASE k <= l
        <3>1. j \in 1 .. l /\ k \in 1 .. l
            BY <2>3, <2>4, <2>1
        <3> QED
            BY <2>2, <2>4, <3>1 DEF Sorted
    <2>5. CASE j <= l /\ ~(k <= l)
        <3>1. j \in 1 .. l /\ k - l \in 1 .. n
            BY <2>1, <2>5
        <3>2. q[j] = tx[j] /\ q[k] = number[k - l]
            BY <2>2, <2>5
        <3>3. SeqSub(tx[j], Isn) < m
            <4>1. tx[j] \in ToSet(tx)
                BY <3>1, ElementsOf
            <4> QED
                BY <4>1
        <3>4. tx[j] \in SeqNr
            BY <3>1
        <3>5. SeqSub(tx[j], Isn) \in Nat
            BY <3>4, NumberOf
        <3>6. SeqSub(number[k - l], Isn) = m + Full((k - l) - 1) /\ Full((k - l) - 1) \in Nat
            BY <1>1, <1>2, <1>5, <3>1
        <3> QED
            BY <3>2, <3>3, <3>5, <3>6
    <2>6. CASE ~(j <= l)
        <3>1. j - l \in 1 .. n /\ k - l \in 1 .. n /\ j - l < k - l /\ ~(k <= l)
            BY <2>1, <2>6
        <3>2. q[j] = number[j - l] /\ q[k] = number[k - l]
            BY <2>2, <2>6, <3>1
        <3>3. /\ SeqSub(number[j - l], Isn) = m + Full((j - l) - 1)
              /\ SeqSub(number[k - l], Isn) = m + Full((k - l) - 1)
            BY <1>5, <3>1
        <3>4. /\ Full((j - l) - 1) < Full((k - l) - 1)
              /\ Full((j - l) - 1) \in Nat /\ Full((k - l) - 1) \in Nat
            BY <1>6, <3>1
        <3> QED
            BY <3>2, <3>3, <3>4
    <2> QED
        BY <2>4, <2>5, <2>6
<1> QED
    BY <1>8, <1>10, <1>11

\* The last segment grows by n bytes.
Longer(s, n) == [s EXCEPT !.len = @ + n]

LEMMA Grows ==
    ASSUME NEW S, NEW t, NEW m, NEW i, Fits(t, m, i), Segments(S, t, m, i),
           NEW s \in S, Offset(s) + s.len = m, ~s.outstanding, ~s.acked,
           NEW n \in Nat, s.len + n <= MSS, Fits(t, m + n, i),
           NEW y, y = Longer(s, n), NEW U, U = (S \ {s}) \cup {y}
    PROVE  /\ Segments(U, t, m + n, i) /\ Cardinality(U) = Cardinality(S)
           /\ Numbers(Unsent(U)) = Numbers(Unsent(S))
           /\ Numbers(Open(U)) = Numbers(Open(S))
           /\ Sacked(U) = Sacked(S)
           /\ \A h : SentUpTo(S, h) => SentUpTo(U, h)
           /\ y.seq = s.seq /\ ~y.outstanding /\ Offset(y) + y.len = m + n
<1>1. s \in SegRecord /\ s.len \in Nat /\ s.len > 0 /\ Offset(s) \in Nat /\ S \subseteq SegRecord
    BY SegmentTypes DEF Segments
<1> DEFINE len == s.len + n
<1>2. y = [s EXCEPT !.len = len]
    BY DEF Longer
<1>3. len \in 1 .. MSS /\ len = s.len + n
    BY <1>1, Sizes
<1> HIDE DEF len
<1>4. y \in SegRecord /\ y.seq = s.seq /\ y.len = len /\ y.pos = s.pos
    BY <1>1, <1>2, <1>3 DEF SegRecord
<1>5. ~y.outstanding
    BY <1>1, <1>2 DEF SegRecord
<1>6. ~y.acked
    BY <1>1, <1>2 DEF SegRecord
<1> HIDE <1>2
<1>7. Offset(y) = Offset(s) /\ Offset(y) + y.len = m + n
    BY <1>1, <1>3, <1>4 DEF Offset
<1>8. /\ t \in Nat /\ m \in Nat /\ \A u \in S : /\ Offset(u) \in t .. m - 1 /\ u.len \in Nat
                                                /\ Offset(u) + u.len \in t .. m
    BY OffsetRange, SegmentTypes, SameSpot
<1>9. \A u \in S : u.seq = s.seq => u = s
    BY NoOverlap
<1>10. U \subseteq SegRecord /\ IsFiniteSet(U) /\ Cardinality(U) = Cardinality(S)
    <2>1. IsFiniteSet(S) /\ IsFiniteSet(S \ {s}) /\ Cardinality(S \ {s}) = Cardinality(S) - 1
        BY FS_RemoveElement DEF Segments
    <2>2. y \notin S \ {s}
        BY <1>4, <1>9
    <2>3. /\ IsFiniteSet((S \ {s}) \cup {y})
          /\ Cardinality((S \ {s}) \cup {y}) = Cardinality(S \ {s}) + 1
        BY <2>1, <2>2, FS_AddElement
    <2>4. Cardinality(S) \in Nat
        BY <2>1, FS_CardinalityType
    <2> QED
        BY <1>1, <1>4, <2>1, <2>3, <2>4
<1>11. ASSUME NEW u \in U PROVE Place(u, t, m + n, i)
    <2>1. CASE u = y
        <3>1. Place(s, t, m, i)
            BY DEF Segments
        <3> QED
            BY <1>4, <1>7, <1>8, <2>1, <3>1 DEF Place
    <2>2. CASE u \in S
        <3>1. Place(u, t, m, i)
            BY <2>2 DEF Segments
        <3> QED
            BY <1>8, <2>2, <3>1 DEF Place
    <2> QED
        BY <2>1, <2>2
<1>12. Tiled(U, t, m + n)
    <2> SUFFICES ASSUME NEW b \in t .. (m + n) - 1
                 PROVE  \E u \in U : Covers(u, b) /\ \A v \in U : Covers(v, b) => v = u
        BY DEF Tiled
    <2>1. CASE b < m
        <3>1. b \in t .. m - 1
            BY <1>8, <2>1
        <3>2. PICK u \in S : Covers(u, b) /\ \A v \in S : Covers(v, b) => v = u
            BY <3>1 DEF Segments, Tiled
        <3>3. Covers(y, b) <=> Covers(s, b)
            BY <1>1, <1>3, <1>4, <1>7, <1>8, <2>1 DEF Covers
        <3> QED
            BY <3>2, <3>3
    <2>2. CASE ~(b < m)
        <3>1. Covers(y, b)
            BY <1>1, <1>7, <1>8, <2>2 DEF Covers
        <3>2. \A v \in S : ~Covers(v, b)
            BY <1>8, <2>2 DEF Covers
        <3> QED
            BY <3>1, <3>2
    <2> QED
        BY <2>1, <2>2
<1>13. /\ Numbers(Unsent(U)) = Numbers(Unsent(S))
       /\ Numbers(Open(U)) = Numbers(Open(S))
    BY <1>4, <1>5, <1>6 DEF Numbers, Unsent, Open
<1>14. Sacked(U) = Sacked(S)
    BY <1>6 DEF Sacked
<1>15. ASSUME NEW h, SentUpTo(S, h) PROVE SentUpTo(U, h)
    BY <1>5, <1>6, <1>7, <1>15 DEF SentUpTo
<1> QED
    BY <1>4, <1>5, <1>7, <1>10, <1>11, <1>12, <1>13, <1>14, <1>15 DEF Segments

\* Data is added to the segment at the end, when it was not sent and has room.
LEMMA GrownWindow ==
    ASSUME NEW t, NEW m, NEW i, Fits(t, m, i), NEW win, Good(win, t, m, i),
           CanGrow(win), NEW len \in Nat, Fits(t, m + len, i),
           NEW g, g = prvTCPWindowTxAdd_FrontSegment(win, len)
    PROVE  \E n \in 0 .. len :
               /\ Good(g, t, m + n, i) /\ Fits(t, m + n, i)
               /\ SeqSub(g.next, win.next) = n
               /\ g.segs # {} /\ Cardinality(g.segs) = Cardinality(win.segs)
               /\ g.highest = win.highest /\ g.finSeq = win.finSeq
               /\ Sacked(g.segs) = Sacked(win.segs)
<1> DEFINE S == win.segs
           s == CHOOSE u \in win.segs : u.seq \in win.headSeg
           n == Min2(len, MSS - s.len)
           y == [s EXCEPT !.len = @ + n]
           U == (S \ {s}) \cup {y}
           headSeg == IF s.len + n >= MSS THEN NULL ELSE win.headSeg
           next == SeqAdd(win.next, n)
<1>1. g = [win EXCEPT !.segs = U, !.headSeg = headSeg, !.next = next]
    BY DEF prvTCPWindowTxAdd_FrontSegment
<1>2. /\ win \in WinType /\ Segments(S, t, m, i) /\ S \subseteq SegRecord
      /\ Lined(win.txq, win.waitq, win.prioq, Numbers(Unsent(S)), Numbers(Open(S)))
      /\ Sorted(win.txq) /\ HeadIsLast(win, m)
      /\ win.cur = At(t) /\ win.next = At(m)
    BY DEF Good, Segments
<1>3. PICK h \in t .. m : win.highest = At(h) /\ SentUpTo(S, h)
    BY DEF Good
<1>4. PICK v \in S : v.seq \in win.headSeg /\ v.len < MSS
    BY DEF CanGrow
<1>5. s \in S /\ s.seq \in win.headSeg
    BY <1>4
<1> HIDE DEF s
<1>6. \A u \in S : u.seq \in win.headSeg => u = s
    <2> SUFFICES ASSUME NEW u \in S, u.seq \in win.headSeg PROVE u = s
        OBVIOUS
    <2>1. /\ ~u.outstanding /\ Offset(u) + u.len = m
          /\ ~s.outstanding /\ Offset(s) + s.len = m
        BY <1>2, <1>5 DEF HeadIsLast
    <2>2. /\ Offset(u) \in t .. m - 1 /\ Offset(s) \in t .. m - 1 /\ t \in Nat /\ m \in Nat
          /\ u.len \in Nat /\ s.len \in Nat
        BY <1>2, <1>5, OffsetRange, SegmentTypes, SameSpot
    <2>3. m - 1 \in t .. m - 1
        BY <2>2
    <2>4. Covers(u, m - 1) /\ Covers(s, m - 1)
        BY <2>1, <2>2 DEF Covers
    <2> QED
        BY <1>2, <1>5, <2>3, <2>4 DEF Segments, Tiled
<1>7. /\ s.len < MSS /\ s.len \in Nat /\ ~s.outstanding /\ Offset(s) + s.len = m
    <2>1. s.len \in Nat
        BY <1>2, <1>5, SegmentTypes
    <2> QED
        BY <1>2, <1>4, <1>5, <1>6, <2>1 DEF HeadIsLast
<1>8. ~s.acked
    BY <1>3, <1>5, <1>7 DEF SentUpTo
<1>9. /\ n \in 0 .. len /\ s.len + n <= MSS
    BY <1>7, Sizes DEF Min2
<1> HIDE DEF n
<1>10. /\ t \in Nat /\ m \in Nat /\ t <= m /\ m + n <= Total /\ Fits(t, m + n, i)
       /\ m + n \in 0 .. Total + 1 /\ m \in 0 .. Total + 1
    BY <1>9, Sizes DEF Fits
<1>11. /\ Segments(U, t, m + n, i) /\ Cardinality(U) = Cardinality(S)
       /\ Numbers(Unsent(U)) = Numbers(Unsent(S))
       /\ Numbers(Open(U)) = Numbers(Open(S))
       /\ Sacked(U) = Sacked(S)
       /\ \A k : SentUpTo(S, k) => SentUpTo(U, k)
       /\ y.seq = s.seq /\ ~y.outstanding /\ Offset(y) + y.len = m + n
    <2>1. y = Longer(s, n) /\ U = (S \ {s}) \cup {y} /\ n \in Nat
        BY <1>9 DEF Longer
    <2>2. Segments(S, t, m, i) /\ s \in S /\ Offset(s) + s.len = m /\ s.len + n <= MSS
        BY <1>2, <1>5, <1>7, <1>9
    <2>3. ~s.outstanding /\ ~s.acked /\ Fits(t, m, i) /\ Fits(t, m + n, i)
        BY <1>7, <1>8, <1>10
    <2> HIDE DEF y, U, S
    <2> QED
        BY ONLY <2>1, <2>2, <2>3, Grows
<1>12. next = At(m + n)
    <2>1. n \in Nat /\ m + n <= Total + 1
        BY <1>9, <1>10
    <2> QED
        BY <1>2, <1>10, <2>1, Advance
<1>13. next \in SeqNr /\ SeqSub(next, win.next) = n
    <2>1. m <= m + n /\ (m + n) - m = n
        BY <1>9, <1>10
    <2> QED
        BY <1>2, <1>10, <1>12, <2>1, Positions
<1>14. U \subseteq SegRecord /\ U # {}
    BY <1>11 DEF Segments
<1>15. headSeg \subseteq SeqNr
    BY <1>2, WindowRecord DEF NULL
<1>16. \A u \in U : u.seq \in headSeg => ~u.outstanding /\ Offset(u) + u.len = m + n
    <2> SUFFICES ASSUME NEW u \in U, u.seq \in headSeg
                 PROVE  ~u.outstanding /\ Offset(u) + u.len = m + n
        OBVIOUS
    <2>1. u.seq \in win.headSeg
        BY DEF NULL
    <2>2. u = y
        BY <1>6, <2>1
    <2> QED
        BY <1>11, <2>2
<1> HIDE DEF y, U, headSeg, next
<1>17. /\ g \in WinType /\ g.segs = U /\ g.headSeg = headSeg /\ g.next = next
       /\ g.cur = win.cur /\ g.highest = win.highest /\ g.finSeq = win.finSeq
       /\ g.txq = win.txq /\ g.waitq = win.waitq /\ g.prioq = win.prioq
    BY <1>1, <1>2, <1>13, <1>14, <1>15 DEF WinType
<1>18. Good(g, t, m + n, i)
    <2>1. HeadIsLast(g, m + n)
        BY <1>16, <1>17 DEF HeadIsLast
    <2>2. h \in t .. m + n
        BY <1>9, <1>10
    <2> QED
        BY <1>2, <1>3, <1>11, <1>12, <1>17, <2>1, <2>2 DEF Good
<1> QED
    BY <1>9, <1>10, <1>11, <1>13, <1>14, <1>17, <1>18

\* Data that is added to the window stays within the stream and the buffer, and
\* what was in the window before is left as it was.
LEMMA Added ==
    ASSUME NEW t, NEW m, NEW i, Fits(t, m, i), NEW win, Good(win, t, m, i),
           NEW len \in Nat, Fits(t, m + len, i), NEW free \in Nat,
           NEW r, r = lTCPWindowTxAdd(win, len, Wrap(i + (m - t)), free)
    PROVE  /\ r.done \in 0 .. len /\ Good(r.win, t, m + r.done, i)
           /\ Cardinality(r.win.segs) <= Cardinality(win.segs) + free
           /\ (len > 0 /\ free > 0) \/ win.segs # {} => r.win.segs # {}
           /\ r.win.highest = win.highest /\ r.win.finSeq = win.finSeq
           /\ Sacked(r.win.segs) = Sacked(win.segs)
<1> DEFINE g == IF CanGrow(win) THEN prvTCPWindowTxAdd_FrontSegment(win, len) ELSE win
           first == SeqSub(g.next, win.next)
           pos == Wrap(i + (m - t))
<1>1. /\ t \in Nat /\ m \in Nat /\ t <= m /\ m + len <= Total /\ m + len - t <= LENGTH - 1
      /\ i \in 0 .. LENGTH - 1 /\ Total \in Nat /\ LENGTH \in Nat
      /\ t \in 0 .. Total + 1 /\ m \in 0 .. Total + 1
    BY Sizes DEF Fits
<1>2. PICK n \in 0 .. len :
          /\ Good(g, t, m + n, i) /\ Fits(t, m + n, i) /\ first = n
          /\ CanGrow(win) \/ win.segs # {} => g.segs # {}
          /\ Cardinality(g.segs) = Cardinality(win.segs)
          /\ g.highest = win.highest /\ g.finSeq = win.finSeq
          /\ Sacked(g.segs) = Sacked(win.segs)
    <2>1. CASE CanGrow(win)
        <3> DEFINE f == prvTCPWindowTxAdd_FrontSegment(win, len)
        <3>1. f = prvTCPWindowTxAdd_FrontSegment(win, len) /\ g = f
            BY <2>1
        <3> HIDE DEF f, g
        <3>2. \E n \in 0 .. len :
                   /\ Good(f, t, m + n, i) /\ Fits(t, m + n, i)
                   /\ SeqSub(f.next, win.next) = n
                   /\ f.segs # {} /\ Cardinality(f.segs) = Cardinality(win.segs)
                   /\ f.highest = win.highest /\ f.finSeq = win.finSeq
                   /\ Sacked(f.segs) = Sacked(win.segs)
            BY <2>1, <3>1, GrownWindow
        <3> QED
            BY <3>1, <3>2
    <2>2. CASE ~CanGrow(win)
        <3>1. g = win /\ 0 \in 0 .. len /\ m + 0 = m
            BY <1>1, <2>2
        <3>2. SeqSub(win.next, win.next) = 0
            BY <1>1, Positions DEF Good
        <3> QED
            BY <2>2, <3>1, <3>2
    <2> QED
        BY <2>1, <2>2
<1> HIDE DEF g
<1> DEFINE base == m + n
           rest == len - n
           number == FreshNumbers(base, rest, free)
           new == FreshSet(t, base, i, rest, free)
           placed == Min2(rest, Full(free))
           headSeg == IF new = {} THEN g.headSeg
                      ELSE {s.seq : s \in {q \in new : q.len < MSS}}
           next == SeqAdd(g.next, placed)
           U == g.segs \cup new
           tx == g.txq \o number
<1>3. /\ rest \in Nat /\ base \in Nat /\ t \in 0 .. base /\ n \in Nat /\ base + rest = m + len
      /\ Fits(t, base + rest, i) /\ Fits(t, base, i) /\ base \in 0 .. Total + 1
    BY <1>1, <1>2
<1>4. ASSUME NEW k \in Batch(rest, free)
      PROVE  /\ SeqAdd(g.next, (k - 1) * MSS) = At(base + Full(k - 1))
             /\ lTCPIncrementTxPosition(pos, LENGTH, first + (k - 1) * MSS)
                    = Wrap(i + (base + Full(k - 1) - t))
    <2>1. k \in 1 .. free /\ Full(k - 1) < rest /\ (k - 1) * MSS = Full(k - 1)
        BY DEF Batch, Full
    <2>2. Full(k - 1) \in Nat
        BY <2>1, Fulls
    <2> DEFINE a == Full(k - 1)
    <2>3. a \in Nat /\ a < rest /\ (k - 1) * MSS = a
        BY <2>1, <2>2
    <2> HIDE DEF a
    <2>4. SeqAdd(At(base), a) = At(base + a)
        <3>1. base + a <= Total + 1
            BY <1>1, <1>3, <2>3
        <3> QED
            BY <1>3, <2>3, <3>1, Advance
    <2> DEFINE c == m - t
               d == n + a
    <2>5. c \in 0 .. LENGTH - 1 /\ d \in 0 .. LENGTH - 1 /\ c + d <= LENGTH - 1
          /\ c + d = base + a - t
        BY <1>1, <1>3, <2>3
    <2> HIDE DEF c, d, base
    <2>6. lTCPIncrementTxPosition(Wrap(i + c), LENGTH, d) = Wrap(i + (c + d))
        BY <1>1, <2>5, Wrapping
    <2>7. lTCPIncrementTxPosition(pos, LENGTH, first + a) = Wrap(i + (base + a - t))
        BY <1>2, <2>5, <2>6 DEF c, d
    <2> QED
        BY <1>2, <2>3, <2>4, <2>7 DEF a, base, Good
<1>5. /\ r.win = [g EXCEPT !.segs = U, !.txq = tx, !.next = next, !.headSeg = headSeg]
      /\ r.done = n + placed
    <2> DEFINE K == {j \in 1 .. free : (j - 1) * MSS < len - first}
               num == [k \in K |-> SeqAdd(g.next, (k - 1) * MSS)]
               nw == {xTCPWindowTxNew(num[k], Min2(len - first - (k - 1) * MSS, MSS),
                         lTCPIncrementTxPosition(pos, LENGTH, first + (k - 1) * MSS)) :
                         k \in DOMAIN num}
               pl == Min2(len - first, free * MSS)
    <2>1. /\ r.win = [g EXCEPT !.segs = @ \cup nw, !.txq = @ \o num, !.next = SeqAdd(@, pl),
                               !.headSeg = IF nw = {} THEN @
                                           ELSE {s.seq : s \in {q \in nw : q.len < MSS}}]
          /\ r.done = first + pl
        BY DEF lTCPWindowTxAdd, g
    <2>2. K = Batch(rest, free) /\ len - first = rest /\ pl = placed
        BY <1>2 DEF Batch, Full
    <2>3. num = number
        BY <1>4, <2>2 DEF FreshNumbers
    <2>4. \A k \in K : (k - 1) * MSS = Full(k - 1)
        BY DEF Full
    <2> HIDE DEF K, rest, base
    <2>5. nw = {Fresh(t, base, i, rest, k) : k \in K}
        <3>1. ASSUME NEW k \in K
              PROVE  xTCPWindowTxNew(num[k], Min2(len - first - (k - 1) * MSS, MSS),
                         lTCPIncrementTxPosition(pos, LENGTH, first + (k - 1) * MSS))
                     = Fresh(t, base, i, rest, k)
            BY <1>4, <2>2, <2>4 DEF Fresh
        <3>2. DOMAIN num = K
            OBVIOUS
        <3> HIDE DEF num, first, pos
        <3> QED
            BY <3>1, <3>2
    <2>6. nw = new
        BY <2>2, <2>5 DEF FreshSet
    <2> HIDE DEF nw, num, new, number, placed, pl, first
    <2> QED
        BY <1>2, <2>1, <2>2, <2>3, <2>6
<1>6. /\ g \in WinType /\ Segments(g.segs, t, base, i) /\ g.segs \subseteq SegRecord
      /\ Lined(g.txq, g.waitq, g.prioq, Numbers(Unsent(g.segs)), Numbers(Open(g.segs)))
      /\ Sorted(g.txq) /\ HeadIsLast(g, base)
      /\ g.cur = At(t) /\ g.next = At(base)
    BY <1>2 DEF Good, Segments
<1>7. PICK h \in t .. base : g.highest = At(h) /\ SentUpTo(g.segs, h)
    BY <1>2 DEF Good
<1> HIDE DEF base, rest
<1>a. Room(t, base, i, rest, free)
    BY <1>3 DEF Room
<1>8. /\ placed \in 0 .. rest /\ Segments(U, t, base + placed, i)
      /\ Cardinality(U) <= Cardinality(g.segs) + free
      /\ Numbers(Unsent(U)) = Numbers(Unsent(g.segs)) \cup Numbers(new)
      /\ Numbers(Open(U)) = Numbers(Open(g.segs))
      /\ Sacked(U) = Sacked(g.segs)
      /\ \A k \in t .. base : SentUpTo(g.segs, k) => SentUpTo(U, k)
      /\ \A s \in new : s.len < MSS => Offset(s) + s.len = base + placed
      /\ \A s \in g.segs : Offset(s) < base /\ Offset(s) + s.len <= base
    <2> DEFINE S == g.segs
    <2>1. Segments(S, t, base, i)
        BY <1>6
    <2>2. new = FreshSet(t, base, i, rest, free) /\ placed = Min2(rest, Full(free))
        OBVIOUS
    <2> HIDE DEF S, new, placed
    <2>3. placed \in 0 .. rest /\ Extended(S, new, t, base, i, free, placed)
        BY ONLY <1>a, <2>1, <2>2, FreshSegments
    <2> QED
        BY <2>3 DEF S, Extended
<1>9. ASSUME NEW s \in new
      PROVE  /\ s \in SegRecord /\ ~s.outstanding
             /\ base <= Offset(s) /\ Offset(s) \in Nat
    <2>1. PICK k \in Batch(rest, free) : s = Fresh(t, base, i, rest, k)
        BY DEF FreshSet
    <2> HIDE DEF new
    <2>2. /\ s \in SegRecord /\ Offset(s) = base + Full(k - 1) /\ Full(k - 1) \in Nat
          /\ ~s.outstanding
        BY ONLY <1>a, <2>1, FreshSegment
    <2> QED
        BY <1>3, <2>2
<1>10. /\ tx \in Seq(SeqNr) /\ Distinct(tx) /\ Sorted(tx)
       /\ ToSet(tx) = ToSet(g.txq) \cup Numbers(new)
    <2>1. g.txq \in Seq(SeqNr) /\ Distinct(g.txq) /\ ToSet(g.txq) = Numbers(Unsent(g.segs))
        BY <1>6 DEF Lined
    <2>2. \A x \in ToSet(g.txq) : SeqSub(x, Isn) < base
        BY <1>8, <2>1 DEF Numbers, Unsent, Offset
    <2> DEFINE q == g.txq
    <2>3. q \in Seq(SeqNr) /\ Distinct(q) /\ Sorted(q) /\ \A x \in ToSet(q) : SeqSub(x, Isn) < base
        BY <1>6, <2>1, <2>2
    <2>4. number = FreshNumbers(base, rest, free) /\ new = FreshSet(t, base, i, rest, free)
        OBVIOUS
    <2> HIDE DEF q, number, new
    <2>5. /\ q \o number \in Seq(SeqNr) /\ Distinct(q \o number) /\ Sorted(q \o number)
          /\ ToSet(q \o number) = ToSet(q) \cup Numbers(new)
        BY ONLY <1>a, <2>3, <2>4, FreshQueue
    <2> QED
        BY <2>5 DEF q
<1>11. Lined(tx, g.waitq, g.prioq, Numbers(Unsent(U)), Numbers(Open(U)))
    <2> HIDE DEF U, tx, new
    <2> QED
        BY <1>6, <1>8, <1>10 DEF Lined
<1>12. placed \in Nat /\ placed <= rest
    BY <1>3, <1>8
<1>13. next = At(base + placed) /\ base + placed \in 0 .. Total + 1
    <2> HIDE DEF placed
    <2>1. base + placed \in 0 .. Total + 1
        BY <1>1, <1>3, <1>12
    <2> QED
        BY <1>3, <1>6, <1>12, <2>1, Advance
<1>14. next \in SeqNr /\ U \subseteq SegRecord
    BY <1>8, <1>13, Positions DEF Segments
<1>15. headSeg \subseteq SeqNr
    <2>1. \A s \in new : s.seq \in SeqNr
        BY <1>9, SegmentTypes
    <2>2. g.headSeg \subseteq SeqNr
        BY <1>6, WindowRecord
    <2> HIDE DEF new
    <2> QED
        BY <2>1, <2>2
<1>16. new = {} => placed = 0
    <2>1. ASSUME placed # 0 PROVE 1 \in Batch(rest, free)
        <3>1. rest > 0
            BY <1>3, <1>12, <2>1
        <3>2. free # 0
            <4>1. free = 0 => placed = 0
                BY <1>3, Fulls DEF Min2
            <4> QED
                BY <2>1, <4>1
        <3>3. 1 \in 1 .. free /\ Full(1 - 1) = 0
            BY <3>2, Fulls
        <3> QED
            BY <3>1, <3>3 DEF Batch
    <2> QED
        BY <2>1 DEF FreshSet
<1>17. (len > 0 /\ free > 0) \/ win.segs # {} => U # {}
    <2>1. CASE CanGrow(win)
        BY <1>2, <2>1
    <2>2. CASE ~CanGrow(win)
        <3> SUFFICES ASSUME len > 0, free > 0 PROVE new # {}
            BY <1>2
        <3>1. first = 0
            <4>1. g = win
                BY <2>2 DEF g
            <4>2. m <= m /\ m - m = 0
                BY <1>1
            <4> QED
                BY <1>1, <4>1, <4>2, Positions DEF Good
        <3>2. 1 \in 1 .. free /\ Full(1 - 1) = 0 /\ rest = len
            BY <1>2, <3>1, Fulls DEF rest
        <3>3. 1 \in Batch(rest, free)
            BY <3>2 DEF Batch
        <3> QED
            BY <3>3 DEF FreshSet
    <2> QED
        BY <2>1, <2>2
<1>18. \A s \in U : s.seq \in headSeg => ~s.outstanding /\ Offset(s) + s.len = base + placed
    <2> SUFFICES ASSUME NEW s \in U, s.seq \in headSeg
                 PROVE  ~s.outstanding /\ Offset(s) + s.len = base + placed
        OBVIOUS
    <2>1. CASE new = {}
        <3>1. s \in g.segs /\ s.seq \in g.headSeg /\ base + placed = base
            BY <1>3, <1>16, <2>1
        <3> QED
            BY <1>6, <3>1 DEF HeadIsLast
    <2>2. CASE new # {}
        <3>1. PICK q \in new : q.len < MSS /\ q.seq = s.seq
            BY <2>2
        <3>2. q = s
            <4>1. \A u, v \in U : u.seq = v.seq => u = v
                <5>1. Fits(t, base + placed, i)
                    BY <1>1, <1>3, <1>12 DEF Fits
                <5> HIDE DEF placed, U
                <5> QED
                    BY <1>8, <5>1, NoOverlap
            <4> QED
                BY <3>1, <4>1
        <3> QED
            BY <1>8, <1>9, <3>1, <3>2
    <2> QED
        BY <2>1, <2>2
<1> HIDE DEF number, new, placed, headSeg, next, U, tx
<1>19. /\ r.win \in WinType /\ r.win.segs = U /\ r.win.headSeg = headSeg /\ r.win.next = next
       /\ r.win.cur = g.cur /\ r.win.highest = g.highest /\ r.win.finSeq = g.finSeq
       /\ r.win.txq = tx /\ r.win.waitq = g.waitq /\ r.win.prioq = g.prioq
    BY <1>5, <1>6, <1>10, <1>14, <1>15 DEF WinType
<1>20. Good(r.win, t, base + placed, i)
    <2>1. HeadIsLast(r.win, base + placed)
        BY <1>18, <1>19 DEF HeadIsLast
    <2>2. h \in t .. base + placed
        BY <1>3, <1>12
    <2> QED
        BY <1>6, <1>7, <1>8, <1>10, <1>11, <1>13, <1>19, <2>1, <2>2 DEF Good
<1>21. r.done \in 0 .. len /\ m + r.done = base + placed
    BY <1>1, <1>2, <1>3, <1>5, <1>12 DEF base, rest
<1> QED
    BY <1>2, <1>8, <1>17, <1>19, <1>20, <1>21

\* A FIN that is noted in the window changes nothing else.
LEMMA FinNoted ==
    ASSUME NEW t, NEW m, NEW i, Fits(t, m, i), NEW win, Good(win, t, m, i),
           NEW u, u = [win EXCEPT !.finSeq = win.cur]
    PROVE  /\ Good(u, t, m, i) /\ u.segs = win.segs /\ u.highest = win.highest
<1>1. win \in WinType /\ win.cur \in SeqNr
    BY WindowRecord DEF Good
<1>2. /\ u \in WinType /\ u.segs = win.segs /\ u.headSeg = win.headSeg /\ u.next = win.next
      /\ u.cur = win.cur /\ u.highest = win.highest
      /\ u.txq = win.txq /\ u.waitq = win.waitq /\ u.prioq = win.prioq
    BY <1>1 DEF WinType
<1>3. HeadIsLast(u, m)
    BY <1>2 DEF HeadIsLast, Good
<1> QED
    BY <1>2, <1>3 DEF Good

-----------------------------------------------------------------------------
(***************************************************************************)
(* The invariant of the sender.  No assumption is made on what the peer      *)
(* acknowledges.                                                            *)
(***************************************************************************)
\* The window matches a part t .. m - 1 of the stream, of which the user has
\* written the bytes up to hd, and the pool of descriptors is not overdrawn.
InStep(win, t, m, i, j, hd, others) ==
    /\ Fits(t, m, i) /\ Good(win, t, m, i)
    /\ j = Wrap(i + (m - t))
    /\ hd \in m .. Total /\ Fits(t, hd, i)
    /\ others \in Nat /\ others + Cardinality(win.segs) <= SegCount

IInv ==
    /\ InStep(w, tail, mid, uxTail, uxMid, head, othersSegs)
    /\ shut \in {"no", "asked", "fin"} /\ ip \in 0 .. SendRepeated

LEMMA InStepFacts ==
    ASSUME NEW win, NEW t, NEW m, NEW i, NEW j, NEW hd, NEW others,
           InStep(win, t, m, i, j, hd, others)
    PROVE  /\ Fits(t, m, i) /\ Good(win, t, m, i) /\ Fits(t, hd, i)
           /\ t \in Nat /\ m \in Nat /\ hd \in Nat /\ t <= m /\ m <= hd /\ hd <= Total
           /\ hd - t <= LENGTH - 1 /\ m - t <= LENGTH - 1
           /\ i \in 0 .. LENGTH - 1 /\ j \in 0 .. LENGTH - 1
           /\ others \in Nat /\ Cardinality(win.segs) \in Nat
           /\ SegCount - Cardinality(win.segs) - others \in Nat
<1>1. /\ Fits(t, m, i) /\ Good(win, t, m, i) /\ Fits(t, hd, i)
      /\ hd \in m .. Total /\ others \in Nat /\ others + Cardinality(win.segs) <= SegCount
      /\ j = Wrap(i + (m - t))
    BY DEF InStep
<1>2. Cardinality(win.segs) \in Nat
    BY <1>1, FS_CardinalityType DEF Good, Segments
<1>3. m \in t .. m
    BY <1>1, Sizes DEF Fits
<1>4. j \in 0 .. LENGTH - 1
    BY <1>1, <1>3, SameSpot DEF Fits
<1> QED
    BY <1>1, <1>2, <1>4, Sizes DEF Fits

\* prvTCPAddTxData.
LEMMA Filled ==
    ASSUME NEW win, NEW t, NEW m, NEW i, NEW j, NEW hd, NEW others,
           InStep(win, t, m, i, j, hd, others),
           NEW r, r = lTCPWindowTxAdd(win, hd - m, j, SegCount - Cardinality(win.segs) - others)
    PROVE  /\ InStep(r.win, t, m + r.done, i, Wrap(j + r.done), hd, others)
           /\ others = 0 /\ SegCount > 0 => hd = m + r.done \/ r.win.segs # {}
           /\ r.win.highest = win.highest /\ Sacked(r.win.segs) = Sacked(win.segs)
<1> DEFINE len == hd - m
           free == SegCount - Cardinality(win.segs) - others
<1>1. /\ Fits(t, m, i) /\ Good(win, t, m, i) /\ Fits(t, hd, i)
      /\ t \in Nat /\ m \in Nat /\ hd \in Nat /\ t <= m /\ m <= hd /\ hd <= Total
      /\ hd - t <= LENGTH - 1 /\ m - t <= LENGTH - 1
      /\ i \in 0 .. LENGTH - 1 /\ j \in 0 .. LENGTH - 1
      /\ others \in Nat /\ Cardinality(win.segs) \in Nat /\ free \in Nat
    BY InStepFacts
<1>2. j = Wrap(i + (m - t))
    BY DEF InStep
<1>3. len \in Nat /\ m + len = hd /\ SegCount \in Nat /\ LENGTH \in Nat /\ Total \in Nat
    BY <1>1, Sizes
<1>4. r = lTCPWindowTxAdd(win, len, Wrap(i + (m - t)), free)
    BY <1>2
<1>5. free + others + Cardinality(win.segs) = SegCount
    BY <1>1, <1>3
<1> HIDE DEF len, free
<1>6. /\ r.done \in 0 .. len /\ Good(r.win, t, m + r.done, i)
      /\ Cardinality(r.win.segs) <= Cardinality(win.segs) + free
      /\ (len > 0 /\ free > 0) \/ win.segs # {} => r.win.segs # {}
      /\ r.win.highest = win.highest
      /\ Sacked(r.win.segs) = Sacked(win.segs)
    <2>1. Fits(t, m + len, i)
        BY <1>1, <1>3
    <2> QED
        BY <1>1, <1>3, <1>4, <2>1, Added
<1> DEFINE n == m + r.done
<1>7. n \in m .. hd /\ Fits(t, n, i)
    BY <1>1, <1>3, <1>6 DEF Fits
<1>8. Wrap(j + r.done) = Wrap(i + (n - t))
    <2> DEFINE a == m - t
               b == r.done
    <2>1. a \in 0 .. LENGTH - 1 /\ b \in 0 .. LENGTH - 1 /\ a + b <= LENGTH - 1
          /\ a + b = n - t
        BY <1>1, <1>3, <1>6
    <2> HIDE DEF a, b, n
    <2>2. Wrap(Wrap(i + a) + b) = Wrap(i + (a + b))
        BY <1>1, <2>1, Wrapping
    <2> QED
        BY <1>2, <2>1, <2>2 DEF a, b
<1>9. others + Cardinality(r.win.segs) <= SegCount
    <2>1. IsFiniteSet(r.win.segs)
        BY <1>6 DEF Good, Segments
    <2>2. Cardinality(r.win.segs) \in Nat
        BY <2>1, FS_CardinalityType
    <2> QED
        BY <1>1, <1>3, <1>5, <1>6, <2>2
<1>10. InStep(r.win, t, m + r.done, i, Wrap(j + r.done), hd, others)
    <2>1. hd \in n .. Total
        BY <1>1, <1>3, <1>7
    <2> QED
        BY <1>1, <1>6, <1>7, <1>8, <1>9, <2>1 DEF InStep
<1>11. ASSUME others = 0, SegCount > 0, hd # n PROVE r.win.segs # {}
    <2>1. len > 0
        BY <1>3, <1>6, <1>11
    <2>2. free > 0 \/ win.segs # {}
        <3>1. win.segs = {} => Cardinality(win.segs) = 0
            BY FS_EmptySet
        <3> QED
            BY <1>1, <1>3, <1>5, <1>11, <3>1
    <2> QED
        BY <1>6, <2>1, <2>2
<1> QED
    BY <1>6, <1>10, <1>11

\* The timer of the socket: the window takes what the user has written.
LEMMA CheckStep ==
    ASSUME IInv, xTCPSocketCheck
    PROVE  /\ IInv'
           /\ othersSegs = 0 /\ SegCount > 0 => mid' = head \/ w'.segs # {}
           /\ w'.highest = w.highest /\ Sacked(w'.segs) = Sacked(w.segs)
<1> DEFINE r == prvTCPAddTxData(w)
<1>1. InStep(w, tail, mid, uxTail, uxMid, head, othersSegs) /\ shut \in {"no", "asked", "fin"}
    BY DEF IInv
<1>2. r = lTCPWindowTxAdd(w, head - mid, uxMid, SegCount - Cardinality(w.segs) - othersSegs)
    BY DEF prvTCPAddTxData, FreeSegments
<1>3. /\ w' = r.win /\ mid' = mid + r.done /\ uxMid' = Wrap(uxMid + r.done)
      /\ ip' = SendRepeated
      /\ UNCHANGED <<ulWindowSize, head, tail, uxTail, othersSegs, shut, wire, peer>>
    <2> HIDE DEF r
    <2> QED
        BY Zenon DEF xTCPSocketCheck, vStreamBufferMoveMid, r
<1> HIDE DEF r
<1>4. /\ InStep(r.win, tail, mid + r.done, uxTail, Wrap(uxMid + r.done), head, othersSegs)
      /\ othersSegs = 0 /\ SegCount > 0 => head = mid + r.done \/ r.win.segs # {}
      /\ r.win.highest = w.highest /\ Sacked(r.win.segs) = Sacked(w.segs)
    BY <1>1, <1>2, Filled
<1>5. SendRepeated \in 0 .. SendRepeated
    BY Sizes
<1>6. IInv'
    BY <1>1, <1>3, <1>4, <1>5 DEF IInv
<1> QED
    BY <1>3, <1>4, <1>6

\* What prvTCPPrepareSend sends, r being the result of ulTCPWindowTxGet.
LEMMA SendStep ==
    ASSUME IInv, NEW expired \in BOOLEAN, prvTCPPrepareSend(expired),
           NEW r, r = ulTCPWindowTxGet(w, ulWindowSize, expired)
    PROVE  /\ IInv'
           /\ ip > 0 /\ wire' = wire \cup {OnWire(seg) : seg \in r.seg}
           /\ shut' = shut \/ (shut' = "fin" /\ w'.segs = {})
           /\ w'.highest = r.win.highest /\ Sacked(w'.segs) = Sacked(w.segs)
           /\ w'.segs = {} <=> w.segs = {}
           /\ \A s \in r.seg :
                 /\ s \in w.segs
                 /\ \/ s.outstanding /\ r.win.highest = w.highest
                    \/ /\ r.win.highest = SeqAdd(s.seq, s.len)
                       /\ s = SegOf(w, Head(w.txq)) /\ prvTCPWindowTxHasSpace(w, ulWindowSize)
           /\ r.seg = NULL => r.win = w
           /\ UNCHANGED <<ulWindowSize, head, txStream, othersSegs, peer>>
<1> DEFINE fin == shut = "asked" /\ xTCPWindowTxDone(r.win)
<1>1. InStep(w, tail, mid, uxTail, uxMid, head, othersSegs) /\ shut \in {"no", "asked", "fin"}
      /\ ip \in 0 .. SendRepeated
    BY DEF IInv
<1>2. /\ ip > 0
      /\ wire' = wire \cup {OnWire(seg) : seg \in r.seg}
      /\ w' = IF fin THEN [r.win EXCEPT !.finSeq = r.win.cur] ELSE r.win
      /\ shut' = IF fin THEN "fin" ELSE shut
      /\ ip' = IF r.seg = NULL THEN 0 ELSE ip - 1
      /\ UNCHANGED <<ulWindowSize, head, txStream, othersSegs, peer>>
    BY Zenon DEF prvTCPPrepareSend
<1>3. Fits(tail, mid, uxTail) /\ Good(w, tail, mid, uxTail)
    BY <1>1, InStepFacts
<1>4. /\ Good(r.win, tail, mid, uxTail)
      /\ Cardinality(r.win.segs) = Cardinality(w.segs)
      /\ Sacked(r.win.segs) = Sacked(w.segs)
      /\ r.seg = NULL => r.win = w
      /\ \A s \in r.seg :
            /\ s \in w.segs
            /\ \/ s.outstanding /\ r.win.highest = w.highest
               \/ /\ r.win.highest = SeqAdd(s.seq, s.len)
                  /\ s = SegOf(w, Head(w.txq)) /\ prvTCPWindowTxHasSpace(w, ulWindowSize)
    BY <1>3, Taken
<1>5. /\ Good(w', tail, mid, uxTail) /\ w'.segs = r.win.segs /\ w'.highest = r.win.highest
    <2>1. CASE fin
        <3>1. w' = [r.win EXCEPT !.finSeq = r.win.cur]
            BY <1>2, <2>1
        <3> QED
            BY <1>3, <1>4, <3>1, FinNoted
    <2>2. CASE ~fin
        <3>1. w' = r.win
            BY <1>2, <2>2
        <3> QED
            BY <1>4, <3>1
    <2> QED
        BY <2>1, <2>2
<1>6. ip' \in 0 .. SendRepeated
    BY <1>1, <1>2, Sizes
<1>7. shut' = shut \/ (shut' = "fin" /\ w'.segs = {})
    BY <1>2, <1>5 DEF xTCPWindowTxDone
<1>8. InStep(w', tail, mid, uxTail, uxMid, head, othersSegs)
    BY <1>1, <1>4, <1>5 DEF InStep
<1>9. IInv'
    BY <1>1, <1>2, <1>6, <1>7, <1>8 DEF IInv, txStream
<1>10. w'.segs = {} <=> w.segs = {}
    <2>1. IsFiniteSet(w.segs) /\ IsFiniteSet(r.win.segs)
        BY <1>3, <1>4 DEF Good, Segments
    <2>2. /\ Cardinality(w.segs) = 0 <=> w.segs = {}
          /\ Cardinality(r.win.segs) = 0 <=> r.win.segs = {}
        BY <2>1, FS_EmptySet
    <2> QED
        BY <1>4, <1>5, <2>2
<1> QED
    BY <1>2, <1>4, <1>5, <1>7, <1>9, <1>10

\* What an acknowledgement does that says no more than that B was received.
LEMMA AckStep ==
    ASSUME IInv, NEW m \in acks, RecvAck(m), NEW B \in SUBSET Nat, B = Nat \/ Says(m, B)
    PROVE  /\ IInv' /\ ip = 0 /\ shut # "fin"
           /\ tail' \in tail .. mid
           /\ (tail .. tail' - 1) \cup Sacked(w'.segs) \subseteq Sacked(w.segs) \cup B
           /\ w'.highest = w.highest
           /\ othersSegs = 0 /\ SegCount > 0 => mid' = head \/ w'.segs # {}
           /\ ulWindowSize' = m.win /\ acks' = acks \ {m}
           /\ UNCHANGED <<head, othersSegs, shut, wire, rcvd, peerRead>>
<1> DEFINE c == Confirmed(m)
           r == prvTCPAddTxData(c.win)
<1>1. InStep(w, tail, mid, uxTail, uxMid, head, othersSegs) /\ shut \in {"no", "asked", "fin"}
    BY DEF IInv
<1>2. r = lTCPWindowTxAdd(c.win, head - mid, uxMid,
                          SegCount - Cardinality(c.win.segs) - othersSegs)
    BY DEF prvTCPAddTxData, FreeSegments
<1>3. /\ ip = 0 /\ shut # "fin"
      /\ w' = r.win /\ ulWindowSize' = m.win
      /\ tail' = tail + c.bytes /\ uxTail' = Wrap(uxTail + c.bytes)
      /\ mid' = mid + r.done /\ uxMid' = Wrap(uxMid + r.done)
      /\ ip' \in {0, 1} /\ acks' = acks \ {m}
      /\ UNCHANGED <<head, othersSegs, shut, wire, rcvd, peerRead>>
    <2> HIDE DEF c, r
    <2> QED
        BY Zenon DEF RecvAck, vStreamBufferMoveMid, c, r
<1>4. /\ Fits(tail, mid, uxTail) /\ Good(w, tail, mid, uxTail) /\ Fits(tail, head, uxTail)
      /\ tail \in Nat /\ mid \in Nat /\ head \in Nat /\ tail <= mid /\ mid <= head
      /\ head <= Total /\ head - tail <= LENGTH - 1
      /\ uxTail \in 0 .. LENGTH - 1 /\ othersSegs \in Nat /\ Cardinality(w.segs) \in Nat
    BY <1>1, InStepFacts
<1>5. Confirms(w, c, tail, mid, uxTail, B)
    BY <1>4, Confirming
<1> HIDE DEF c, r
<1>6. PICK e \in tail .. mid :
        /\ Good(c.win, e, mid, Wrap(uxTail + (e - tail))) /\ c.bytes = e - tail
        /\ c.win.highest = w.highest
        /\ Cardinality(c.win.segs) <= Cardinality(w.segs)
        /\ (tail .. e - 1) \cup Sacked(c.win.segs) \subseteq Sacked(w.segs) \cup B
    BY <1>5 DEF Confirms
<1> DEFINE i == Wrap(uxTail + (e - tail))
<1>7. Fits(e, mid, i)
    BY <1>4, SameSpot
<1>8. InStep(c.win, e, mid, i, uxMid, head, othersSegs)
    <2> DEFINE n == e - tail
               k == mid - e
    <2>1. n \in 0 .. LENGTH - 1 /\ k \in 0 .. LENGTH - 1 /\ n + k <= LENGTH - 1
          /\ n + k = mid - tail /\ e \in Nat /\ LENGTH \in Nat
        BY <1>4, Sizes
    <2> HIDE DEF n, k
    <2>2. Wrap(Wrap(uxTail + n) + k) = Wrap(uxTail + (n + k))
        BY <1>4, <2>1, Wrapping
    <2>3. uxMid = Wrap(i + (mid - e))
        BY <1>1, <2>1, <2>2 DEF InStep, n, k
    <2>4. Fits(e, head, i)
        <3>1. e \in tail .. head
            BY <1>4
        <3>2. Fits(e, head, Wrap(uxTail + (e - tail)))
            BY <1>4, <3>1, SameSpot
        <3> QED
            BY <3>2
    <2>5. othersSegs + Cardinality(c.win.segs) <= SegCount
        <3>1. IsFiniteSet(c.win.segs)
            BY <1>6 DEF Good, Segments
        <3>2. Cardinality(c.win.segs) \in Nat
            BY <3>1, FS_CardinalityType
        <3>3. othersSegs + Cardinality(w.segs) <= SegCount /\ SegCount \in Nat
            BY <1>1, Sizes DEF InStep
        <3> QED
            BY <1>4, <1>6, <3>2, <3>3
    <2> HIDE DEF i
    <2> QED
        BY <1>1, <1>6, <1>7, <2>3, <2>4, <2>5 DEF InStep, i
<1> HIDE DEF i
<1>9. /\ InStep(r.win, e, mid + r.done, i, Wrap(uxMid + r.done), head, othersSegs)
      /\ othersSegs = 0 /\ SegCount > 0 => head = mid + r.done \/ r.win.segs # {}
      /\ r.win.highest = c.win.highest /\ Sacked(r.win.segs) = Sacked(c.win.segs)
    BY <1>2, <1>8, Filled
<1>10. tail' = e /\ uxTail' = i
    BY <1>3, <1>4, <1>6 DEF i
<1>11. ip' \in 0 .. SendRepeated
    BY <1>3, TxAssumption
<1>12. IInv'
    BY <1>1, <1>3, <1>9, <1>10, <1>11 DEF IInv
<1> QED
    BY <1>3, <1>6, <1>9, <1>10, <1>12

\* The user's steps, the other sockets' and those of the peer.
LEMMA SendKeeps == ASSUME IInv, NEW n \in 1 .. Total, FreeRTOS_send(n) PROVE IInv'
<1>1. /\ InStep(w, tail, mid, uxTail, uxMid, head, othersSegs)
      /\ shut \in {"no", "asked", "fin"} /\ ip \in 0 .. SendRepeated
    BY DEF IInv
<1>2. /\ head + n <= Total /\ n <= LENGTH - 1 - (head - tail) /\ head' = head + n
      /\ UNCHANGED <<w, mid, tail, uxMid, uxTail, othersSegs, shut, ip>>
    BY DEF FreeRTOS_send, txStream
<1>3. /\ tail \in Nat /\ mid \in Nat /\ head \in Nat /\ tail <= mid /\ mid <= head
      /\ Total \in Nat /\ LENGTH \in Nat
    BY <1>1, InStepFacts, Sizes
<1>4. head + n \in mid .. Total /\ Fits(tail, head + n, uxTail)
    BY <1>1, <1>2, <1>3 DEF InStep, Fits
<1> QED
    BY <1>1, <1>2, <1>4 DEF IInv, InStep

LEMMA QuietKeeps ==
    ASSUME IInv, shut' \in {"no", "asked", "fin"},
           UNCHANGED <<w, head, txStream, othersSegs, ip>>
    PROVE  IInv'
BY DEF IInv, txStream

LEMMA OthersKeep == ASSUME IInv, OtherSockets PROVE IInv'
<1>1. /\ InStep(w, tail, mid, uxTail, uxMid, head, othersSegs)
      /\ shut \in {"no", "asked", "fin"} /\ ip \in 0 .. SendRepeated
    BY DEF IInv
<1>2. othersSegs \in Nat /\ Cardinality(w.segs) \in Nat /\ SegCount \in Nat
    BY <1>1, InStepFacts, Sizes
<1>3. /\ \/ SegCount - Cardinality(w.segs) - othersSegs > 0 /\ othersSegs' = othersSegs + 1
         \/ othersSegs > 0 /\ othersSegs' = othersSegs - 1
      /\ UNCHANGED <<w, mid, tail, uxMid, uxTail, head, shut, ip>>
    BY DEF OtherSockets, FreeSegments, txStream
<1>4. othersSegs' \in Nat /\ othersSegs' + Cardinality(w.segs) <= SegCount
    BY <1>1, <1>2, <1>3 DEF InStep
<1> QED
    BY <1>1, <1>3, <1>4 DEF IInv, InStep

\* The steps that leave the sender alone.
PeerStep ==
    \/ \E seg \in wire, answer \in BOOLEAN : PeerReceive(seg, answer)
    \/ \E answer \in BOOLEAN : PeerReads(answer)
    \/ PeerProbed

LEMMA PeerQuiet ==
    ASSUME PeerStep
    PROVE  UNCHANGED <<w, ulWindowSize, head, txStream, othersSegs, shut, ip, wire>>
BY DEF PeerStep, PeerReceive, PeerReads, PeerProbed

LEMMA StepKeeps == ASSUME IInv, [Next]_vars PROVE IInv'
<1>1. CASE \E n \in 1 .. Total : FreeRTOS_send(n)
    BY <1>1, SendKeeps
<1>2. CASE FreeRTOS_shutdown
    <2>1. shut' = "asked" /\ UNCHANGED <<w, head, txStream, othersSegs, ip>>
        BY <1>2 DEF FreeRTOS_shutdown
    <2> QED
        BY <2>1, QuietKeeps
<1>3. CASE xTCPSocketCheck
    BY <1>3, CheckStep
<1>4. CASE \E expired \in BOOLEAN : prvTCPPrepareSend(expired)
    BY <1>4, SendStep
<1>5. CASE \E m \in acks : RecvAck(m)
    BY <1>5, AckStep
<1>6. CASE OtherSockets
    BY <1>6, OthersKeep
<1>7. CASE PeerStep
    <2>1. shut' \in {"no", "asked", "fin"} /\ UNCHANGED <<w, head, txStream, othersSegs, ip>>
        BY <1>7, PeerQuiet DEF IInv
    <2> QED
        BY <2>1, QuietKeeps
<1>8. CASE UNCHANGED vars
    <2>1. shut' \in {"no", "asked", "fin"} /\ UNCHANGED <<w, head, txStream, othersSegs, ip>>
        BY <1>8 DEF vars, IInv
    <2> QED
        BY <2>1, QuietKeeps
<1> QED
    BY <1>1, <1>2, <1>3, <1>4, <1>5, <1>6, <1>7, <1>8 DEF Next, PeerStep

LEMMA StartsInStep == Init => IInv
<1> SUFFICES ASSUME Init PROVE IInv
    OBVIOUS
<1>1. /\ w = [cur |-> Isn, highest |-> Isn, next |-> Isn, segs |-> {},
              txq |-> << >>, waitq |-> << >>, prioq |-> << >>, headSeg |-> NULL,
              txWindow |-> TxWindow, finSeq |-> 0]
      /\ head = 0 /\ mid = 0 /\ tail = 0 /\ uxMid = 0 /\ uxTail = 0
      /\ othersSegs = 0 /\ shut = "no" /\ ip = 0
    BY DEF Init
<1>2. Isn \in SeqNr /\ At(0) = Isn /\ 0 \in SeqNr
    BY TxAssumption, SeqHalfAssumption DEF At, SeqAdd, SeqNr
<1>3. w \in WinType
    BY <1>1, <1>2, Sizes DEF WinType, NULL
<1>4. Fits(0, 0, 0) /\ Wrap(0 + (0 - 0)) = 0 /\ 0 \in 0 .. Total
    BY Sizes DEF Fits, Wrap
<1>5. IsFiniteSet({}) /\ Cardinality({}) = 0
    BY FS_EmptySet
<1>6. Segments({}, 0, 0, 0)
    BY <1>5 DEF Segments, Tiled
<1>7. Lined(<< >>, << >>, << >>, Numbers(Unsent({})), Numbers(Open({}))) /\ Sorted(<< >>)
    <2>1. << >> \in Seq(SeqNr) /\ Len(<< >>) = 0
        OBVIOUS
    <2>2. ToSet(<< >>) = {}
        BY DEF ToSet
    <2>3. Distinct(<< >>) /\ Sorted(<< >>)
        BY <2>1 DEF Distinct, Sorted
    <2>4. Numbers(Unsent({})) = {} /\ Numbers(Open({})) = {}
        BY DEF Numbers, Unsent, Open
    <2> QED
        BY <2>1, <2>2, <2>3, <2>4 DEF Lined
<1>8. Good(w, 0, 0, 0)
    <2>1. 0 \in 0 .. 0 /\ SentUpTo({}, 0)
        BY DEF SentUpTo
    <2>2. HeadIsLast(w, 0)
        BY <1>1 DEF HeadIsLast
    <2> QED
        BY <1>1, <1>2, <1>3, <1>6, <1>7, <2>1, <2>2 DEF Good
<1>9. 0 \in 0 .. SendRepeated /\ SegCount \in Nat
    BY Sizes
<1> QED
    BY <1>1, <1>4, <1>5, <1>8, <1>9 DEF IInv, InStep

\* The window, its queues and txStream stay in step, whatever the peer
\* acknowledges and in whatever order.
THEOREM TxInvariance == Spec => []IInv
<1>1. IInv /\ [Next]_vars => IInv'
    BY StepKeeps
<1> QED
    BY StartsInStep, <1>1, PTL DEF Spec

\* The window, the stream counters and the descriptor pool keep their types: no
\* index leaves txStream and no more descriptors are in use than the pool has.
THEOREM TxTyped == Spec => []TypeOK
<1>1. ASSUME IInv PROVE TypeOK
    <2>1. /\ InStep(w, tail, mid, uxTail, uxMid, head, othersSegs)
          /\ shut \in {"no", "asked", "fin"} /\ ip \in 0 .. SendRepeated
        BY <1>1 DEF IInv
    <2>2. /\ Good(w, tail, mid, uxTail)
          /\ tail \in Nat /\ mid \in Nat /\ head \in Nat /\ tail <= mid /\ mid <= head
          /\ head <= Total /\ othersSegs \in Nat /\ Cardinality(w.segs) \in Nat
          /\ uxTail \in 0 .. LENGTH - 1 /\ uxMid \in 0 .. LENGTH - 1
        BY <2>1, InStepFacts
    <2>3. othersSegs + Cardinality(w.segs) \in 0 .. SegCount
        BY <2>1, <2>2, Sizes DEF InStep
    <2>4. /\ w.cur \in SeqNr /\ w.highest \in SeqNr /\ w.next \in SeqNr /\ w.finSeq \in SeqNr
          /\ w.segs \subseteq SegRecord
        BY <2>2, WindowRecord DEF Good
    <2>5. tail \in 0 .. mid /\ mid \in 0 .. head /\ head \in 0 .. Total
        BY <2>2, Sizes
    <2> QED
        BY <2>1, <2>2, <2>3, <2>4, <2>5 DEF TypeOK
<1> QED
    BY <1>1, TxInvariance, PTL

\* Every byte between uxTail and uxMid is in exactly one segment of the window,
\* and lStreamPos of each segment points at its own bytes in txStream.
THEOREM StreamInStep == Spec => []StreamMatchesWindow
<1>1. ASSUME IInv PROVE StreamMatchesWindow
    <2>1. /\ Good(w, tail, mid, uxTail) /\ uxMid = Wrap(uxTail + (mid - tail))
        BY <1>1 DEF IInv, InStep
    <2>2. /\ w.cur = At(tail) /\ w.next = At(mid)
          /\ \A s \in w.segs : Place(s, tail, mid, uxTail)
          /\ Tiled(w.segs, tail, mid)
        BY <2>1 DEF Good, Segments
    <2> QED
        BY <2>1, <2>2 DEF StreamMatchesWindow, Place, Tiled, At
<1> QED
    BY <1>1, TxInvariance, PTL

\* No segment is forgotten or queued twice: an unconfirmed one is in exactly one
\* queue, once, a confirmed one in none.
THEOREM QueuesDisciplined == Spec => []QueueDiscipline
<1>1. ASSUME IInv PROVE QueueDiscipline
    <2>1. Lined(w.txq, w.waitq, w.prioq, Numbers(Unsent(w.segs)), Numbers(Open(w.segs)))
        BY <1>1 DEF IInv, InStep, Good
    <2> QED
        BY <2>1 DEF QueueDiscipline, Lined, Numbers, Unsent, Open
<1> QED
    BY <1>1, TxInvariance, PTL

-----------------------------------------------------------------------------
(***************************************************************************)
(* The FIN.                                                                 *)
(***************************************************************************)
LEMMA EmptyWindow ==
    ASSUME NEW t, NEW m, NEW i, Fits(t, m, i), NEW win, Good(win, t, m, i), win.segs = {}
    PROVE  t = m
<1>1. t \in Nat /\ m \in Nat /\ t <= m
    BY Sizes DEF Fits
<1>2. \A b \in t .. m - 1 : FALSE
    BY DEF Good, Segments, Tiled
<1>3. t \notin t .. m - 1
    BY <1>2
<1> QED
    BY <1>1, <1>3

\* While the IP task handles an event, either all that the user has written is in
\* the window or something is left in it.
FinInv ==
    /\ othersSegs = 0
    /\ ip > 0 => mid = head \/ w.segs # {}
    /\ shut = "fin" => tail = head

LEMMA FinSteps ==
    ASSUME ~Preempt, ~OthersUse, SegCount > 0, IInv, FinInv, [Next]_vars
    PROVE  FinInv'
<1>0. ip \in Nat
    BY Sizes DEF IInv
<1>1. CASE \E n \in 1 .. Total : FreeRTOS_send(n)
    BY <1>0, <1>1 DEF FreeRTOS_send, UserRuns, FinInv, txStream
<1>2. CASE FreeRTOS_shutdown
    BY <1>2 DEF FreeRTOS_shutdown, FinInv, txStream
<1>3. CASE xTCPSocketCheck
    <2>1. shut # "fin" /\ shut' = shut /\ head' = head /\ othersSegs' = othersSegs
        BY <1>3, Zenon DEF xTCPSocketCheck
    <2>2. mid' = head \/ w'.segs # {}
        BY <1>3, CheckStep DEF FinInv
    <2> QED
        BY <2>1, <2>2 DEF FinInv
<1>4. CASE \E expired \in BOOLEAN : prvTCPPrepareSend(expired)
    <2>1. PICK expired \in BOOLEAN : prvTCPPrepareSend(expired)
        BY <1>4
    <2>2. /\ IInv' /\ ip > 0
          /\ shut' = shut \/ (shut' = "fin" /\ w'.segs = {})
          /\ w'.segs = {} <=> w.segs = {}
          /\ UNCHANGED <<ulWindowSize, head, txStream, othersSegs, peer>>
        BY <2>1, SendStep
    <2>3. mid' = head' \/ w'.segs # {}
        BY <2>2 DEF FinInv, txStream
    <2>4. ASSUME shut' = "fin" PROVE tail' = head'
        <3>1. CASE shut = "fin"
            BY <2>2, <3>1 DEF FinInv, txStream
        <3>2. CASE shut # "fin"
            <4>1. w.segs = {} /\ mid = head
                BY <2>2, <2>4, <3>2 DEF FinInv
            <4>2. tail = mid
                BY <4>1, EmptyWindow DEF IInv, InStep
            <4> QED
                BY <2>2, <4>1, <4>2 DEF txStream
        <3> QED
            BY <3>1, <3>2
    <2> QED
        BY <2>2, <2>3, <2>4 DEF FinInv
<1>5. CASE \E m \in acks : RecvAck(m)
    <2>1. PICK m \in acks : RecvAck(m)
        BY <1>5
    <2>2. /\ shut # "fin"
          /\ mid' = head \/ w'.segs # {}
          /\ UNCHANGED <<head, othersSegs, shut, wire, rcvd, peerRead>>
        BY <2>1, AckStep DEF FinInv
    <2> QED
        BY <2>2 DEF FinInv
<1>6. CASE OtherSockets
    BY <1>6 DEF OtherSockets
<1>7. CASE PeerStep
    BY <1>7, PeerQuiet DEF FinInv, txStream
<1>8. CASE UNCHANGED vars
    BY <1>8 DEF vars, FinInv, txStream
<1> QED
    BY <1>1, <1>2, <1>3, <1>4, <1>5, <1>6, <1>7, <1>8 DEF Next, PeerStep

\* The FIN that FreeRTOS_shutdown asks for is sent after all data was confirmed,
\* when the user task does not preempt the IP task and no other socket takes the
\* descriptors that are left.
THEOREM FinIsAfterData ==
    ASSUME ~Preempt, ~OthersUse, SegCount > 0
    PROVE  Spec => []FinAfterQueuedData
<1>1. Init => FinInv
    BY DEF Init, FinInv
<1>2. IInv /\ FinInv /\ [Next]_vars => FinInv'
    BY FinSteps
<1>3. FinInv => FinAfterQueuedData
    BY DEF FinInv, FinAfterQueuedData
<1> QED
    BY <1>1, <1>2, <1>3, TxInvariance, PTL DEF Spec

-----------------------------------------------------------------------------
(***************************************************************************)
(* The peer's window.                                                       *)
(***************************************************************************)
\* The first segment of xTxQueue begins where the transmitted data ends.
LEMMA NextIsFirst ==
    ASSUME NEW t, NEW m, NEW i, Fits(t, m, i), NEW win, Good(win, t, m, i),
           NEW h \in t .. m, SentUpTo(win.segs, h), win.txq # << >>
    PROVE  LET s == SegOf(win, Head(win.txq)) IN s \in win.segs /\ Offset(s) = h
<1> DEFINE s == SegOf(win, Head(win.txq))
<1>1. /\ Segments(win.segs, t, m, i) /\ win.txq \in Seq(SeqNr) /\ Distinct(win.txq)
      /\ ToSet(win.txq) = Numbers(Unsent(win.segs)) /\ Sorted(win.txq)
    BY DEF Good, Lined
<1>2. Head(win.txq) \in ToSet(win.txq) /\ Head(win.txq) = win.txq[1]
      /\ Len(win.txq) \in Nat /\ 1 \in 1 .. Len(win.txq)
    <2>1. Head(win.txq) \in ToSet(win.txq)
        BY <1>1, TailList
    <2>2. Len(win.txq) \in Nat /\ Len(win.txq) # 0
        BY <1>1, EmptySeq
    <2> QED
        BY <1>1, <2>1, <2>2
<1>3. PICK v \in Unsent(win.segs) : v.seq = Head(win.txq)
    BY <1>1, <1>2 DEF Numbers
<1>4. v \in win.segs /\ ~v.outstanding
    BY <1>3 DEF Unsent
<1>5. s \in win.segs /\ s.seq = Head(win.txq)
    BY <1>3, <1>4 DEF SegOf
<1> HIDE DEF s
<1>6. s = v
    BY <1>1, <1>3, <1>4, <1>5, NoOverlap
<1>7. h <= Offset(s) /\ Offset(s) \in t .. m - 1 /\ t \in Nat /\ m \in Nat
    BY <1>1, <1>4, <1>6, OffsetRange DEF SentUpTo, Fits
<1>8. h \in t .. m - 1
    BY <1>7
<1>9. PICK u \in win.segs : Covers(u, h)
    BY <1>1, <1>8 DEF Segments, Tiled
<1>10. /\ Offset(u) \in t .. m - 1 /\ Offset(u) <= h /\ h < Offset(u) + u.len
       /\ Offset(u) + u.len \in t .. m
    BY <1>1, <1>9, OffsetRange DEF Covers
<1>11. ~u.outstanding /\ Offset(u) = h
    BY <1>7, <1>9, <1>10 DEF SentUpTo
<1>12. u.seq \in ToSet(win.txq)
    BY <1>1, <1>9, <1>11 DEF Numbers, Unsent
<1>13. PICK k \in 1 .. Len(win.txq) : win.txq[k] = u.seq
    BY <1>1, <1>12, ElementsOf
<1>14. 1 < k => Offset(s) < Offset(u)
    BY <1>1, <1>2, <1>5, <1>13 DEF Sorted, Offset
<1>15. k = 1
    BY <1>2, <1>7, <1>10, <1>11, <1>14
<1>16. s.seq = u.seq
    BY <1>2, <1>5, <1>13, <1>15
<1> QED
    BY <1>5, <1>11, <1>16 DEF Offset, s

\* What the peer says of the bytes R that it has received.
LEMMA FirstMissing ==
    ASSUME NEW R \in SUBSET (0 .. Total - 1)
    PROVE  LET c == Contiguous(R) IN c \in 0 .. Total /\ c \notin R /\ 0 .. c - 1 \subseteq R
<1> DEFINE T == {c \in Nat : c \notin R}
<1>1. Total \in T
    BY Sizes
<1>2. PICK x \in T : \A y \in T : x <= y
    <2>1. T \in SUBSET Nat /\ T # {}
        BY <1>1
    <2> QED
        BY <2>1, LeastNumber
<1>3. x \in 0 .. Total /\ x \notin R
    BY <1>1, <1>2, Sizes
<1>4. 0 .. x - 1 \subseteq R
    BY <1>2, <1>3
<1> QED
    BY <1>3, <1>4 DEF Contiguous

LEMMA BlockAround ==
    ASSUME NEW R \in SUBSET (0 .. Total - 1), NEW o \in R
    PROVE  BlockIn(Block(R, o)[1], Block(R, o)[2], R)
<1> DEFINE lo == CHOOSE a \in 0 .. o : a .. o \subseteq R /\ a - 1 \notin R
           hi == CHOOSE b \in o .. Total : o .. b \subseteq R /\ b + 1 \notin R
<1>0. o \in Nat /\ Total \in Nat /\ o < Total /\ o \in 0 .. Total - 1
    BY Sizes
<1>1. lo \in 0 .. o /\ lo .. o \subseteq R
    <2> DEFINE T == {a \in Nat : a <= o /\ a .. o \subseteq R}
    <2>1. o \in T /\ T \in SUBSET Nat
        BY <1>0
    <2>2. PICK x \in T : \A y \in T : x <= y
        <3> HIDE DEF T
        <3> QED
            BY <2>1, LeastNumber
    <2>3. x \in 0 .. o /\ x .. o \subseteq R
        BY <1>0, <2>2
    <2>4. x - 1 \notin R
        <3> SUFFICES ASSUME x - 1 \in R PROVE FALSE
            OBVIOUS
        <3>1. x - 1 \in Nat /\ x - 1 <= o
            BY <1>0, <2>3
        <3>2. (x - 1) .. o \subseteq R
            BY <1>0, <2>3, <3>1
        <3>3. x <= x - 1
            BY <2>2, <3>1, <3>2
        <3> QED
            BY <2>3, <3>3
    <2> QED
        BY <2>3, <2>4
<1>2. hi \in o .. Total /\ o .. hi \subseteq R
    <2> DEFINE T == {b \in Nat : o <= b /\ b + 1 \notin R}
    <2>1. Total - 1 \in T /\ T \in SUBSET Nat
        BY <1>0
    <2>2. PICK x \in T : \A y \in T : x <= y
        <3> HIDE DEF T
        <3> QED
            BY <2>1, LeastNumber
    <2>3. x \in o .. Total /\ x + 1 \notin R
        BY <1>0, <2>1, <2>2
    <2>4. ASSUME NEW y \in o .. x PROVE y \in R
        <3>1. CASE y = o
            BY <3>1
        <3>2. CASE y # o
            <4>1. y - 1 \in Nat /\ o <= y - 1 /\ ~(x <= y - 1) /\ y - 1 + 1 = y
                BY <1>0, <2>3, <3>2
            <4>2. y - 1 \notin T
                BY <2>2, <4>1
            <4> QED
                BY <4>1, <4>2
        <3> QED
            BY <3>1, <3>2
    <2> QED
        BY <2>3, <2>4
<1>3. Block(R, o)[1] = At(lo) /\ Block(R, o)[2] = At(hi + 1)
    BY DEF Block, At
<1> HIDE DEF lo, hi
<1>4. hi \in R
    BY <1>0, <1>2
<1>5. lo \in 0 .. Total /\ hi + 1 \in 0 .. Total
    BY <1>0, <1>1, <1>4
<1>6. lo .. (hi + 1) - 1 \subseteq R
    BY <1>0, <1>1, <1>2, <1>4
<1> QED
    BY <1>3, <1>5, <1>6 DEF BlockIn

LEMMA AnswerSays ==
    ASSUME NEW R \in SUBSET (0 .. Total - 1), NEW read \in Nat, NEW sack,
           sack = NoSack \/ \E o \in R : sack = Block(R, o),
           NEW m, m = Ack(R, read, sack)
    PROVE  \E c \in 0 .. Total : /\ Says(m, R) /\ c \notin R /\ 0 .. c - 1 \subseteq R
                                 /\ m.win \in Int /\ c + m.win = read + PeerCapacity
<1>1. PICK c \in 0 .. Total : c = Contiguous(R) /\ c \notin R /\ 0 .. c - 1 \subseteq R
    BY FirstMissing
<1>2. m.ack = At(c) /\ m.win = PeerCapacity - (c - read) /\ m.sack = sack
    BY <1>1 DEF Ack, At
<1>3. m.sack = NoSack \/ BlockIn(m.sack[1], m.sack[2], R)
    BY <1>2, BlockAround
<1>4. m.win \in Int /\ c + m.win = read + PeerCapacity
    BY <1>2, Sizes
<1> QED
    BY <1>1, <1>2, <1>3, <1>4 DEF Says

\* An acknowledgement under way says no more than what the peer has received, and
\* its window, counted from the first byte c that was missing when it was sent,
\* ends where the peer's window ends now, or before.
Told(m, c, B) ==
    /\ Says(m, B) /\ c \notin B
    /\ tail <= c /\ c \notin Sacked(w.segs)
    /\ m.win \in Int /\ c + m.win <= Edge

Arrives(s) ==
    /\ SeqSub(s.seq, Isn) \in Nat /\ s.len \in Nat /\ s.len > 0
    /\ SeqSub(s.seq, Isn) + s.len <= Total /\ SeqSub(s.seq, Isn) + s.len <= Edge

WinInv ==
    /\ rcvd \subseteq 0 .. Total - 1 /\ peerRead \in Nat
    /\ \A s \in wire : Arrives(s)
    /\ ulWindowSize \in Int /\ tail + ulWindowSize <= Edge
    /\ SeqSub(w.highest, Isn) <= Edge
    /\ 0 .. tail - 1 \subseteq rcvd /\ Sacked(w.segs) \subseteq rcvd
    /\ \A m, n \in acks : m = n
    /\ \A m \in acks : \E c \in 0 .. Total, B \in SUBSET rcvd : Told(m, c, B)

\* The steps that leave what the peer has said alone.
LEMMA WinQuiet ==
    ASSUME WinInv, UNCHANGED <<ulWindowSize, tail, wire, peer>>,
           w'.highest = w.highest, Sacked(w'.segs) = Sacked(w.segs)
    PROVE  WinInv'
<1>1. Edge' = Edge /\ UNCHANGED <<rcvd, peerRead, acks>>
    BY DEF Edge, peer
<1>2. \A m, c, B : Told(m, c, B)' <=> Told(m, c, B)
    BY <1>1 DEF Told, Says
<1>3. \A s : Arrives(s)' <=> Arrives(s)
    BY <1>1 DEF Arrives
<1> QED
    BY <1>1, <1>2, <1>3 DEF WinInv

\* A segment is read from txStream as long as it is.
LEMMA WholeSegment ==
    ASSUME IInv, NEW s \in w.segs
    PROVE  /\ OnWire(s).seq = s.seq /\ OnWire(s).len = s.len /\ OnWire(s).pos = Offset(s)
           /\ Offset(s) \in Nat /\ s.len \in Nat /\ s.len > 0 /\ Offset(s) + s.len <= Total
<1>1. /\ Fits(tail, mid, uxTail) /\ Good(w, tail, mid, uxTail)
      /\ tail \in Nat /\ mid \in Nat /\ head \in Nat /\ tail <= mid /\ mid <= head
      /\ head <= Total /\ head - tail <= LENGTH - 1 /\ uxTail \in 0 .. LENGTH - 1
    BY InStepFacts DEF IInv
<1>2. Segments(w.segs, tail, mid, uxTail)
    BY <1>1 DEF Good
<1>3. s \in SegRecord /\ Offset(s) \in tail .. mid - 1 /\ Offset(s) + s.len \in tail .. mid
    BY <1>1, <1>2, OffsetRange
<1>4. s.len \in Nat /\ s.len > 0
    BY <1>3, SegmentTypes
<1>5. s.pos = Wrap(uxTail + (Offset(s) - tail))
    BY <1>2 DEF Segments, Place
<1> DEFINE n == Offset(s) - tail
<1>6. n \in 0 .. LENGTH - 1 /\ 0 \in 0 .. LENGTH - 1 /\ n + 0 <= LENGTH - 1 /\ LENGTH \in Nat
      /\ n \in Nat /\ tail + n = Offset(s) /\ s.len <= head - tail - n
    BY <1>1, <1>3, <1>4, Sizes
<1>7. s.pos = Wrap(uxTail + n)
    BY <1>5
<1> HIDE DEF n
<1>8. Wrap(LENGTH + s.pos - uxTail) = n
    BY <1>1, <1>6, <1>7 DEF Wrap
<1>9. Min2(s.len, head - tail - n) = s.len
    BY <1>1, <1>4, <1>6 DEF Min2
<1>10. OnWire(s) = [seq |-> s.seq, pos |-> tail + n, len |-> Min2(s.len, head - tail - n)]
    BY <1>8 DEF OnWire
<1> QED
    BY <1>1, <1>3, <1>4, <1>6, <1>9, <1>10, Sizes

\* New data ends within the window that the peer has offered.
LEMMA NewDataFits ==
    ASSUME Isn + Total < 2 * SeqHalf, IInv, WinInv, w.txq # << >>,
           NEW s, s = SegOf(w, Head(w.txq)), prvTCPWindowTxHasSpace(w, ulWindowSize)
    PROVE  Offset(s) + s.len <= Edge
<1>1. /\ Fits(tail, mid, uxTail) /\ Good(w, tail, mid, uxTail)
      /\ tail \in Nat /\ mid \in Nat /\ tail <= mid /\ mid <= Total
    <2>1. /\ Fits(tail, mid, uxTail) /\ Good(w, tail, mid, uxTail)
          /\ tail \in Nat /\ mid \in Nat /\ tail <= mid
        BY InStepFacts DEF IInv
    <2> QED
        BY <2>1 DEF Fits
<1>2. w.cur = At(tail)
    BY <1>1 DEF Good
<1>3. PICK h \in tail .. mid : w.highest = At(h) /\ SentUpTo(w.segs, h)
    BY <1>1 DEF Good
<1>4. s \in w.segs /\ Offset(s) = h
    BY <1>1, <1>3, NextIsFirst
<1>5. s.len \in Nat /\ s.len > 0
    BY <1>4, WholeSegment
<1>6. At(tail) = Isn + tail /\ At(h) = Isn + h /\ Isn \in Nat
    <2>1. Isn \in Nat /\ SeqHalf \in Nat /\ Total \in Nat
        BY Sizes, TxAssumption, SeqHalfAssumption DEF SeqNr
    <2>2. Isn + tail < 2 * SeqHalf /\ Isn + h < 2 * SeqHalf /\ h \in Nat
        BY <1>1, <1>3, <2>1
    <2> QED
        BY <1>1, <2>1, <2>2 DEF At, SeqAdd
<1>7. Outstanding(w) = h - tail
    BY <1>1, <1>2, <1>3, <1>6 DEF Outstanding
<1>8. ulWindowSize - Min2(ulWindowSize, h - tail) >= s.len
    BY <1>7 DEF prvTCPWindowTxHasSpace
<1>9. ulWindowSize \in Int /\ tail + ulWindowSize <= Edge /\ Edge \in Nat
    BY Sizes DEF WinInv, Edge
<1>10. h - tail <= ulWindowSize /\ s.len <= ulWindowSize - (h - tail)
    BY <1>1, <1>5, <1>8, <1>9 DEF Min2
<1> QED
    BY <1>1, <1>4, <1>5, <1>9, <1>10

LEMMA WinSend ==
    ASSUME Isn + Total < 2 * SeqHalf, IInv, WinInv, NEW expired \in BOOLEAN,
           prvTCPPrepareSend(expired)
    PROVE  WinInv'
<1> DEFINE r == ulTCPWindowTxGet(w, ulWindowSize, expired)
<1> HIDE DEF r
<1>1. /\ wire' = wire \cup {OnWire(seg) : seg \in r.seg}
      /\ w'.highest = r.win.highest /\ Sacked(w'.segs) = Sacked(w.segs)
      /\ \A s \in r.seg :
            /\ s \in w.segs
            /\ \/ s.outstanding /\ r.win.highest = w.highest
               \/ /\ r.win.highest = SeqAdd(s.seq, s.len)
                  /\ s = SegOf(w, Head(w.txq)) /\ prvTCPWindowTxHasSpace(w, ulWindowSize)
      /\ r.seg = NULL => r.win = w
      /\ UNCHANGED <<ulWindowSize, head, txStream, othersSegs, peer>>
    BY SendStep DEF r
<1>2. Edge' = Edge /\ UNCHANGED <<rcvd, peerRead, acks, tail>> /\ Edge \in Nat
    BY <1>1, Sizes DEF Edge, peer, txStream, WinInv
<1>3. /\ Fits(tail, mid, uxTail) /\ Segments(w.segs, tail, mid, uxTail)
      /\ \E h \in tail .. mid : w.highest = At(h) /\ SentUpTo(w.segs, h)
      /\ tail \in Nat /\ mid \in Nat /\ mid <= Total
    <2>1. /\ Fits(tail, mid, uxTail) /\ Good(w, tail, mid, uxTail)
          /\ tail \in Nat /\ mid \in Nat
        BY InStepFacts DEF IInv
    <2> QED
        BY <2>1 DEF Fits, Good
<1>4. PICK h \in tail .. mid : w.highest = At(h) /\ SentUpTo(w.segs, h)
    BY <1>3
<1>5. SeqSub(w.highest, Isn) = h /\ h \in Nat /\ h <= Edge
    <2>1. h \in 0 .. Total + 1
        BY <1>3, Sizes
    <2> QED
        BY <1>4, <2>1, Positions DEF WinInv
<1>6. ASSUME NEW s \in r.seg
      PROVE  /\ s \in w.segs /\ Offset(s) + s.len <= Edge
             /\ SeqSub(r.win.highest, Isn) <= Edge
    <2>1. s \in w.segs
        BY <1>1
    <2>2. CASE s.outstanding /\ r.win.highest = w.highest
        <3>1. Offset(s) + s.len <= h
            BY <1>4, <2>1, <2>2 DEF SentUpTo
        <3>2. Offset(s) \in Nat /\ s.len \in Nat
            BY <2>1, WholeSegment
        <3> QED
            BY <1>2, <1>5, <2>1, <2>2, <3>1, <3>2
    <2>3. CASE /\ r.win.highest = SeqAdd(s.seq, s.len)
               /\ s = SegOf(w, Head(w.txq)) /\ prvTCPWindowTxHasSpace(w, ulWindowSize)
        <3>1. w.txq # << >>
            BY <2>3 DEF prvTCPWindowTxHasSpace
        <3>2. Offset(s) + s.len <= Edge
            BY <2>3, <3>1, NewDataFits
        <3>3. SeqAdd(s.seq, s.len) = At(Offset(s) + s.len) /\ Offset(s) + s.len \in 0 .. Total + 1
            BY <1>3, <2>1, OffsetRange
        <3>4. SeqSub(r.win.highest, Isn) = Offset(s) + s.len
            BY <2>3, <3>3, Positions
        <3> QED
            BY <2>1, <3>2, <3>4
    <2> QED
        BY <1>1, <2>1, <2>2, <2>3
<1>7. SeqSub(w'.highest, Isn) <= Edge
    <2>1. CASE r.seg = NULL
        BY <1>1, <1>5, <2>1
    <2>2. CASE r.seg # NULL
        BY <1>1, <1>6, <2>2 DEF NULL
    <2> QED
        BY <2>1, <2>2
<1>8. ASSUME NEW x \in wire' PROVE Arrives(x)
    <2>1. CASE x \in wire
        BY <2>1 DEF WinInv
    <2>2. ASSUME NEW s \in r.seg, x = OnWire(s) PROVE Arrives(x)
        <3>1. s \in w.segs /\ Offset(s) + s.len <= Edge
            BY <1>6
        <3>2. /\ x.seq = s.seq /\ x.len = s.len
              /\ Offset(s) \in Nat /\ s.len \in Nat /\ s.len > 0 /\ Offset(s) + s.len <= Total
            BY <2>2, <3>1, WholeSegment
        <3> QED
            BY <3>1, <3>2 DEF Arrives, Offset
    <2> QED
        BY <1>1, <2>1, <2>2
<1>9. \A s : Arrives(s)' <=> Arrives(s)
    BY <1>2 DEF Arrives
<1>10. \A m, c, B : Told(m, c, B)' <=> Told(m, c, B)
    BY <1>1, <1>2 DEF Told, Says
<1> QED
    BY <1>1, <1>2, <1>7, <1>8, <1>9, <1>10 DEF WinInv

LEMMA WinAck ==
    ASSUME IInv, WinInv, NEW m \in acks, RecvAck(m)
    PROVE  WinInv'
<1>1. PICK c \in 0 .. Total, B \in SUBSET rcvd : Told(m, c, B)
    BY DEF WinInv
<1>2. Says(m, B) /\ B \in SUBSET Nat /\ c \in Nat
    BY <1>1, Sizes DEF Told, WinInv
<1>3. /\ tail' \in tail .. mid
      /\ (tail .. tail' - 1) \cup Sacked(w'.segs) \subseteq Sacked(w.segs) \cup B
      /\ w'.highest = w.highest /\ ulWindowSize' = m.win /\ acks' = acks \ {m}
      /\ UNCHANGED <<wire, rcvd, peerRead>>
    BY <1>2, AckStep
<1>4. PICK e \in tail .. mid : e = tail'
    BY <1>3
<1>5. Edge' = Edge /\ Edge \in Nat
    BY <1>3, Sizes DEF Edge, WinInv
<1>6. tail \in Nat /\ e \in Nat /\ e <= c
    <2>1. tail <= c /\ c \notin B /\ c \notin Sacked(w.segs)
        BY <1>1 DEF Told
    <2>2. c \notin tail .. e - 1
        BY <1>3, <1>4, <2>1
    <2>3. tail \in Nat /\ mid \in Nat
        BY InStepFacts DEF IInv
    <2>4. e \in Nat
        BY <2>3
    <2> QED
        BY <1>2, <2>1, <2>2, <2>3, <2>4
<1>7. ulWindowSize' \in Int /\ tail' + ulWindowSize' <= Edge
    BY <1>1, <1>2, <1>3, <1>4, <1>5, <1>6 DEF Told
<1>8. 0 .. tail' - 1 \subseteq rcvd /\ Sacked(w'.segs) \subseteq rcvd
    <2>1. 0 .. tail - 1 \subseteq rcvd /\ Sacked(w.segs) \subseteq rcvd
        BY DEF WinInv
    <2>2. \A b \in 0 .. e - 1 : b \in 0 .. tail - 1 \/ b \in tail .. e - 1
        BY <1>6
    <2> QED
        BY <1>3, <1>4, <2>1, <2>2
<1>9. acks' = {}
    BY <1>3 DEF WinInv
<1>10. \A s : Arrives(s)' <=> Arrives(s)
    BY <1>5 DEF Arrives
<1> QED
    BY <1>3, <1>5, <1>7, <1>8, <1>9, <1>10 DEF WinInv

\* With one acknowledgement under way, a new one replaces it.
LEMMA SendReplaces ==
    ASSUME MaxAcks = 1, \A m, n \in acks : m = n, NEW x, Send(x)
    PROVE  acks' = {x}
<1>1. PICK A \in SUBSET acks : Cardinality(A) < 1 /\ acks' = A \cup {x}
    BY DEF Send
<1>2. A = {}
    <2> SUFFICES ASSUME NEW y \in A PROVE FALSE
        OBVIOUS
    <2>1. A = {y}
        BY <1>1
    <2>2. Cardinality(A) = 1
        BY <2>1, FS_Singleton
    <2> QED
        BY <1>1, <2>2
<1> QED
    BY <1>1, <1>2

\* The peer receives, reads or is probed; an answer describes what it has then.
LEMMA WinPeer ==
    ASSUME MaxAcks = 1, WinInv, tail \in Nat, SeqSub(w.highest, Isn) \in Nat,
           UNCHANGED <<w, ulWindowSize, tail, wire>>,
           NEW R \in SUBSET (0 .. Total - 1), rcvd \subseteq R, rcvd' = R,
           NEW read \in Nat, peerRead <= read, peerRead' = read,
           NEW sack, sack = NoSack \/ \E o \in R : sack = Block(R, o),
           acks' = acks \/ Send(Ack(R, read, sack))
    PROVE  WinInv'
<1>1. Edge' = read + PeerCapacity /\ Edge <= Edge' /\ Edge \in Nat /\ Edge' \in Nat
    BY Sizes DEF Edge, WinInv
<1>2. \A s : Arrives(s) => Arrives(s)'
    BY <1>1, Sizes DEF Arrives
<1>3. tail' + ulWindowSize' <= Edge' /\ SeqSub(w'.highest, Isn) <= Edge'
    <2>1. SeqSub(w.highest, Isn) <= Edge /\ tail + ulWindowSize <= Edge /\ ulWindowSize \in Int
        BY DEF WinInv
    <2> QED
        BY <1>1, <2>1
<1>4. /\ \A m, n \in acks' : m = n
      /\ \A m \in acks' : \E c \in 0 .. Total, B \in SUBSET R : Told(m, c, B)'
    <2>1. CASE acks' = acks
        <3>1. \A m, c, B : c \in Nat /\ Told(m, c, B) => Told(m, c, B)'
            BY <1>1 DEF Told, Says
        <3> QED
            BY <2>1, <3>1, Sizes DEF WinInv
    <2>2. CASE Send(Ack(R, read, sack))
        <3> DEFINE m == Ack(R, read, sack)
        <3>1. acks' = {m}
            BY <2>2, SendReplaces DEF WinInv
        <3>2. PICK c \in 0 .. Total : /\ Says(m, R) /\ c \notin R /\ 0 .. c - 1 \subseteq R
                                      /\ m.win \in Int /\ c + m.win = read + PeerCapacity
            BY AnswerSays
        <3> HIDE DEF m
        <3>3. tail <= c
            <4> SUFFICES ASSUME c < tail PROVE FALSE
                BY <3>2
            <4>1. c \in 0 .. tail - 1
                BY <3>2
            <4> QED
                BY <3>2, <4>1 DEF WinInv
        <3>4. c \notin Sacked(w.segs)
            BY <3>2 DEF WinInv
        <3>5. Told(m, c, R)'
            BY <1>1, <3>2, <3>3, <3>4 DEF Told, Says
        <3> QED
            BY <3>1, <3>5
    <2> QED
        BY <2>1, <2>2
<1> QED
    BY <1>1, <1>2, <1>3, <1>4 DEF WinInv

LEMMA WinPeerStep ==
    ASSUME MaxAcks = 1, IInv, WinInv, PeerStep
    PROVE  WinInv'
<1>1. /\ UNCHANGED <<w, ulWindowSize, tail, wire>>
      /\ tail \in Nat /\ SeqSub(w.highest, Isn) \in Nat
    <2>1. tail \in Nat /\ Good(w, tail, mid, uxTail)
        BY InStepFacts DEF IInv
    <2>2. w.highest \in SeqNr
        BY <2>1, WindowRecord DEF Good
    <2> QED
        BY <2>1, <2>2, NumberOf, PeerQuiet DEF txStream
<1>2. rcvd \in SUBSET (0 .. Total - 1) /\ peerRead \in Nat /\ peerRead <= peerRead
    BY DEF WinInv
<1>3. CASE \E seg \in wire, answer \in BOOLEAN : PeerReceive(seg, answer)
    <2>1. PICK seg \in wire, answer \in BOOLEAN : PeerReceive(seg, answer)
        BY <1>3
    <2> DEFINE o    == SeqSub(seg.seq, Isn)
               fits == o + seg.len <= Edge
               R    == IF fits THEN rcvd \cup (o .. o + seg.len - 1) ELSE rcvd
               sack == IF fits /\ o > Contiguous(R) THEN Block(R, o) ELSE NoSack
    <2>2. /\ rcvd' = R /\ peerRead' = peerRead
          /\ acks' = acks \/ Send(Ack(R, peerRead, sack))
        BY <2>1 DEF PeerReceive
    <2>3. /\ o \in Nat /\ seg.len \in Nat /\ seg.len > 0 /\ o + seg.len <= Total
        BY DEF WinInv, Arrives
    <2>4. R \in SUBSET (0 .. Total - 1) /\ rcvd \subseteq R
        <3>1. o .. o + seg.len - 1 \subseteq 0 .. Total - 1
            <4> HIDE DEF o
            <4> QED
                BY <2>3, Sizes
        <3> QED
            BY <1>2, <3>1
    <2>5. sack = NoSack \/ \E p \in R : sack = Block(R, p)
        <3>1. fits => o \in R
            BY <2>3
        <3> QED
            BY <3>1
    <2> HIDE DEF R, sack
    <2> QED
        BY <1>1, <1>2, <2>2, <2>4, <2>5, WinPeer
<1>4. CASE \E answer \in BOOLEAN : PeerReads(answer)
    <2>1. /\ rcvd' = rcvd /\ peerRead' = peerRead + 1
          /\ acks' = acks \/ Send(Ack(rcvd, peerRead + 1, NoSack))
        BY <1>4 DEF PeerReads
    <2>2. peerRead + 1 \in Nat /\ peerRead <= peerRead + 1
        BY <1>2
    <2> QED
        BY <1>1, <1>2, <2>1, <2>2, WinPeer
<1>5. CASE PeerProbed
    <2>1. rcvd' = rcvd /\ peerRead' = peerRead /\ Send(Ack(rcvd, peerRead, NoSack))
        BY <1>5 DEF PeerProbed
    <2> QED
        BY <1>1, <1>2, <2>1, WinPeer
<1> QED
    BY <1>3, <1>4, <1>5 DEF PeerStep

LEMMA WinSteps ==
    ASSUME MaxAcks = 1, Isn + Total < 2 * SeqHalf, IInv, WinInv, [Next]_vars
    PROVE  WinInv'
<1>1. CASE \E n \in 1 .. Total : FreeRTOS_send(n)
    BY <1>1, WinQuiet DEF FreeRTOS_send, txStream
<1>2. CASE FreeRTOS_shutdown
    BY <1>2, WinQuiet DEF FreeRTOS_shutdown, txStream
<1>3. CASE xTCPSocketCheck
    <2>1. UNCHANGED <<ulWindowSize, tail, wire, peer>>
        BY <1>3, Zenon DEF xTCPSocketCheck
    <2> QED
        BY <1>3, <2>1, CheckStep, WinQuiet
<1>4. CASE \E expired \in BOOLEAN : prvTCPPrepareSend(expired)
    BY <1>4, WinSend
<1>5. CASE \E m \in acks : RecvAck(m)
    BY <1>5, WinAck
<1>6. CASE OtherSockets
    BY <1>6, WinQuiet DEF OtherSockets, txStream
<1>7. CASE PeerStep
    BY <1>7, WinPeerStep
<1>8. CASE UNCHANGED vars
    BY <1>8, WinQuiet DEF vars, txStream
<1> QED
    BY <1>1, <1>2, <1>3, <1>4, <1>5, <1>6, <1>7, <1>8 DEF Next, PeerStep

\* The sender transmits nothing beyond the window that the peer has offered, as
\* long as no acknowledgement is overtaken by a later one and the sequence
\* numbers of the stream do not wrap: the code takes the last window it read, and
\* prvTCPWindowTxHasSpace compares the sequence numbers as plain unsigned values.
THEOREM SendsWithinWindow ==
    ASSUME MaxAcks = 1, Isn + Total < 2 * SeqHalf
    PROVE  Spec => []WithinPeerWindow
<1>1. Init => WinInv
    <2> SUFFICES ASSUME Init PROVE WinInv
        OBVIOUS
    <2>1. w.segs = {} /\ w.highest = Isn /\ tail = 0 /\ ulWindowSize = PeerCapacity
          /\ wire = {} /\ rcvd = {} /\ peerRead = 0 /\ acks = {}
        BY DEF Init
    <2>2. Edge = PeerCapacity /\ PeerCapacity \in Nat /\ SeqSub(Isn, Isn) = 0
        BY <2>1, Sizes, TxAssumption, SeqHalfAssumption DEF Edge, SeqSub, SeqNr
    <2>3. Sacked({}) = {}
        BY DEF Sacked
    <2> QED
        BY <2>1, <2>2, <2>3 DEF WinInv
<1>2. IInv /\ WinInv /\ [Next]_vars => WinInv'
    BY WinSteps
<1>3. WinInv => WithinPeerWindow
    BY DEF WinInv, Arrives, WithinPeerWindow
<1> QED
    BY <1>1, <1>2, <1>3, TxInvariance, PTL DEF Spec

=============================================================================
