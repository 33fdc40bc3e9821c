------------------------- MODULE TCPWindowRxProofs -------------------------
(***************************************************************************)
(* Proofs about the receiving side of a TCP connection, for streams,        *)
(* segments, buffers and descriptor pools of every size, wherever the       *)
(* sequence numbers wrap.                                                   *)
(***************************************************************************)
EXTENDS TCPWindowRx, FiniteSetTheorems, ListLemmas, TLAPS

-----------------------------------------------------------------------------
(***************************************************************************)
(* Sequence numbers and positions.                                          *)
(***************************************************************************)
\* The sequence number of position o in the peer's stream.
At(o) == SeqAdd(Isn, o)

LEMMA Positions ==
    ASSUME NEW a \in 0 .. Total + 1, NEW b \in 0 .. Total + 1
    PROVE  /\ At(a) \in SeqNr
           /\ At(a) = At(b) => a = b
           /\ SeqSub(At(a), At(b)) = IF a >= b THEN a - b ELSE a - b + 2 * SeqHalf
           /\ Signed(SeqSub(At(a), At(b))) = a - b
BY SeqHalfAssumption, RxAssumption DEF At, SeqNr, SeqAdd, SeqSub, Signed

LEMMA Advance ==
    ASSUME NEW a \in 0 .. Total + 1, NEW n \in Nat, a + n <= Total + 1
    PROVE  SeqAdd(At(a), n) = At(a + n)
BY SeqHalfAssumption, RxAssumption DEF At, SeqNr, SeqAdd

LEMMA Origin == At(0) = Isn
<1>1. Isn \in 0 .. 2 * SeqHalf - 1 /\ SeqHalf \in Nat
    BY RxAssumption, SeqHalfAssumption DEF SeqNr
<1> QED
    BY <1>1 DEF At, SeqAdd

LEMMA Sizes ==
    /\ Total \in Nat /\ MSS \in Nat /\ Capacity \in Nat /\ SegCount \in Nat
    /\ \A o \in 0 .. Total : o \in 0 .. Total + 1
    /\ Total + 1 \in 0 .. Total + 1 /\ 0 \in 0 .. Total + 1
BY RxAssumption

-----------------------------------------------------------------------------
(***************************************************************************)
(* Stored bytes and chains of stored segments.                              *)
(***************************************************************************)
\* The bytes from position a to b - 1 are in the cells c.
Stored(c, a, b) == \A k \in 0 .. Total - 1 : a <= k /\ k < b => c[k] = k

\* A steady peer sends what lies between two successive cuts.
Cut(kind, a, b) == kind = "steady" => (a .. b) \cap Cuts = {a, b}

\* Segment s of the peer has the bytes from position o on; they are in the cells,
\* and within the space of a stream of which t bytes were read.
SegmentAt(s, o, c, t, kind) ==
    /\ s.seq = At(o) /\ o + s.len <= Total /\ o + s.len <= t + Capacity
    /\ Stored(c, o, o + s.len) /\ Cut(kind, o, o + s.len)

GoodSegments(S, c, t, kind) ==
    \A s \in S : s \in Segment /\ \E o \in 0 .. Total - 1 : SegmentAt(s, o, c, t, kind)

\* What holds of the end e of a chain that starts at position o.
ChainEnd(o, e, c, t, kind) ==
    /\ e \in o .. Total /\ Stored(c, o, e)
    /\ e = o \/ e <= t + Capacity
    /\ kind = "steady" /\ o \in Cuts => e \in Cuts

LEMMA Following ==
    ASSUME NEW s \in Segment, NEW c, NEW t \in Nat, NEW kind, NEW o \in 0 .. Total,
           NEW e \in o .. Total, ChainEnd(o, e, c, t, kind), s.seq = At(e),
           \E q \in 0 .. Total - 1 : SegmentAt(s, q, c, t, kind)
    PROVE  /\ e + s.len \in e + 1 .. Total /\ SeqAdd(s.seq, s.len) = At(e + s.len)
           /\ ChainEnd(o, e + s.len, c, t, kind)
<1>1. PICK q \in 0 .. Total - 1 : SegmentAt(s, q, c, t, kind)
    OBVIOUS
<1>2. s.len \in 1 .. MSS /\ s.len \in Nat /\ s.len >= 1
    BY Sizes DEF Segment
<1>3. q = e
    <2>1. q \in 0 .. Total + 1 /\ e \in 0 .. Total + 1 /\ At(q) = At(e)
        BY <1>1, Sizes DEF SegmentAt
    <2> QED
        BY <2>1, Positions
<1>4. e + s.len \in e + 1 .. Total /\ SeqAdd(s.seq, s.len) = At(e + s.len)
    BY <1>1, <1>2, <1>3, Sizes, Advance DEF SegmentAt
<1>5. Stored(c, o, e + s.len)
    BY <1>1, <1>2, <1>3, Sizes DEF SegmentAt, ChainEnd, Stored
<1>6. e + s.len \in e .. e + s.len
    BY <1>2, Sizes
<1>7. kind = "steady" => e + s.len \in Cuts
    BY <1>1, <1>3, <1>6 DEF SegmentAt, Cut
<1> QED
    BY <1>1, <1>2, <1>3, <1>4, <1>5, <1>7, Sizes DEF SegmentAt, ChainEnd

\* Following the stored segments from position o leads to a position up to
\* which everything is stored.
LEMMA Chaining ==
    ASSUME NEW S, NEW c, NEW t \in Nat, NEW kind, GoodSegments(S, c, t, kind),
           NEW o \in 0 .. Total
    PROVE  /\ \E e \in o .. Total :
                  Chain(S, At(o)).next = At(e) /\ ChainEnd(o, e, c, t, kind)
           /\ Chain(S, At(o)).used \subseteq S
<1> DEFINE seq == At(o)
           numbers == {seq} \cup {SeqAdd(s.seq, s.len) : s \in S}
           Closed(N) == seq \in N /\ \A s \in S : s.seq \in N => SeqAdd(s.seq, s.len) \in N
           R == Reached(S, seq)
           good == {x \in numbers : \E e \in o .. Total : x = At(e) /\ ChainEnd(o, e, c, t, kind)}
<1>1. R = {x \in numbers : \A N \in SUBSET numbers : Closed(N) => x \in N}
    BY DEF Reached
<1>2. Closed(good)
    <2>1. o \in o .. Total /\ ChainEnd(o, o, c, t, kind)
        BY Sizes DEF ChainEnd, Stored
    <2>2. ASSUME NEW s \in S, s.seq \in good PROVE SeqAdd(s.seq, s.len) \in good
        <3>1. PICK e \in o .. Total : s.seq = At(e) /\ ChainEnd(o, e, c, t, kind)
            BY <2>2
        <3>2. s \in Segment /\ \E q \in 0 .. Total - 1 : SegmentAt(s, q, c, t, kind)
            BY DEF GoodSegments
        <3>3. /\ e + s.len \in o .. Total /\ SeqAdd(s.seq, s.len) = At(e + s.len)
              /\ ChainEnd(o, e + s.len, c, t, kind)
            BY <3>1, <3>2, Following, Sizes
        <3> QED
            BY <3>3
    <2> QED
        BY <2>1, <2>2
<1>3. good \in SUBSET numbers
    OBVIOUS
<1> HIDE DEF numbers
<1>4. \A x \in R : x \in good
    <2> HIDE DEF good, Closed
    <2> QED
        BY <1>1, <1>2, <1>3
<1>5. \A x \in R : \E e \in o .. Total : x = At(e) /\ ChainEnd(o, e, c, t, kind)
    BY <1>4
<1>6. seq \in R
    BY <1>1 DEF numbers
<1>7. \A s \in S : s.seq \in R => SeqAdd(s.seq, s.len) \in R
    <2>1. \A s \in S : SeqAdd(s.seq, s.len) \in numbers
        BY DEF numbers
    <2> QED
        BY <1>1, <2>1
<1> HIDE DEF R, good, Closed
<1> DEFINE end(x) == CHOOSE e \in o .. Total : x = At(e) /\ ChainEnd(o, e, c, t, kind)
           f == [x \in R |-> Total - end(x)]
<1>8. \A x \in R : end(x) \in o .. Total /\ x = At(end(x)) /\ ChainEnd(o, end(x), c, t, kind)
    BY <1>5
<1> HIDE DEF end
<1>9. f \in [R -> Nat]
    BY <1>8, Sizes
<1>10. PICK x \in R : \A y \in R : f[x] <= f[y]
    <2> HIDE DEF f
    <2> QED
        BY <1>6, <1>9, LeastValue
<1>11. \A s \in S : s.seq # x
    <2> SUFFICES ASSUME NEW s \in S, s.seq = x PROVE FALSE
        OBVIOUS
    <2> DEFINE y == SeqAdd(s.seq, s.len)
               d == end(x)
    <2>1. d \in o .. Total /\ s.seq = At(d) /\ ChainEnd(o, d, c, t, kind)
        BY <1>8
    <2> HIDE DEF d
    <2>2. s \in Segment /\ \E q \in 0 .. Total - 1 : SegmentAt(s, q, c, t, kind)
        BY DEF GoodSegments
    <2>3. d + s.len \in d + 1 .. Total /\ y = At(d + s.len)
        BY <2>1, <2>2, Following
    <2>4. y \in R
        BY <1>7
    <2> HIDE DEF y
    <2>5. end(y) \in o .. Total /\ y = At(end(y))
        BY <2>4, <1>8
    <2>6. end(y) = d + s.len
        BY <2>1, <2>3, <2>5, Sizes, Positions
    <2>7. Total - end(x) <= Total - end(y)
        BY <1>10, <2>4
    <2> QED
        BY <2>1, <2>3, <2>6, <2>7, Sizes DEF d
<1>12. Chain(S, seq).next \in R /\ Chain(S, seq).used \subseteq S
    BY <1>11 DEF Chain, R
<1> QED
    BY <1>12, <1>5

-----------------------------------------------------------------------------
(***************************************************************************)
(* The inductive invariant.                                                 *)
(***************************************************************************)
\* A SACK option names two positions of the stream; what lies between them is in
\* the cells when the peer is steady.
SackGood(x, c, kind) ==
    \/ x = NoSack
    \/ \E a \in 0 .. Total, b \in 0 .. Total :
          a <= b /\ x = <<At(a), At(b)>> /\ (kind = "steady" => Stored(c, a, b))

\* The bytes that are added to the cells c are the peer's bytes.
Filled(c, d) ==
    /\ d \in [0 .. Total - 1 -> (0 .. Total - 1) \cup {NoByte}]
    /\ \A k \in 0 .. Total - 1 : d[k] \in {c[k], k}

IInv ==
    /\ head \in 0 .. Total /\ tail \in 0 .. head /\ head - tail <= Capacity
    /\ cell \in [0 .. Total - 1 -> (0 .. Total - 1) \cup {NoByte}]
    /\ peer \in {"steady", "any"} /\ accepted \in BOOLEAN /\ failed = FALSE
    /\ rxHighest \in SeqNr /\ finSeq \in {{}, {At(Total)}}
    /\ rxCur \in {At(head), At(Total + 1)}
    /\ Stored(cell, 0, head)
    /\ GoodSegments(rxSegments, cell, tail, peer)
    /\ IsFiniteSet(rxSegments) /\ segUsed \in Nat
    /\ segUsed + Cardinality(rxSegments) <= SegCount
    /\ SackGood(sack, cell, peer)
    /\ peer = "steady" => head \in Cuts

LEMMA StoredGrows ==
    ASSUME NEW c, NEW d, Filled(c, d), NEW a, NEW b, Stored(c, a, b)
    PROVE  Stored(d, a, b)
BY DEF Filled, Stored

LEMMA SegmentsKept ==
    ASSUME NEW c, NEW d, Filled(c, d), NEW t \in Nat, NEW u \in Nat, t <= u, NEW kind,
           NEW S, GoodSegments(S, c, t, kind), NEW T \in SUBSET S
    PROVE  GoodSegments(T, d, u, kind)
<1> SUFFICES ASSUME NEW s \in T
             PROVE  s \in Segment /\ \E o \in 0 .. Total - 1 : SegmentAt(s, o, d, u, kind)
    BY DEF GoodSegments
<1>1. s \in Segment
    BY DEF GoodSegments
<1>2. PICK o \in 0 .. Total - 1 : SegmentAt(s, o, c, t, kind)
    BY DEF GoodSegments
<1>3. s.len \in Nat
    BY <1>1, Sizes DEF Segment
<1>4. Stored(d, o, o + s.len)
    BY <1>2, StoredGrows DEF SegmentAt
<1>5. SegmentAt(s, o, d, u, kind)
    BY <1>2, <1>3, <1>4, Sizes DEF SegmentAt
<1> QED
    BY <1>1, <1>5

LEMMA SackKept ==
    ASSUME NEW c, NEW d, Filled(c, d), NEW kind, NEW x, SackGood(x, c, kind)
    PROVE  SackGood(x, d, kind)
BY StoredGrows DEF SackGood

\* Two segments of a steady peer that start at the same position are the same.
LEMMA SameCut ==
    ASSUME NEW o \in Nat, NEW m \in Nat, NEW n \in Nat, m > 0, n > 0,
           Cut("steady", o, o + m), Cut("steady", o, o + n)
    PROVE  m = n
<1>1. o + m \in o .. o + m /\ o + n \in o .. o + n
    OBVIOUS
<1>2. o + m \in Cuts /\ o + n \in Cuts
    BY <1>1 DEF Cut
<1>3. CASE m < n
    <2>1. o + m \in (o .. o + n) \cap Cuts
        BY <1>2, <1>3
    <2> QED
        BY <2>1, <1>3 DEF Cut
<1>4. CASE n < m
    <2>1. o + n \in (o .. o + m) \cap Cuts
        BY <1>2, <1>4
    <2> QED
        BY <2>1, <1>4 DEF Cut
<1> QED
    BY <1>3, <1>4

-----------------------------------------------------------------------------
(***************************************************************************)
(* The answers r of lTCPWindowRxCheck for len bytes from position p.        *)
(***************************************************************************)
\* The data is dropped.
Dropped(r) ==
    /\ r.offset = -1 /\ r.len = 0 /\ r.user = 0
    /\ r.cur = rxCur /\ r.segs = rxSegments /\ SackGood(r.sack, cell, peer)

\* The data continues the stream, and so may stored segments behind it.
Taken(r, p, len) ==
    /\ rxCur = At(head) /\ p <= head /\ head < p + len /\ p + len <= tail + Capacity
    /\ r.offset = 0 /\ r.skip = head - p /\ r.len = p + len - head
    /\ \E e \in p + len .. Total :
          r.user = e - (p + len) /\ r.cur = At(e) /\ ChainEnd(p + len, e, cell, tail, peer)
    /\ r.segs \subseteq rxSegments /\ r.sack = NoSack

\* The data is stored behind a gap.
Queued(r, p, len) ==
    /\ rxCur = At(head) /\ head < p /\ p + len <= tail + Capacity
    /\ r.offset = p - head /\ r.skip = 0 /\ r.len = len /\ r.user = 0
    /\ r.cur = rxCur
    /\ r.segs = rxSegments \cup {[seq |-> At(p), len |-> len]}
    /\ xTCPWindowRxFind(rxSegments, At(p)) = {}
    /\ segUsed + Cardinality(rxSegments) # SegCount
    /\ \E e \in p + len .. Total :
          r.sack = <<At(p), At(e)>> /\ ChainEnd(p + len, e, cell, tail, peer)

\* A data segment of the peer.
Sent(p, len) ==
    /\ p \in 0 .. Total - 1 /\ len \in 1 .. MSS /\ p + len <= Total
    /\ Cut(peer, p, p + len)

LEMMA Refused == IInv => Dropped(Refuse)
BY DEF Refuse, Dropped, SackGood

LEMMA Expected ==
    ASSUME IInv, NEW p, NEW len, Sent(p, len), rxCur = At(head), p <= head, head < p + len,
           p + len <= tail + Capacity
    PROVE  Taken(prvTCPWindowRx_ExpectedRX(head - p, p + len - head), p, len)
<1> DEFINE left == rxSegments \ xTCPWindowRxConfirm(rxSegments, rxCur, p + len - head)
           chain == Chain(left, At(p + len))
           r == prvTCPWindowRx_ExpectedRX(head - p, p + len - head)
<1>1. /\ p \in Nat /\ len \in Nat /\ head \in Nat /\ tail \in Nat
      /\ p + len \in 0 .. Total /\ head \in 0 .. Total + 1
    BY Sizes DEF IInv, Sent
<1>2. SeqAdd(rxCur, p + len - head) = At(p + len)
    <2>1. p + len - head \in Nat /\ head + (p + len - head) = p + len
        BY <1>1
    <2> QED
        BY <1>1, <2>1, Advance, Sizes
<1>3. r = [offset |-> 0, skip |-> head - p, len |-> p + len - head,
           user |-> SeqSub(chain.next, At(p + len)), cur |-> chain.next,
           segs |-> left \ chain.used, sack |-> NoSack]
    BY <1>2 DEF prvTCPWindowRx_ExpectedRX
<1>4. GoodSegments(left, cell, tail, peer)
    BY DEF GoodSegments, IInv
<1> HIDE DEF left, r
<1>5. PICK e \in p + len .. Total : chain.next = At(e) /\ ChainEnd(p + len, e, cell, tail, peer)
    BY <1>1, <1>4, Chaining
<1>6. SeqSub(At(e), At(p + len)) = e - (p + len)
    BY <1>1, Positions, Sizes
<1> HIDE DEF chain
<1>7. left \ chain.used \subseteq rxSegments
    BY DEF left
<1>8. /\ r.offset = 0 /\ r.skip = head - p /\ r.len = p + len - head
      /\ r.user = e - (p + len) /\ r.cur = At(e)
      /\ r.segs \subseteq rxSegments /\ r.sack = NoSack
    BY <1>3, <1>5, <1>6, <1>7
<1>9. Taken(r, p, len)
    BY <1>5, <1>8 DEF Taken
<1> QED
    BY <1>9 DEF r

LEMMA Unexpected ==
    ASSUME IInv, NEW p, NEW len, Sent(p, len), rxCur = At(head), head < p,
           p + len <= tail + Capacity
    PROVE  LET r == prvTCPWindowRx_UnexpectedRX(At(p), len)
           IN  Dropped(r) \/ Queued(r, p, len)
<1> DEFINE chain == Chain(rxSegments, At(p + len))
           r == prvTCPWindowRx_UnexpectedRX(At(p), len)
           option == <<At(p), chain.next>>
<1>1. /\ p \in Nat /\ len \in Nat /\ len > 0 /\ head \in Nat /\ tail \in Nat
      /\ p \in 0 .. Total /\ p + len \in 0 .. Total
      /\ p \in 0 .. Total + 1 /\ head \in 0 .. Total + 1
    BY Sizes DEF IInv, Sent
<1>2. SeqAdd(At(p), len) = At(p + len)
    BY <1>1, Advance, Sizes
<1>3. PICK e \in p + len .. Total : chain.next = At(e) /\ ChainEnd(p + len, e, cell, tail, peer)
    BY <1>1, Chaining DEF IInv
<1> HIDE DEF chain
<1>4. CASE xTCPWindowRxFind(rxSegments, At(p)) # {}
    <2>1. r = [Refuse EXCEPT !.sack = option]
        BY <1>2, <1>4 DEF prvTCPWindowRx_UnexpectedRX, chain
    <2>2. /\ r.offset = -1 /\ r.len = 0 /\ r.user = 0 /\ r.cur = rxCur
          /\ r.segs = rxSegments /\ r.sack = <<At(p), At(e)>>
        BY <2>1, <1>3 DEF Refuse
    <2>3. PICK s \in rxSegments : s.seq = At(p)
        BY <1>4 DEF xTCPWindowRxFind
    <2>4. s \in Segment
        BY DEF IInv, GoodSegments
    <2>5. PICK o \in 0 .. Total - 1 : SegmentAt(s, o, cell, tail, peer)
        BY DEF IInv, GoodSegments
    <2>6. s.len \in Nat /\ s.len > 0
        BY <2>4, Sizes DEF Segment
    <2>7. o = p
        <3>1. o \in 0 .. Total + 1 /\ At(o) = At(p)
            BY <2>3, <2>5, Sizes DEF SegmentAt
        <3> QED
            BY <3>1, <1>1, Positions
    <2>8. peer = "steady" => Stored(cell, p, e)
        <3> SUFFICES ASSUME peer = "steady" PROVE Stored(cell, p, e)
            OBVIOUS
        <3>1. Cut("steady", p, p + s.len) /\ Cut("steady", p, p + len)
            BY <2>5, <2>7 DEF SegmentAt, Sent
        <3>2. s.len = len
            BY <3>1, <1>1, <2>6, SameCut
        <3>3. Stored(cell, p, p + len) /\ Stored(cell, p + len, e)
            BY <1>3, <2>5, <2>7, <3>2 DEF SegmentAt, ChainEnd
        <3> QED
            BY <3>3, <1>1, Sizes DEF Stored
    <2>9. e \in 0 .. Total /\ p <= e
        BY <1>1, Sizes
    <2>10. SackGood(r.sack, cell, peer)
        BY <2>2, <2>8, <2>9, <1>1 DEF SackGood
    <2> HIDE DEF r
    <2> QED
        BY <2>2, <2>10 DEF Dropped, r
<1>5. CASE /\ xTCPWindowRxFind(rxSegments, At(p)) = {}
           /\ segUsed + Cardinality(rxSegments) = SegCount
    BY <1>5, Refused DEF prvTCPWindowRx_UnexpectedRX
<1>6. CASE /\ xTCPWindowRxFind(rxSegments, At(p)) = {}
           /\ segUsed + Cardinality(rxSegments) # SegCount
    <2>1. Signed(SeqSub(At(p), rxCur)) = p - head
        BY <1>1, Positions
    <2>2. r = [Refuse EXCEPT !.offset = p - head, !.len = len, !.sack = option,
                             !.segs = rxSegments \cup {[seq |-> At(p), len |-> len]}]
        BY <1>2, <1>6, <2>1 DEF prvTCPWindowRx_UnexpectedRX, chain, Refuse
    <2>3. /\ r.offset = p - head /\ r.skip = 0 /\ r.len = len /\ r.user = 0 /\ r.cur = rxCur
          /\ r.segs = rxSegments \cup {[seq |-> At(p), len |-> len]}
          /\ r.sack = <<At(p), At(e)>>
        BY <2>2, <1>3 DEF Refuse
    <2> HIDE DEF r
    <2> QED
        BY <2>3, <1>3, <1>6 DEF Queued, r
<1> QED
    BY <1>4, <1>5, <1>6

\* Every data segment of the peer gets one of the three answers.
LEMMA Checked ==
    ASSUME IInv, NEW p, NEW len, Sent(p, len)
    PROVE  LET r == lTCPWindowRxCheck(At(p), len, uxStreamBufferGetSpace)
           IN  Dropped(r) \/ Taken(r, p, len) \/ Queued(r, p, len)
<1> DEFINE space == uxStreamBufferGetSpace
           lLast == Signed(SeqSub(SeqAdd(At(p), len), rxCur))
           lStart == Signed(SeqSub(At(p), rxCur))
           skip == IF lStart < 0 /\ lLast > 0 THEN -lStart ELSE 0
           rxSeq == SeqAdd(At(p), skip)
           rxLen == len - skip
           r == lTCPWindowRxCheck(At(p), len, space)
<1>1. /\ p \in Nat /\ len \in Nat /\ len > 0 /\ head \in Nat /\ tail \in Nat /\ p + len <= Total
      /\ p + len \in 0 .. Total + 1 /\ p \in 0 .. Total + 1 /\ head \in 0 .. Total + 1
    BY Sizes DEF IInv, Sent
<1>2. SeqAdd(At(p), len) = At(p + len)
    BY <1>1, Advance, Sizes
<1>3. space = Capacity - (head - tail)
    BY DEF uxStreamBufferGetSpace
<1>4. r = IF rxCur = rxSeq
          THEN IF rxLen > space THEN Refuse ELSE prvTCPWindowRx_ExpectedRX(skip, rxLen)
          ELSE IF rxCur = SeqAdd(rxSeq, 1) \/ lLast <= 0 \/ lLast > space
          THEN Refuse
          ELSE prvTCPWindowRx_UnexpectedRX(rxSeq, rxLen)
    BY DEF lTCPWindowRxCheck
<1> HIDE DEF r, space
<1>5. CASE rxCur = At(Total + 1)
    <2>1. lLast = p + len - (Total + 1) /\ lStart = p - (Total + 1)
        BY <1>1, <1>2, <1>5, Positions, Sizes
    <2>2. lLast <= 0 /\ skip = 0
        BY <2>1, <1>1, Sizes
    <2>3. rxSeq = At(p)
        BY <2>2, <1>1, Advance, Sizes
    <2>4. rxCur # rxSeq
        BY <2>3, <1>1, <1>5, Positions, Sizes
    <2>5. r = Refuse
        BY <1>4, <2>2, <2>4
    <2> QED
        BY <2>5, Refused DEF r, space
<1>6. CASE rxCur = At(head)
    <2>1. lLast = p + len - head /\ lStart = p - head
        BY <1>1, <1>2, <1>6, Positions
    <2>2. skip = IF p < head /\ head < p + len THEN head - p ELSE 0
        BY <2>1, <1>1
    <2> HIDE DEF lLast, lStart, skip
    <2>3. rxSeq = At(p + skip) /\ p + skip \in 0 .. Total + 1
        BY <2>2, <1>1, Advance, Sizes
    <2>4. CASE p <= head /\ head < p + len
        <3>1. p + skip = head /\ skip = head - p /\ rxLen = p + len - head
            BY <2>2, <2>4, <1>1
        <3>2. rxCur = rxSeq
            BY <2>3, <3>1, <1>6
        <3> HIDE DEF rxSeq, rxLen
        <3>3. CASE rxLen > space
            BY <1>4, <3>2, <3>3, Refused DEF r, space
        <3>4. CASE ~(rxLen > space)
            <4>1. p + len <= tail + Capacity
                BY <3>1, <3>4, <1>1, <1>3, Sizes
            <4>2. r = prvTCPWindowRx_ExpectedRX(head - p, p + len - head)
                BY <1>4, <3>1, <3>2, <3>4
            <4> QED
                BY <4>1, <4>2, <2>4, <1>6, Expected DEF r, space
        <3> QED
            BY <3>3, <3>4
    <2>5. CASE ~(p <= head /\ head < p + len)
        <3>1. skip = 0
            BY <2>2, <2>5, <1>1
        <3>2. rxSeq = At(p) /\ rxLen = len
            BY <2>3, <3>1, <1>1
        <3>3. rxCur # rxSeq
            BY <3>2, <1>1, <1>6, <2>5, Positions
        <3> HIDE DEF rxSeq, rxLen
        <3>4. CASE rxCur = SeqAdd(rxSeq, 1) \/ lLast <= 0 \/ lLast > space
            BY <1>4, <3>3, <3>4, Refused DEF r, space
        <3>5. CASE ~(rxCur = SeqAdd(rxSeq, 1) \/ lLast <= 0 \/ lLast > space)
            <4>1. head < p /\ p + len <= tail + Capacity
                BY <2>1, <2>5, <3>5, <1>1, <1>3, Sizes
            <4>2. r = prvTCPWindowRx_UnexpectedRX(At(p), len)
                BY <1>4, <3>2, <3>3, <3>5
            <4> QED
                BY <4>1, <4>2, <1>6, Unexpected DEF r, space
        <3> QED
            BY <3>4, <3>5
    <2> QED
        BY <2>4, <2>5
<1> QED
    BY <1>5, <1>6 DEF IInv

-----------------------------------------------------------------------------
(***************************************************************************)
(* What prvStoreRxData makes of the three answers.                          *)
(***************************************************************************)
Received(r, st) ==
    /\ st.short = FALSE
    /\ st.head \in head .. Total /\ st.head - tail <= Capacity
    /\ \/ r.cur = At(st.head)
       \/ rxCur = At(Total + 1) /\ r.cur = At(Total + 1) /\ st.head = head
    /\ Filled(cell, st.cell) /\ Stored(st.cell, 0, st.head)
    /\ GoodSegments(r.segs, st.cell, tail, peer)
    /\ IsFiniteSet(r.segs) /\ segUsed + Cardinality(r.segs) <= SegCount
    /\ SackGood(r.sack, st.cell, peer)
    /\ peer = "steady" => st.head \in Cuts

LEMMA NotShort ==
    ASSUME NEW p, NEW r, NEW n, NEW user, ~(r.offset >= 0 /\ n # r.len)
    PROVE  Store(p, r, n, user).short = FALSE
<1> DEFINE b == r.offset >= 0 /\ n # r.len
           st == Store(p, r, n, user)
<1>1. st = [short |-> b, head |-> st.head, cell |-> st.cell]
    BY DEF Store
<1>2. b = FALSE
    OBVIOUS
<1> HIDE DEF b, st
<1>3. st.short = FALSE
    BY <1>1, <1>2
<1> QED
    BY <1>3 DEF st

LEMMA StoreFields ==
    ASSUME NEW p, NEW r, NEW n, NEW user
    PROVE  /\ Store(p, r, n, user).head = head + (IF r.offset = 0 THEN n ELSE 0) + user
           /\ Store(p, r, n, user).cell =
                  [k \in DOMAIN cell |->
                     IF head + r.offset <= k /\ k < head + r.offset + n
                     THEN p + r.skip + (k - (head + r.offset)) ELSE cell[k]]
BY DEF Store

LEMMA DropKeeps ==
    ASSUME IInv, NEW p, NEW r, Dropped(r)
    PROVE  Received(r, prvStoreRxData(p, r))
<1> DEFINE st == prvStoreRxData(p, r)
<1>1. /\ head \in Nat /\ tail \in Nat /\ Total \in Nat /\ Capacity \in Nat
      /\ uxStreamBufferGetSpace \in Nat /\ head \in head .. Total
    BY Sizes DEF IInv, uxStreamBufferGetSpace
<1>2. lTCPAddRxdata(0, r.user) = 0
    BY <1>1 DEF lTCPAddRxdata, Dropped
<1>3. st = Store(p, r, 0, 0)
    BY <1>2 DEF prvStoreRxData, Dropped
<1> HIDE DEF st
<1>4. st.short = FALSE /\ st.head = head
    <2>1. ~(r.offset >= 0 /\ 0 # r.len)
        BY DEF Dropped
    <2>2. st.short = FALSE
        BY <1>3, <2>1, NotShort
    <2>3. st.head = head
        BY <1>1, <1>3 DEF Store
    <2> QED
        BY <1>1, <2>2, <2>3
<1>5. st.cell = cell
    <2>1. \A k \in 0 .. Total - 1 : ~(head + r.offset <= k /\ k < head + r.offset + 0)
        BY <1>1 DEF Dropped
    <2>2. DOMAIN cell = 0 .. Total - 1 /\ cell = [k \in DOMAIN cell |-> cell[k]]
        BY DEF IInv
    <2>3. st.cell = [k \in DOMAIN cell |-> IF head + r.offset <= k /\ k < head + r.offset + 0
                                          THEN p + r.skip + (k - (head + r.offset)) ELSE cell[k]]
        BY <1>3, StoreFields
    <2> QED
        BY <2>1, <2>2, <2>3
<1>6. Filled(cell, cell)
    BY DEF Filled, IInv
<1>7. Received(r, st)
    BY <1>1, <1>4, <1>5, <1>6 DEF Received, Dropped, IInv
<1> QED
    BY <1>7 DEF st

\* The peer's bytes go to the cells of their own positions.
LEMMA Filling ==
    ASSUME IInv, NEW a \in Nat, NEW n \in Nat, a + n <= Total,
           NEW d, d = [k \in DOMAIN cell |-> IF a <= k /\ k < a + n THEN k ELSE cell[k]]
    PROVE  Filled(cell, d) /\ Stored(d, a, a + n)
BY Sizes DEF IInv, Filled, Stored

LEMMA TakeExtends ==
    ASSUME IInv, NEW p, NEW len, Sent(p, len), NEW r, Taken(r, p, len)
    PROVE  Received(r, prvStoreRxData(p, r))
<1> DEFINE st == prvStoreRxData(p, r)
           n == p + len - head
<1>1. PICK e \in p + len .. Total :
        r.user = e - (p + len) /\ r.cur = At(e) /\ ChainEnd(p + len, e, cell, tail, peer)
    BY DEF Taken
<1>2. /\ head \in Nat /\ tail \in Nat /\ Total \in Nat /\ Capacity \in Nat
      /\ p \in Nat /\ len \in Nat /\ e \in Nat /\ n \in Nat /\ n > 0 /\ p + len <= e /\ e <= Total
      /\ tail <= head /\ head <= p + len /\ p <= head
    <2>1. head \in 0 .. Total /\ tail \in 0 .. head /\ p \in 0 .. Total - 1 /\ len \in 1 .. MSS
        BY DEF IInv, Sent
    <2>2. p <= head /\ head < p + len
        BY DEF Taken
    <2> QED
        BY <1>1, <2>1, <2>2, Sizes
<1>3. r.offset = 0 /\ r.skip = head - p /\ r.len = n /\ r.user = e - (p + len)
    BY <1>1 DEF Taken
<1>4. e <= tail + Capacity
    BY <1>1, <1>2 DEF ChainEnd, Taken
<1>5. uxStreamBufferGetSpace = Capacity - (head - tail)
    BY DEF uxStreamBufferGetSpace
<1>6. lTCPAddRxdata(r.offset, r.len) = n
    BY <1>2, <1>3, <1>4, <1>5 DEF lTCPAddRxdata
<1>7. lTCPAddRxdata(n, r.user) = e - (p + len)
    BY <1>2, <1>3, <1>4, <1>5 DEF lTCPAddRxdata
<1>8. st = Store(p, r, n, e - (p + len))
    <2> HIDE DEF n
    <2> QED
        BY <1>3, <1>6, <1>7 DEF prvStoreRxData
<1> HIDE DEF st
<1>9. st.short = FALSE
    BY <1>3, <1>8, NotShort
<1>10. st.head = e
    <2>1. st.head = head + n + (e - (p + len))
        BY <1>3, <1>8 DEF Store
    <2> QED
        BY <2>1, <1>2
<1>11. st.cell = [k \in DOMAIN cell |-> IF head <= k /\ k < head + n THEN k ELSE cell[k]]
    <2>1. DOMAIN cell = 0 .. Total - 1
        BY DEF IInv
    <2>2. st.cell = [k \in DOMAIN cell |->
                       IF head + r.offset <= k /\ k < head + r.offset + n
                       THEN p + r.skip + (k - (head + r.offset)) ELSE cell[k]]
        BY <1>8, StoreFields
    <2>3. \A k \in 0 .. Total - 1 : p + r.skip + (k - (head + r.offset)) = k
        BY <1>2, <1>3
    <2>4. head + r.offset = head
        BY <1>2, <1>3
    <2> HIDE DEF n
    <2> QED
        BY <2>1, <2>2, <2>3, <2>4
<1>12. Filled(cell, st.cell) /\ Stored(st.cell, head, p + len)
    <2>1. head + n <= Total /\ head + n = p + len
        BY <1>2
    <2> HIDE DEF n
    <2> QED
        BY <1>2, <1>11, <2>1, Filling
<1>13. Stored(st.cell, 0, e)
    <2>1. Stored(st.cell, 0, head) /\ Stored(st.cell, p + len, e)
        BY <1>1, <1>12, StoredGrows DEF IInv, ChainEnd
    <2> QED
        BY <1>2, <1>12, <2>1 DEF Stored
<1>14. GoodSegments(r.segs, st.cell, tail, peer)
    BY <1>2, <1>12, SegmentsKept DEF IInv, Taken
<1>15. IsFiniteSet(r.segs) /\ segUsed + Cardinality(r.segs) <= SegCount
    <2>1. IsFiniteSet(r.segs) /\ Cardinality(r.segs) <= Cardinality(rxSegments)
        BY FS_Subset DEF IInv, Taken
    <2>2. Cardinality(r.segs) \in Nat /\ Cardinality(rxSegments) \in Nat
        BY <2>1, FS_CardinalityType DEF IInv
    <2> QED
        BY <2>1, <2>2, Sizes DEF IInv
<1>16. peer = "steady" => e \in Cuts
    <2>1. p + len \in p .. p + len
        BY <1>2
    <2> QED
        BY <1>1, <2>1 DEF Sent, Cut, ChainEnd
<1>17. SackGood(r.sack, st.cell, peer)
    BY DEF Taken, SackGood
<1>18. st.head \in head .. Total /\ st.head - tail <= Capacity /\ r.cur = At(st.head)
    BY <1>1, <1>2, <1>4, <1>10
<1>19. Received(r, st)
    BY <1>9, <1>10, <1>12, <1>13, <1>14, <1>15, <1>16, <1>17, <1>18 DEF Received
<1> QED
    BY <1>19 DEF st

LEMMA QueueStores ==
    ASSUME IInv, NEW p, NEW len, Sent(p, len), NEW r, Queued(r, p, len)
    PROVE  Received(r, prvStoreRxData(p, r))
<1> DEFINE st == prvStoreRxData(p, r)
           s == [seq |-> At(p), len |-> len]
<1>1. PICK e \in p + len .. Total :
        r.sack = <<At(p), At(e)>> /\ ChainEnd(p + len, e, cell, tail, peer)
    BY DEF Queued
<1>2. /\ head \in Nat /\ tail \in Nat /\ Total \in Nat /\ Capacity \in Nat
      /\ p \in Nat /\ len \in Nat /\ e \in Nat /\ p + len <= e /\ e <= Total /\ len > 0
      /\ tail <= head /\ head < p /\ p + len <= tail + Capacity /\ head <= Total
      /\ head - tail <= Capacity
    BY <1>1, Sizes DEF IInv, Sent, Queued
<1>3. r.offset = p - head /\ r.skip = 0 /\ r.len = len /\ r.user = 0
    BY DEF Queued
<1>4. uxStreamBufferGetSpace = Capacity - (head - tail)
    BY DEF uxStreamBufferGetSpace
<1>5. lTCPAddRxdata(r.offset, r.len) = len
    BY <1>2, <1>3, <1>4 DEF lTCPAddRxdata
<1>6. lTCPAddRxdata(len, r.user) = 0
    BY <1>2, <1>3, <1>4 DEF lTCPAddRxdata
<1>7. st = Store(p, r, len, 0)
    BY <1>2, <1>3, <1>5, <1>6 DEF prvStoreRxData
<1> HIDE DEF st
<1>8. st.short = FALSE
    BY <1>3, <1>7, NotShort
<1>9. st.head = head
    BY <1>2, <1>3, <1>7 DEF Store
<1>10. st.cell = [k \in DOMAIN cell |-> IF p <= k /\ k < p + len THEN k ELSE cell[k]]
    <2>1. DOMAIN cell = 0 .. Total - 1
        BY DEF IInv
    <2>2. st.cell = [k \in DOMAIN cell |->
                       IF head + r.offset <= k /\ k < head + r.offset + len
                       THEN p + r.skip + (k - (head + r.offset)) ELSE cell[k]]
        BY <1>7, StoreFields
    <2>3. \A k \in 0 .. Total - 1 : p + r.skip + (k - (head + r.offset)) = k
        BY <1>2, <1>3
    <2>4. head + r.offset = p
        BY <1>2, <1>3
    <2> QED
        BY <2>1, <2>2, <2>3, <2>4
<1>11. Filled(cell, st.cell) /\ Stored(st.cell, p, p + len)
    <2>1. p + len <= Total
        BY <1>2
    <2> QED
        BY <1>2, <1>10, <2>1, Filling
<1>12. Stored(st.cell, 0, head) /\ Stored(st.cell, p + len, e)
    BY <1>1, <1>11, StoredGrows DEF IInv, ChainEnd
<1>13. s \in Segment
    BY <1>2, Sizes, Positions DEF Segment, Sent
<1>14. s.seq = At(p) /\ s.len = len
    OBVIOUS
<1> HIDE DEF s
<1>15. SegmentAt(s, p, st.cell, tail, peer) /\ p \in 0 .. Total - 1
    BY <1>2, <1>11, <1>14 DEF SegmentAt, Sent
<1>16. GoodSegments(rxSegments, st.cell, tail, peer)
    <2>1. tail <= tail /\ rxSegments \in SUBSET rxSegments
        BY <1>2
    <2> QED
        BY <1>2, <1>11, <2>1, SegmentsKept DEF IInv
<1>17. r.segs = rxSegments \cup {s} /\ s \notin rxSegments
    BY <1>14 DEF Queued, s, xTCPWindowRxFind
<1>18. GoodSegments(r.segs, st.cell, tail, peer)
    BY <1>13, <1>15, <1>16, <1>17 DEF GoodSegments
<1>19. IsFiniteSet(r.segs) /\ segUsed + Cardinality(r.segs) <= SegCount
    <2>1. IsFiniteSet(r.segs) /\ Cardinality(r.segs) = Cardinality(rxSegments) + 1
        BY <1>17, FS_AddElement DEF IInv
    <2>2. Cardinality(rxSegments) \in Nat
        BY FS_CardinalityType DEF IInv
    <2> QED
        BY <2>1, <2>2, Sizes DEF IInv, Queued
<1>20. SackGood(r.sack, st.cell, peer)
    <2>1. Stored(st.cell, p, e)
        BY <1>2, <1>11, <1>12 DEF Stored
    <2>2. p \in 0 .. Total /\ e \in 0 .. Total /\ p <= e
        BY <1>2
    <2> QED
        BY <1>1, <2>1, <2>2 DEF SackGood
<1>21. st.head \in head .. Total /\ st.head - tail <= Capacity /\ r.cur = At(st.head)
    BY <1>2, <1>9 DEF Queued
<1>22. Received(r, st)
    BY <1>8, <1>9, <1>11, <1>12, <1>18, <1>19, <1>20, <1>21 DEF Received, IInv
<1> QED
    BY <1>22 DEF st

-----------------------------------------------------------------------------
(***************************************************************************)
(* The steps.                                                               *)
(***************************************************************************)
\* A segment as the model's actions let it arrive: data, or the FIN alone.
Arriving(p, len) == Sent(p, len) \/ (p = Total /\ len = 0)

LEMMA Reception ==
    ASSUME IInv, NEW p, NEW len, Arriving(p, len)
    PROVE  LET r == IF len = 0 THEN Refuse
                    ELSE lTCPWindowRxCheck(SeqAdd(Isn, p), len, uxStreamBufferGetSpace)
           IN  Received(r, prvStoreRxData(p, r))
<1>1. CASE len = 0
    BY <1>1, Refused, DropKeeps
<1>2. CASE len # 0
    <2> DEFINE r == lTCPWindowRxCheck(At(p), len, uxStreamBufferGetSpace)
    <2>1. Sent(p, len)
        BY <1>2 DEF Arriving
    <2>2. Dropped(r) \/ Taken(r, p, len) \/ Queued(r, p, len)
        BY <2>1, Checked
    <2> HIDE DEF r
    <2>3. Received(r, prvStoreRxData(p, r))
        BY <2>1, <2>2, DropKeeps, TakeExtends, QueueStores
    <2> QED
        BY <1>2, <2>3 DEF r, At
<1> QED
    BY <1>1, <1>2

\* What a segment leaves behind: the bytes it brings, and the confirmation of
\* the FIN when no more than one byte before it is missing.
Arrived(r, st) ==
    /\ Received(r, st)
    /\ rxSegments' = r.segs /\ sack' = r.sack /\ head' = st.head /\ cell' = st.cell
    /\ failed' = FALSE /\ segUsed' = segUsed /\ tail' = tail /\ peer' = peer
    /\ rxHighest' \in SeqNr /\ finSeq' \in {finSeq, {At(Total)}} /\ accepted' \in BOOLEAN
    /\ \/ rxCur' = r.cur /\ ~accepted'
       \/ FinInOrder(At(Total), r.cur) /\ rxCur' = At(Total + 1) /\ finSeq' = {At(Total)}

LEMMA Arrival ==
    ASSUME IInv, NEW p, NEW len, Arriving(p, len), NEW fin \in BOOLEAN, NEW txDone,
           RecvSegment(p, len, fin, txDone)
    PROVE  \E r, st : Arrived(r, st)
<1> DEFINE answer == IF len = 0 THEN Refuse
                     ELSE lTCPWindowRxCheck(SeqAdd(Isn, p), len, uxStreamBufferGetSpace)
           end == SeqAdd(Isn, p + len)
           finNow == IF finSeq = {} THEN {end} ELSE finSeq
<1>1. PICK r \in {answer} : \E st \in {prvStoreRxData(p, r)} :
        LET next   == FinInOrder(end, r.cur)
            isFin  == fin /\ ~st.short
        IN  /\ ~failed /\ ~accepted
            /\ fin => p + len = Total
            /\ rxHighest' = Highest(end)
            /\ rxSegments' = r.segs /\ sack' = r.sack
            /\ head' = st.head /\ cell' = st.cell
            /\ failed' = st.short
            /\ finSeq' = IF isFin THEN finNow ELSE finSeq
            /\ accepted' = (/\ isFin /\ txDone /\ next
                            /\ xTCPWindowRxEmpty(r.cur, Highest(end), r.segs))
            /\ \/ ~(isFin /\ next) /\ rxCur' = r.cur
               \/ isFin /\ next /\ \E f \in finNow : rxCur' = SeqAdd(f, 1)
            /\ UNCHANGED <<segUsed, tail, peer>>
    <2> HIDE DEF answer
    <2> QED
        BY Zenon DEF RecvSegment, answer
<1> DEFINE st == prvStoreRxData(p, r)
<1>2. Received(r, st)
    BY <1>1, Reception
<1>3. /\ fin => p + len = Total
      /\ rxHighest' = Highest(end)
      /\ rxSegments' = r.segs /\ sack' = r.sack
      /\ head' = st.head /\ cell' = st.cell
      /\ failed' = st.short
      /\ segUsed' = segUsed /\ tail' = tail /\ peer' = peer
    BY <1>1
<1>4. st.short = FALSE
    BY <1>2 DEF Received
<1>5. /\ finSeq' = IF fin THEN finNow ELSE finSeq
      /\ accepted' \in BOOLEAN
      /\ \/ rxCur' = r.cur /\ ~accepted'
         \/ fin /\ FinInOrder(end, r.cur) /\ \E f \in finNow : rxCur' = SeqAdd(f, 1)
    BY <1>1, <1>4, Zenon
<1> HIDE DEF st, end
<1>6. end \in SeqNr /\ (fin => end = At(Total))
    <2>1. p + len \in 0 .. Total + 1
        BY Sizes DEF Arriving, Sent
    <2> QED
        BY <1>3, <2>1, Positions DEF end, At
<1>7. rxHighest' \in SeqNr
    BY <1>3, <1>6 DEF Highest, IInv
<1>8. fin => finNow = {At(Total)}
    BY <1>6 DEF IInv
<1>9. finSeq' \in {finSeq, {At(Total)}}
    BY <1>5, <1>8
<1>10. SeqAdd(At(Total), 1) = At(Total + 1)
    BY Advance, Sizes
<1>11. \/ rxCur' = r.cur /\ ~accepted'
       \/ FinInOrder(At(Total), r.cur) /\ rxCur' = At(Total + 1) /\ finSeq' = {At(Total)}
    BY <1>5, <1>6, <1>8, <1>10
<1>12. Arrived(r, st)
    BY <1>2, <1>3, <1>4, <1>5, <1>7, <1>9, <1>11 DEF Arrived
<1> QED
    BY <1>12

LEMMA ArrivalKeeps ==
    ASSUME IInv, NEW r, NEW st, Arrived(r, st)
    PROVE  IInv'
<1>1. /\ head' \in 0 .. Total /\ tail' \in 0 .. head' /\ head' - tail' <= Capacity
    BY Sizes DEF IInv, Arrived, Received
<1>2. cell' \in [0 .. Total - 1 -> (0 .. Total - 1) \cup {NoByte}]
    BY DEF Arrived, Received, Filled
<1>3. finSeq' \in {{}, {At(Total)}}
    BY DEF IInv, Arrived
<1>4. rxCur' \in {At(head'), At(Total + 1)}
    BY DEF Arrived, Received
<1>5. /\ Stored(cell', 0, head') /\ GoodSegments(rxSegments', cell', tail', peer')
      /\ IsFiniteSet(rxSegments') /\ segUsed' + Cardinality(rxSegments') <= SegCount
      /\ SackGood(sack', cell', peer') /\ (peer' = "steady" => head' \in Cuts)
    BY DEF Arrived, Received
<1> QED
    BY <1>1, <1>2, <1>3, <1>4, <1>5
    DEF IInv, Arrived, At, Stored, GoodSegments, SackGood, SegmentAt, Cut

\* A step brings a segment, or it leaves the stream's head and the window alone.
Quiet ==
    /\ tail' \in Nat /\ tail <= tail' /\ tail' <= head
    /\ segUsed' \in Nat /\ segUsed' + Cardinality(rxSegments) <= SegCount
    /\ UNCHANGED <<rxCur, rxHighest, rxSegments, sack, head, cell, finSeq, accepted, failed, peer>>

LEMMA Steps ==
    ASSUME IInv, [Next]_vars
    PROVE  Quiet \/ \E r, st : Arrived(r, st)
<1>1. \A s \in PeerSegments : Arriving(s[1], s[2])
    BY DEF PeerSegments, Arriving, Sent, Cut
<1>2. Arriving(Total, 0)
    BY DEF Arriving
<1>3. Cardinality(rxSegments) \in Nat
    BY FS_CardinalityType DEF IInv
<1>4. CASE RecvData
    BY <1>1, <1>4, Arrival DEF RecvData
<1>5. ASSUME NEW txDone, RecvFin(txDone) PROVE \E r, st : Arrived(r, st)
    BY <1>1, <1>2, <1>5, Arrival DEF RecvFin
<1>6. ASSUME NEW n \in 1 .. Capacity, FreeRTOS_recv(n) PROVE Quiet
    BY <1>6, Sizes DEF FreeRTOS_recv, Quiet, IInv
<1>7. CASE OtherSockets
    BY <1>3, <1>7, Sizes DEF OtherSockets, Quiet, IInv
<1>8. CASE UNCHANGED vars
    BY <1>8, Sizes DEF vars, Quiet, IInv
<1> QED
    BY <1>4, <1>5, <1>6, <1>7, <1>8 DEF Next

LEMMA QuietKeeps ==
    ASSUME IInv, Quiet
    PROVE  IInv'
<1>1. tail' \in 0 .. head' /\ head' - tail' <= Capacity /\ tail \in Nat
    <2>1. head \in 0 .. Total /\ tail \in 0 .. head /\ head - tail <= Capacity
        BY DEF IInv
    <2>2. tail' \in Nat /\ tail <= tail' /\ tail' <= head /\ head' = head
        BY DEF Quiet
    <2>3. ASSUME NEW t \in Nat, tail <= t, t <= head
          PROVE  t \in 0 .. head /\ head - t <= Capacity /\ tail \in Nat
        BY <2>1, <2>3, Sizes
    <2> QED
        BY <2>2, <2>3
<1>2. Filled(cell, cell)
    BY DEF IInv, Filled
<1>3. GoodSegments(rxSegments, cell, tail', peer)
    <2>1. rxSegments \in SUBSET rxSegments
        OBVIOUS
    <2> QED
        BY <1>1, <1>2, <2>1, SegmentsKept DEF IInv, Quiet
<1> QED
    BY <1>1, <1>3 DEF IInv, Quiet, At, Stored, GoodSegments, SackGood, SegmentAt, Cut

LEMMA Starting == Init => IInv
<1> SUFFICES ASSUME Init PROVE IInv
    OBVIOUS
<1>1. Isn = At(0) /\ 0 \in Cuts
    BY RxAssumption, Origin
<1>2. IsFiniteSet(rxSegments) /\ Cardinality(rxSegments) = 0
    BY FS_EmptySet DEF Init
<1>3. head \in 0 .. Total /\ tail \in 0 .. head
    BY Sizes DEF Init
<1>4. Stored(cell, 0, head)
    BY Sizes DEF Init, Stored
<1>5. Isn \in SeqNr
    BY RxAssumption
<1>6. cell \in [0 .. Total - 1 -> (0 .. Total - 1) \cup {NoByte}]
    BY DEF Init
<1>7. GoodSegments(rxSegments, cell, tail, peer) /\ SackGood(sack, cell, peer)
    BY DEF Init, GoodSegments, SackGood
<1>8. /\ head - tail <= Capacity
      /\ segUsed \in Nat /\ segUsed + Cardinality(rxSegments) <= SegCount
    BY <1>2, Sizes DEF Init
<1>9. rxCur \in {At(head), At(Total + 1)} /\ head \in Cuts
    BY <1>1 DEF Init
<1> QED
    BY <1>2, <1>3, <1>4, <1>5, <1>6, <1>7, <1>8, <1>9 DEF Init, IInv

\* The inductive invariant of the receiving side.
THEOREM RxInvariance == Spec => []IInv
<1>1. IInv /\ [Next]_vars => IInv'
    BY Steps, ArrivalKeeps, QuietKeeps
<1> QED
    BY <1>1, Starting, PTL DEF Spec

\* prvTCPHandleState and its helpers keep the window, the stream and the pool of
\* descriptors within their types and sizes.
THEOREM RxTyped == Spec => []TypeOK
<1>1. IInv => TypeOK
    <2> SUFFICES ASSUME IInv PROVE TypeOK
        OBVIOUS
    <2>1. \A o \in 0 .. Total + 1 : At(o) \in SeqNr
        BY Positions
    <2>2. rxCur \in SeqNr /\ finSeq \in SUBSET SeqNr
        BY <2>1, Sizes DEF IInv
    <2>3. rxSegments \subseteq Segment
        BY DEF IInv, GoodSegments
    <2>4. sack \in {NoSack} \cup (SeqNr \X SeqNr)
        BY <2>1, Sizes DEF IInv, SackGood
    <2>5. segUsed + Cardinality(rxSegments) \in 0 .. SegCount
        BY FS_CardinalityType, Sizes DEF IInv
    <2> QED
        BY <2>2, <2>3, <2>4, <2>5 DEF IInv, TypeOK
<1> QED
    BY <1>1, RxInvariance, PTL

\* Whatever is lost, duplicated, reordered or cut differently, the user reads the
\* peer's bytes in order.
THEOREM StreamInOrder == Spec => []DeliveredInOrder
<1>1. IInv => DeliveredInOrder
    BY Sizes DEF IInv, DeliveredInOrder, Stored
<1> QED
    BY <1>1, RxInvariance, PTL

\* No segment that lTCPWindowRxCheck lets through finds too little space in
\* rxStream, so prvStoreRxData never resets the connection.
THEOREM NoShortStore == Spec => []NeverShort
<1>1. IInv => NeverShort
    BY DEF IInv, NeverShort
<1> QED
    BY <1>1, RxInvariance, PTL

-----------------------------------------------------------------------------
(***************************************************************************)
(* The FIN.  It is confirmed when no more than one byte before it is        *)
(* missing (FinInOrder), so the data of a steady peer must not end in a     *)
(* segment of one byte.                                                     *)
(***************************************************************************)
SteadyInv ==
    peer = "steady" => ConfirmedIsStored /\ (accepted => head = Total)

LEMMA FinInLine ==
    ASSUME Total - 1 \notin Cuts, NEW h \in Cuts, FinInOrder(At(Total), At(h))
    PROVE  h = Total
<1>1. h \in 0 .. Total
    BY RxAssumption
<1>2. Signed(SeqSub(At(Total), At(h))) = Total - h
    BY <1>1, Positions, Sizes
<1> QED
    BY <1>1, <1>2, Sizes DEF FinInOrder

LEMMA SteadySteps ==
    ASSUME Total - 1 \notin Cuts, IInv, SteadyInv, [Next]_vars
    PROVE  SteadyInv'
<1>1. CASE Quiet
    BY <1>1 DEF Quiet, SteadyInv, ConfirmedIsStored
<1>2. ASSUME NEW r, NEW st, Arrived(r, st) PROVE SteadyInv'
    <2> SUFFICES ASSUME peer = "steady"
                 PROVE  (ConfirmedIsStored /\ (accepted => head = Total))'
        BY <1>2 DEF SteadyInv, Arrived
    <2>1. st.head \in Cuts
        BY <1>2 DEF Arrived, Received
    <2>2. CASE r.cur = At(st.head)
        <3>1. CASE rxCur' = r.cur /\ ~accepted'
            BY <1>2, <2>2, <3>1 DEF Arrived, ConfirmedIsStored, At
        <3>2. CASE FinInOrder(At(Total), r.cur) /\ rxCur' = At(Total + 1) /\ finSeq' = {At(Total)}
            <4>1. st.head = Total
                BY <2>1, <2>2, <3>2, FinInLine
            <4> QED
                BY <1>2, <3>2, <4>1 DEF Arrived, ConfirmedIsStored, At
        <3> QED
            BY <1>2, <3>1, <3>2 DEF Arrived
    <2>3. CASE rxCur = At(Total + 1) /\ r.cur = At(Total + 1) /\ st.head = head
        <3>1. head \in 0 .. Total + 1 /\ head # Total + 1
            BY Sizes DEF IInv
        <3>2. At(head) # At(Total + 1)
            BY <3>1, Positions, Sizes
        <3>3. head = Total /\ finSeq # {}
            BY <2>3, <3>2 DEF SteadyInv, ConfirmedIsStored, At
        <3>4. head' = Total /\ finSeq' # {} /\ rxCur' = At(Total + 1)
            BY <1>2, <2>3, <3>3 DEF Arrived
        <3> QED
            BY <3>4 DEF ConfirmedIsStored, At
    <2> QED
        BY <1>2, <2>2, <2>3 DEF Arrived, Received
<1> QED
    BY <1>1, <1>2, Steps

THEOREM SteadyInvariance ==
    ASSUME Total - 1 \notin Cuts
    PROVE  Spec => [](IInv /\ SteadyInv)
<1>1. Init => SteadyInv
    BY Origin DEF Init, SteadyInv, ConfirmedIsStored, At
<1>2. IInv /\ SteadyInv /\ [Next]_vars => SteadyInv'
    BY SteadySteps
<1> QED
    BY <1>1, <1>2, RxInvariance, PTL DEF Spec

\* What is confirmed to a steady peer, and what a SACK option tells it of, is in
\* rxStream.
THEOREM TruthfulAnswers ==
    ASSUME Total - 1 \notin Cuts
    PROVE  Spec => []AnswerTruthful
<1>1. IInv /\ SteadyInv => AnswerTruthful
    <2> SUFFICES ASSUME IInv, SteadyInv, peer = "steady" PROVE SackTruthful
        BY DEF AnswerTruthful, SteadyInv
    <2> SUFFICES ASSUME sack # NoSack, NEW k \in 0 .. Total - 1,
                        SeqSub(At(k), sack[1]) < SeqSub(sack[2], sack[1])
                 PROVE  cell[k] = k
        BY DEF SackTruthful, At
    <2>1. PICK a \in 0 .. Total, b \in 0 .. Total :
            a <= b /\ sack = <<At(a), At(b)>> /\ Stored(cell, a, b)
        BY DEF IInv, SackGood
    <2>2. sack[1] = At(a) /\ sack[2] = At(b)
        BY <2>1
    <2>3. k \in 0 .. Total + 1 /\ a \in 0 .. Total + 1 /\ b \in 0 .. Total + 1
        BY Sizes
    <2>4. SeqSub(At(b), At(a)) = b - a
        BY <2>1, <2>3, Positions
    <2>5. SeqSub(At(k), At(a)) = IF k >= a THEN k - a ELSE k - a + 2 * SeqHalf
        BY <2>3, Positions
    <2>6. a <= k /\ k < b
        BY <2>2, <2>4, <2>5, RxAssumption, SeqHalfAssumption
    <2> QED
        BY <2>1, <2>6 DEF Stored
<1> QED
    BY <1>1, SteadyInvariance, PTL

\* When the FIN of a steady peer is accepted, every byte before it is in rxStream.
THEOREM FinIsLast ==
    ASSUME Total - 1 \notin Cuts
    PROVE  Spec => []FinAfterData
<1>1. SteadyInv => FinAfterData
    BY DEF SteadyInv, FinAfterData
<1> QED
    BY <1>1, SteadyInvariance, PTL

=============================================================================
