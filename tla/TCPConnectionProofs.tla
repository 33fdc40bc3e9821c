------------------------ MODULE TCPConnectionProofs ------------------------
(***************************************************************************)
(* Proofs about a TCP connection from one end to the other, for any amount  *)
(* of data and any number of packets on the way: first the types, then what *)
(* the two ends of a connection know of each other, then the resets.        *)
(***************************************************************************)
EXTENDS TCPConnection, ListLemmas

-----------------------------------------------------------------------------
(***************************************************************************)
(* Finite sets of sequence numbers.                                         *)
(***************************************************************************)
\* A finite set of numbers has an upper bound: a smallest one without would have
\* one without any of its elements.
LEMMA FiniteBounded ==
    ASSUME NEW S \in SUBSET Nat, IsFiniteSet(S)
    PROVE  \E n \in Nat : \A x \in S : x <= n
<1> DEFINE Bounded(T) == \E n \in Nat : \A x \in T : x <= n
           I == {T \in SUBSET Nat : IsFiniteSet(T) /\ ~Bounded(T)}
           R == StrictSubsetOrdering(Nat)
           F == FiniteSubsetsOf(Nat)
<1>1. SUFFICES ASSUME ~Bounded(S) PROVE FALSE
    OBVIOUS
<1>2. IsWellFoundedOn(R, F)
    BY FS_StrictSubsetOrderingWellFounded
<1>3. I \subseteq F
    BY DEF FiniteSubsetsOf
<1>4. I # {}
    BY <1>1
<1>5. PICK X \in I : \A Y \in I : ~(<<Y, X>> \in R)
    <2> HIDE DEF I, R, F
    <2> QED BY <1>2, <1>3, <1>4, WFMin, Zenon
<1>6. X # {}
    OBVIOUS
<1>7. PICK a \in X : TRUE
    BY <1>6
<1>8. IsFiniteSet(X \ {a})
    BY FS_RemoveElement
<1>9. <<X \ {a}, X>> \in R
    BY <1>7 DEF StrictSubsetOrdering
<1>10. Bounded(X \ {a})
    BY <1>5, <1>8, <1>9
<1>11. PICK n \in Nat : \A x \in X \ {a} : x <= n
    BY <1>10
<1>12. a \in Nat
    OBVIOUS
<1>13. \E m \in Nat : m >= n /\ m >= a
    BY <1>12
<1>14. Bounded(X)
    BY <1>11, <1>12, <1>13
<1> QED
    BY <1>14

LEMMA MaxExists ==
    ASSUME NEW S \in SUBSET Nat, IsFiniteSet(S), S # {}
    PROVE  Max(S) \in S /\ \A y \in S : Max(S) >= y
<1> DEFINE U == {n \in Nat : \A x \in S : x <= n}
<1>1. U \in SUBSET Nat /\ U # {}
    BY FiniteBounded
<1>2. PICK m \in U : \A n \in U : m <= n
    <2> HIDE DEF U
    <2> QED BY <1>1, LeastNumber
<1>3. m \in S
    <2>1. SUFFICES ASSUME m \notin S PROVE FALSE
        OBVIOUS
    <2>2. m > 0
        <3>1. PICK x \in S : TRUE
            OBVIOUS
        <3> QED BY <3>1, <2>1
    <2>3. m - 1 \in U
        BY <2>1, <2>2
    <2> QED BY <1>2, <2>3
<1>4. \E x \in S : \A y \in S : x >= y
    BY <1>3
<1> QED
    BY <1>4 DEF Max

\* n segments that begin at a.
Spaced(a, n) == {a + SegLen * i : i \in 0 .. n - 1}

LEMMA SpacedSet ==
    ASSUME NEW a \in Nat, NEW n \in Nat
    PROVE  /\ Spaced(a, n) \subseteq Nat
           /\ IsFiniteSet(Spaced(a, n)) /\ Cardinality(Spaced(a, n)) = n
<1> DEFINE I == 0 .. n - 1
           T == Spaced(a, n)
           f == [i \in I |-> a + SegLen * i]
<1>1. f \in [I -> T]
    BY DEF Spaced
<1>2. \A i, j \in I : f[i] = f[j] => i = j
    BY DEF SegLen
<1>3. \A y \in T : \E i \in I : f[i] = y
    BY DEF Spaced
<1>4. f \in Injection(I, T) /\ f \in Surjection(I, T)
    <2> HIDE DEF f, I, T
    <2> QED BY <1>1, <1>2, <1>3, Fun_IsInj, Fun_IsSurj
<1>5. IsFiniteSet(I) /\ Cardinality(I) = n
    BY FS_Interval
<1>6. IsFiniteSet(T) /\ (Cardinality(T) = Cardinality(I) <=> f \in Injection(I, T))
    <2> HIDE DEF f, I, T
    <2> QED BY <1>4, <1>5, FS_Surjection
<1>7. T \subseteq Nat
    BY DEF Spaced, SegLen
<1> QED
    BY <1>4, <1>5, <1>6, <1>7

-----------------------------------------------------------------------------
(***************************************************************************)
(* Types.                                                                   *)
(***************************************************************************)
FinNat == {S \in SUBSET Nat : IsFiniteSet(S)}

SockType ==
    [state : State, bits : SUBSET Bit, ucRepCount : 0 .. 3, first : Nat, una : Nat, nxt : Nat,
     next : Nat, our : Nat, txfin : Nat, segs : FinNat, txStream : BOOLEAN, todo : Nat,
     rxfirst : Nat, rx : Nat, rxhigh : Nat, rxfin : Nat, stored : FinNat, got : SUBSET Nat,
     ack : BOOLEAN]

Packets == {S \in SUBSET Packet : IsFiniteSet(S)}

ResultType == [s : SockType, out : Packets]

Flags == {"SYN", "ACK", "PSH", "FIN", "RST"}

LEMMA PeerOf == Peer("A") = "B" /\ Peer("B") = "A"
BY DEF Peer, Socket

LEMMA FinNatFacts ==
    /\ {} \in FinNat
    /\ \A S \in FinNat : Cardinality(S) \in Nat
    /\ \A S \in FinNat : \A T : T \subseteq S => T \in FinNat
    /\ \A S \in FinNat : \A x \in Nat : S \cup {x} \in FinNat
    /\ \A S, T \in FinNat : S \cup T \in FinNat
<1>1. {} \in FinNat
    BY FS_EmptySet DEF FinNat
<1>2. ASSUME NEW S \in FinNat PROVE Cardinality(S) \in Nat
    BY FS_CardinalityType DEF FinNat
<1>3. ASSUME NEW S \in FinNat, NEW T, T \subseteq S PROVE T \in FinNat
    BY <1>3, FS_Subset DEF FinNat
<1>4. ASSUME NEW S \in FinNat, NEW x \in Nat PROVE S \cup {x} \in FinNat
    BY FS_AddElement DEF FinNat
<1>5. ASSUME NEW S \in FinNat, NEW T \in FinNat PROVE S \cup T \in FinNat
    BY FS_Union DEF FinNat
<1> QED
    BY <1>1, <1>2, <1>3, <1>4, <1>5

LEMMA PacketsFacts ==
    /\ {} \in Packets
    /\ \A p \in Packet : {p} \in Packets
    /\ \A S, T \in Packets : S \cup T \in Packets
    /\ \A S \in Packets : \A T : T \subseteq S => T \in Packets
<1>1. {} \in Packets
    BY FS_EmptySet DEF Packets
<1>2. ASSUME NEW p \in Packet PROVE {p} \in Packets
    BY FS_Singleton DEF Packets
<1>3. ASSUME NEW S \in Packets, NEW T \in Packets PROVE S \cup T \in Packets
    BY FS_Union DEF Packets
<1>4. ASSUME NEW S \in Packets, NEW T, T \subseteq S PROVE T \in Packets
    BY <1>4, FS_Subset DEF Packets
<1> QED
    BY <1>1, <1>2, <1>3, <1>4

LEMMA NewTyped ==
    /\ NewSocket \in SockType
    /\ [NewSocket EXCEPT !.state = "none"] \in SockType
    /\ \A s \in SockType : Listening(s) \in SockType
<1> USE FinNatFacts
<1>1. NewSocket \in SockType
    BY DEF NewSocket, SockType, State, Bit
<1>2. [NewSocket EXCEPT !.state = "none"] \in SockType
    BY <1>1 DEF SockType, State
<1>3. ASSUME NEW s \in SockType PROVE Listening(s) \in SockType
    BY <1>1 DEF Listening, SockType, State
<1> QED
    BY <1>1, <1>2, <1>3

LEMMA StateTyped ==
    ASSUME NEW s \in SockType, NEW new \in State
    PROVE  vTCPStateChange(s, new) \in SockType
<1>1. [s EXCEPT !.state = new] \in SockType
    BY DEF SockType
<1> QED
    BY <1>1, NewTyped DEF vTCPStateChange

LEMMA InitTyped ==
    ASSUME NEW s \in SockType, NEW seq \in Nat, NEW iss \in Nat
    PROVE  vTCPWindowInit(s, seq, iss) \in SockType
BY DEF vTCPWindowInit, SockType

LEMMA ReturnTyped ==
    ASSUME NEW s \in SockType, NEW flags \in SUBSET Flags, NEW len \in {0, SegLen},
           NEW options \in BOOLEAN
    PROVE  prvTCPReturnPacket(s, flags, len, options) \in Packet
BY DEF prvTCPReturnPacket, Packet, SockType, Flags

LEMMA ResetTyped ==
    ASSUME NEW p \in Packet
    PROVE  prvTCPSendReset(p) \in Packet
BY DEF prvTCPSendReset, Packet

LEMMA AddTyped ==
    ASSUME NEW s \in SockType
    PROVE  prvTCPAddTxData(s) \in SockType
<1>1. s.next \in Nat /\ s.todo \in Nat /\ s.segs \in FinNat
    BY DEF SockType
<1>2. Spaced(s.next, s.todo) \in FinNat
    BY <1>1, SpacedSet DEF FinNat
<1>3. s.segs \cup Spaced(s.next, s.todo) \in FinNat
    BY <1>1, <1>2, FinNatFacts
<1>4. ASSUME NEW S \in FinNat, NEW n \in Nat
      PROVE  [s EXCEPT !.segs = S, !.next = n, !.todo = 0] \in SockType
    BY DEF SockType
<1>5. prvTCPAddTxData(s) = [s EXCEPT !.segs = s.segs \cup Spaced(s.next, s.todo),
                                     !.next = s.next + SegLen * s.todo, !.todo = 0]
    BY DEF prvTCPAddTxData, Spaced
<1>6. s.next + SegLen * s.todo \in Nat
    BY <1>1 DEF SegLen
<1> QED
    BY <1>3, <1>4, <1>5, <1>6

\* What was sent ends here, after the segments D.
High(s, D) == Max({s.nxt} \cup {q + SegLen : q \in D})

LEMMA HighTyped ==
    ASSUME NEW s \in SockType, NEW D \in SUBSET s.segs
    PROVE  /\ High(s, D) \in Nat
           /\ High(s, D) = s.nxt \/ \E q \in D : High(s, D) = q + SegLen
<1> DEFINE f == [q \in D |-> q + SegLen]
           T == {f[q] : q \in DOMAIN f}
<1>1. D \in FinNat /\ s.nxt \in Nat
    BY FinNatFacts DEF SockType
<1>2. IsFiniteSet(DOMAIN f) /\ f = [q \in DOMAIN f |-> f[q]]
    BY <1>1 DEF FinNat
<1>3. IsFiniteSet(T)
    <2> HIDE DEF f
    <2> QED BY <1>2, ValuesFinite
<1>4. T = {q + SegLen : q \in D}
    OBVIOUS
<1>5. T \in SUBSET Nat
    BY <1>1, <1>4 DEF FinNat, SegLen
<1>6. {s.nxt} \cup T \in SUBSET Nat /\ IsFiniteSet({s.nxt} \cup T)
    BY <1>1, <1>3, <1>5, FS_Singleton, FS_Union
<1>7. Max({s.nxt} \cup T) \in {s.nxt} \cup T
    <2> HIDE DEF T
    <2> QED BY <1>6, MaxExists
<1> QED
    BY <1>1, <1>4, <1>5, <1>7 DEF High

\* The packets that carry the segments D.
Carried(t, fin, D) ==
    {prvTCPReturnPacket([t EXCEPT !.our = q],
         {"ACK", "PSH"} \cup (IF q \in fin THEN {"FIN"} ELSE {}), SegLen, FALSE) : q \in D}

LEMMA CarriedTyped ==
    ASSUME NEW t \in SockType, NEW fin, NEW D \in FinNat
    PROVE  Carried(t, fin, D) \in Packets
<1> DEFINE pack(q) == prvTCPReturnPacket([t EXCEPT !.our = q],
               {"ACK", "PSH"} \cup (IF q \in fin THEN {"FIN"} ELSE {}), SegLen, FALSE)
           f == [q \in D |-> pack(q)]
           T == {f[q] : q \in DOMAIN f}
<1>1. ASSUME NEW q \in D PROVE pack(q) \in Packet
    <2>1. [t EXCEPT !.our = q] \in SockType
        BY DEF SockType, FinNat
    <2>2. {"ACK", "PSH"} \cup (IF q \in fin THEN {"FIN"} ELSE {}) \in SUBSET Flags
        BY DEF Flags
    <2> QED BY <2>1, <2>2, ReturnTyped
<1> HIDE DEF pack
<1>2. IsFiniteSet(DOMAIN f) /\ f = [q \in DOMAIN f |-> f[q]]
    BY DEF FinNat
<1>3. IsFiniteSet(T)
    <2> HIDE DEF f
    <2> QED BY <1>2, ValuesFinite
<1>4. T = {pack(q) : q \in D}
    OBVIOUS
<1>5. Carried(t, fin, D) = {pack(q) : q \in D}
    BY DEF Carried, pack
<1>6. {pack(q) : q \in D} \subseteq Packet
    BY <1>1
<1> QED
    BY <1>3, <1>4, <1>5, <1>6 DEF Packets

LEMMA ResultTyped ==
    /\ \A s \in SockType, out \in Packets : Result(s, out) \in ResultType
    /\ \A r \in ResultType : r.s \in SockType /\ r.out \in Packets
    /\ \A s, out : Result(s, out).s = s /\ Result(s, out).out = out
BY DEF Result, ResultType

LEMMA RepeatedTyped ==
    ASSUME NEW s \in SockType, NEW D \in SUBSET s.segs
    PROVE  prvTCPSendRepeated(s, D) \in ResultType
<1> DEFINE fin  == {q \in D : ClosesWith(s, q)}
           t    == [s EXCEPT !.nxt = High(s, D),
                          !.our = IF s.txStream THEN High(s, D) ELSE @,
                          !.txfin = IF fin = {} THEN @ ELSE s.next,
                          !.bits = (IF fin = {} THEN @ ELSE @ \cup {"bFinSent"}) \ {"bWinChange"}]
           closing == [t EXCEPT !.bits = (@ \cup {"bFinSent"}) \ {"bUserShutdown"},
                             !.txfin = t.una, !.state = "eFIN_WAIT_1"]
<1>1. High(s, D) \in Nat /\ D \in FinNat
    BY HighTyped, FinNatFacts DEF SockType
<1>2. t \in SockType
    <2> DEFINE n == High(s, D)
               o == IF s.txStream THEN n ELSE s.our
               f == IF fin = {} THEN s.txfin ELSE s.next
               b == (IF fin = {} THEN s.bits ELSE s.bits \cup {"bFinSent"}) \ {"bWinChange"}
    <2>1. t = [s EXCEPT !.nxt = n, !.our = o, !.txfin = f, !.bits = b]
        OBVIOUS
    <2>2. s.our \in Nat /\ s.txfin \in Nat /\ s.next \in Nat /\ s.bits \in SUBSET Bit
        BY DEF SockType
    <2>3. b \in SUBSET Bit
        BY <2>2 DEF Bit
    <2>4. n \in Nat /\ o \in Nat /\ f \in Nat
        BY <1>1, <2>2
    <2> HIDE DEF n, o, f, b, t, fin
    <2>5. ASSUME NEW x \in Nat, NEW y \in Nat, NEW z \in Nat, NEW c \in SUBSET Bit
          PROVE  [s EXCEPT !.nxt = x, !.our = y, !.txfin = z, !.bits = c] \in SockType
        BY DEF SockType
    <2> QED BY ONLY <2>1, <2>3, <2>4, <2>5
<1> HIDE DEF t
<1>3. closing \in SockType
    BY <1>2 DEF SockType, Bit, State
<1> HIDE DEF closing
<1>4. Carried(t, fin, D) \in Packets
    BY <1>1, <1>2, CarriedTyped
<1>5. /\ prvTCPReturnPacket(closing, {"ACK", "FIN"}, 0, FALSE) \in Packet
      /\ prvTCPReturnPacket(t, {"ACK"}, 0, FALSE) \in Packet
    BY <1>2, <1>3, ReturnTyped DEF Flags
<1>6. prvTCPSendRepeated(s, D) =
           CASE D # {} -> Result(t, Carried(t, fin, D))
          [] D = {} /\ ShutdownDue(s) ->
               Result(closing, {prvTCPReturnPacket(closing, {"ACK", "FIN"}, 0, FALSE)})
          [] D = {} /\ ~ShutdownDue(s) /\ "bWinChange" \in s.bits ->
               Result(t, {prvTCPReturnPacket(t, {"ACK"}, 0, FALSE)})
          [] OTHER -> Result(t, {})
    BY DEF prvTCPSendRepeated, Carried, closing, t, High
<1>7. /\ Result(t, Carried(t, fin, D)) \in ResultType
      /\ Result(closing, {prvTCPReturnPacket(closing, {"ACK", "FIN"}, 0, FALSE)}) \in ResultType
      /\ Result(t, {prvTCPReturnPacket(t, {"ACK"}, 0, FALSE)}) \in ResultType
      /\ Result(t, {}) \in ResultType
    BY <1>2, <1>3, <1>4, <1>5, PacketsFacts, ResultTyped
<1> QED
    BY ONLY <1>6, <1>7

LEMMA SendTyped ==
    ASSUME NEW s \in SockType, NEW flags \in SUBSET Flags, NEW len,
           NEW options \in BOOLEAN, NEW delay
    PROVE  prvSendData(s, flags, len, options, delay) \in ResultType
<1> DEFINE sent == [s EXCEPT !.ack = FALSE, !.bits = @ \ {"bWinChange"}]
           more == prvTCPSendRepeated(sent, NotSent(sent))
           p == prvTCPReturnPacket(s, flags, 0, options)
           waits == [s EXCEPT !.ack = TRUE]
<1>1. sent \in SockType
    BY DEF SockType
<1>2. NotSent(sent) \in SUBSET sent.segs
    BY DEF NotSent
<1>3. waits \in SockType
    BY DEF SockType
<1>4. p \in Packet
    BY ReturnTyped
<1> HIDE DEF sent, waits, p
<1>5. more \in ResultType
    BY <1>1, <1>2, RepeatedTyped
<1> HIDE DEF more
<1>6. more.s \in SockType /\ more.out \cup {p} \in Packets
    BY <1>4, <1>5, ResultTyped, PacketsFacts
<1>7. Result(waits, {}) \in ResultType /\ Result(more.s, more.out \cup {p}) \in ResultType
    BY <1>3, <1>6, ResultTyped, PacketsFacts
<1>8. \/ prvSendData(s, flags, len, options, delay) = Result(waits, {})
      \/ prvSendData(s, flags, len, options, delay) = Result(more.s, more.out \cup {p})
    BY DEF prvSendData, waits, more, sent, p
<1> QED
    BY <1>7, <1>8

LEMMA AckTyped ==
    ASSUME NEW s \in SockType, NEW ack \in Nat
    PROVE  ulTCPWindowTxAck(s, ack) \in SockType
<1> DEFINE last  == IF s.txfin = s.nxt THEN s.nxt + 1 ELSE s.nxt
           acked == IF s.una \in s.segs /\ ack > s.una /\ ack <= last
                    THEN {q \in s.segs : q >= s.una /\ q < s.nxt /\ q + SegLen <= ack} ELSE {}
<1>1. acked \subseteq s.segs /\ s.segs \in FinNat /\ s.una \in Nat
    BY DEF SockType
<1>2. ulTCPWindowTxAck(s, ack) =
          [s EXCEPT !.segs = s.segs \ acked, !.una = s.una + SegLen * Cardinality(acked)]
    BY DEF ulTCPWindowTxAck
<1> HIDE DEF acked
<1>3. acked \in FinNat /\ s.segs \ acked \in FinNat
    BY <1>1, FinNatFacts
<1>4. s.una + SegLen * Cardinality(acked) \in Nat
    BY <1>1, <1>3, FinNatFacts DEF SegLen
<1>5. ASSUME NEW S \in FinNat, NEW n \in Nat
      PROVE  [s EXCEPT !.segs = S, !.una = n] \in SockType
    BY DEF SockType
<1> QED
    BY <1>2, <1>3, <1>4, <1>5

\* The stored segments that follow rx without a gap.
Run(s) == {q \in s.stored : q > s.rx /\
             \A r \in s.rx + SegLen .. q - 1 : (r - s.rx) % SegLen = 0 => r \in s.stored}

LEMMA StoreCases ==
    ASSUME NEW s \in SockType, NEW p \in Packet
    PROVE  LET t == prvStoreRxData(s, p)
           IN  \/ t = s
               \/ /\ p.len = SegLen /\ p.seq = s.rx
                  /\ t = [s EXCEPT !.rx = s.rx + SegLen * (1 + Cardinality(Run(s))),
                                   !.stored = s.stored \ Run(s),
                                   !.got = s.got \cup {s.rx} \cup Run(s)]
               \/ /\ p.len = SegLen /\ p.seq > s.rx
                  /\ t = [s EXCEPT !.stored = s.stored \cup {p.seq}]
<1>1. p.len \in {0, SegLen} /\ p.seq \in Nat /\ s.rx \in Nat
    BY DEF Packet, SockType
<1>2. CASE p.len = 0 \/ p.seq + p.len > s.rx + Space \/ p.seq < s.rx
    BY <1>1, <1>2 DEF prvStoreRxData, Space, SegLen
<1>3. CASE ~(p.len = 0 \/ p.seq + p.len > s.rx + Space \/ p.seq < s.rx) /\ p.seq = s.rx
    <2>1. p.len > 0
        BY <1>1, <1>3 DEF SegLen
    <2> QED BY <1>1, <1>3, <2>1 DEF prvStoreRxData, Run
<1>4. CASE ~(p.len = 0 \/ p.seq + p.len > s.rx + Space \/ p.seq < s.rx) /\ p.seq # s.rx
    <2>1. prvStoreRxData(s, p) = [s EXCEPT !.stored = s.stored \cup {p.seq}]
        BY <1>4 DEF prvStoreRxData
    <2> QED BY <1>1, <1>4, <2>1
<1> QED
    BY <1>2, <1>3, <1>4

LEMMA StoreTyped ==
    ASSUME NEW s \in SockType, NEW p \in Packet
    PROVE  prvStoreRxData(s, p) \in SockType
<1>1. Run(s) \subseteq s.stored /\ s.stored \in FinNat /\ s.got \in SUBSET Nat /\ s.rx \in Nat
    BY DEF SockType, Run
<1>2. Run(s) \in FinNat /\ s.stored \ Run(s) \in FinNat
    BY <1>1, FinNatFacts
<1>3. s.rx + SegLen * (1 + Cardinality(Run(s))) \in Nat
    BY <1>1, <1>2, FinNatFacts DEF SegLen
<1>4. s.got \cup {s.rx} \cup Run(s) \in SUBSET Nat
    BY <1>1, <1>2 DEF FinNat
<1>5. s.stored \cup {p.seq} \in FinNat
    BY <1>1, FinNatFacts DEF Packet
<1>6. ASSUME NEW S \in FinNat, NEW n \in Nat, NEW g \in SUBSET Nat
      PROVE  /\ [s EXCEPT !.rx = n, !.stored = S, !.got = g] \in SockType
             /\ [s EXCEPT !.stored = S] \in SockType
    BY DEF SockType
<1>7. /\ [s EXCEPT !.rx = s.rx + SegLen * (1 + Cardinality(Run(s))),
                   !.stored = s.stored \ Run(s),
                   !.got = s.got \cup {s.rx} \cup Run(s)] \in SockType
      /\ [s EXCEPT !.stored = s.stored \cup {p.seq}] \in SockType
    BY <1>2, <1>3, <1>4, <1>5, <1>6
<1> QED
    BY <1>7, StoreCases

LEMMA ArrivedTyped ==
    ASSUME NEW s \in SockType, NEW p \in Packet
    PROVE  Arrived(s, p) \in SockType
<1> DEFINE keep == s.state \in Atleast_eESTABLISHED /\ s.rx = p.seq + 1
           new  == "FIN" \in p.flags /\ "bFinRecv" \notin s.bits
           t    == IF s.state \in Atleast_eESTABLISHED \cup {"eSYN_RECEIVED"}
                   THEN prvStoreRxData(s, p) ELSE s
           B(b) == b \cup (IF keep THEN {"bWinChange"} ELSE {})
                     \cup (IF new THEN {"bFinRecv"} ELSE {})
                     \cup (IF new /\ "bFinSent" \notin b THEN {"bFinLast"} ELSE {})
<1>1. t \in SockType
    BY StoreTyped
<1>2. Arrived(s, p) = [t EXCEPT !.rxhigh = Max({t.rxhigh, p.seq + p.len}),
                                !.rxfin = IF new THEN p.seq + p.len ELSE t.rxfin,
                                !.bits = B(t.bits)]
    BY DEF Arrived
<1> HIDE DEF t, keep, new
<1>3. t.rxhigh \in Nat /\ t.rxfin \in Nat /\ p.seq + p.len \in Nat
    BY <1>1 DEF SockType, Packet, SegLen
<1>4. Max({t.rxhigh, p.seq + p.len}) \in Nat
    <2>1. {t.rxhigh, p.seq + p.len} \in SUBSET Nat /\ IsFiniteSet({t.rxhigh, p.seq + p.len})
        <3>1. {t.rxhigh, p.seq + p.len} = {t.rxhigh} \cup {p.seq + p.len}
            OBVIOUS
        <3>2. IsFiniteSet({t.rxhigh}) /\ IsFiniteSet({p.seq + p.len})
            BY FS_Singleton
        <3>3. IsFiniteSet({t.rxhigh} \cup {p.seq + p.len})
            BY <3>2, FS_Union
        <3> QED BY <1>3, <3>1, <3>3
    <2> QED BY <2>1, MaxExists
<1>5. B(t.bits) \in SUBSET Bit
    BY <1>1 DEF SockType, Bit
<1> HIDE DEF B
<1>6. ASSUME NEW n \in Nat, NEW m \in Nat, NEW b \in SUBSET Bit
      PROVE  [t EXCEPT !.rxhigh = n, !.rxfin = m, !.bits = b] \in SockType
    BY <1>1 DEF SockType
<1> DEFINE high == Max({t.rxhigh, p.seq + p.len})
           last == IF new THEN p.seq + p.len ELSE t.rxfin
           bits == B(t.bits)
<1>7. high \in Nat /\ last \in Nat /\ bits \in SUBSET Bit
    BY <1>3, <1>4, <1>5
<1>8. Arrived(s, p) = [t EXCEPT !.rxhigh = high, !.rxfin = last, !.bits = bits]
    BY <1>2
<1> HIDE DEF high, last, bits
<1>9. [t EXCEPT !.rxhigh = high, !.rxfin = last, !.bits = bits] \in SockType
    BY ONLY <1>6, <1>7
<1> QED
    BY ONLY <1>8, <1>9

LEMMA SynFirstTyped ==
    ASSUME NEW s \in SockType, NEW p \in Packet
    PROVE  HandleSynFirst(s, p) \in ResultType
<1> DEFINE t == [s EXCEPT !.state = "eSYN_RECEIVED", !.rx = p.seq + 1, !.rxhigh = p.seq + 1,
                          !.next = s.first + 1, !.una = s.first + 1]
<1>1. t \in SockType
    <2>1. p.seq + 1 \in Nat /\ s.first + 1 \in Nat
        BY DEF SockType, Packet
    <2>2. ASSUME NEW m \in Nat, NEW n \in Nat
          PROVE  [s EXCEPT !.state = "eSYN_RECEIVED", !.rx = m, !.rxhigh = m,
                           !.next = n, !.una = n] \in SockType
        BY DEF SockType, State
    <2> QED BY <2>1, <2>2
<1> HIDE DEF t
<1>2. HandleSynFirst(s, p) = prvSendData(t, {"SYN", "ACK"}, 0, TRUE, FALSE)
    BY DEF HandleSynFirst, t
<1> QED
    BY <1>1, <1>2, SendTyped DEF Flags

\* prvHandleSynReceived when the connection is made, by a SYN+ACK and by an ACK.
Connected(s, p) ==
    [vTCPWindowInit(s, p.seq, s.our) EXCEPT
        !.rx = p.seq + 1, !.rxhigh = p.seq + 1, !.una = @ + 1, !.next = @ + 1,
        !.our = @ + 1, !.state = "eESTABLISHED"]

Accepted(s, p) ==
    [s EXCEPT !.rx = IF p.len = 0 THEN p.seq ELSE @, !.our = s.first + 1, !.state = "eESTABLISHED"]

Refused(s, p) == [s EXCEPT !.our = p.ack, !.rx = p.seq, !.ack = FALSE]

LEMMA SynReceivedCases ==
    ASSUME NEW s, NEW p, NEW options, NEW delay
    PROVE  LET r == prvHandleSynReceived(s, p, options, delay)
           IN  /\ p.flags \ {"PSH"} # (IF s.state = "eCONNECT_SYN" THEN {"SYN", "ACK"} ELSE {"ACK"}) =>
                      r = Result(vTCPStateChange(Refused(s, p), "eCLOSE_WAIT"),
                                 {prvTCPReturnPacket(Refused(s, p), {"ACK", "RST"}, 0, options)})
               /\ s.state = "eCONNECT_SYN" /\ p.flags \ {"PSH"} = {"SYN", "ACK"} =>
                      r = prvSendData(Connected(s, p), {"ACK"}, p.len, options, delay)
               /\ s.state # "eCONNECT_SYN" /\ p.flags \ {"PSH"} = {"ACK"} =>
                      r = IF p.len = 0 THEN Result(Accepted(s, p), {})
                          ELSE prvSendData(Accepted(s, p), {"ACK"}, p.len, options, delay)
<1>1. CASE p.flags \ {"PSH"} # (IF s.state = "eCONNECT_SYN" THEN {"SYN", "ACK"} ELSE {"ACK"})
    BY <1>1 DEF prvHandleSynReceived, Refused
<1>2. CASE s.state = "eCONNECT_SYN" /\ p.flags \ {"PSH"} = {"SYN", "ACK"}
    BY <1>2 DEF prvHandleSynReceived, Connected
<1>3. CASE s.state # "eCONNECT_SYN" /\ p.flags \ {"PSH"} = {"ACK"}
    BY <1>3 DEF prvHandleSynReceived, Accepted
<1> QED
    BY <1>1, <1>2, <1>3

LEMMA ConnectedTyped ==
    ASSUME NEW s \in SockType, NEW p \in Packet
    PROVE  LET v == Connected(s, p)
           IN  /\ v \in SockType
               /\ v.state = "eESTABLISHED" /\ v.rx = p.seq + 1 /\ v.next = s.our + 1
               /\ v.una = s.our + 1 /\ v.first = s.our /\ v.rxfirst = p.seq
               /\ v.our = s.our + 1 /\ v.nxt = s.our
               /\ v.segs = s.segs /\ v.stored = s.stored /\ v.todo = s.todo /\ v.bits = s.bits
               /\ v.got = s.got
<1> DEFINE u == vTCPWindowInit(s, p.seq, s.our)
           v == Connected(s, p)
<1>1. u \in SockType
    BY InitTyped DEF SockType, Packet
<1>2. /\ u.next = s.our /\ u.una = s.our /\ u.first = s.our /\ u.rxfirst = p.seq
      /\ u.our = s.our /\ u.nxt = s.our
      /\ u.segs = s.segs /\ u.stored = s.stored /\ u.todo = s.todo /\ u.bits = s.bits
      /\ u.got = s.got
    BY DEF vTCPWindowInit, SockType
<1>3. v = [u EXCEPT !.rx = p.seq + 1, !.rxhigh = p.seq + 1, !.una = u.una + 1,
                    !.next = u.next + 1, !.our = u.our + 1, !.state = "eESTABLISHED"]
    BY DEF Connected
<1> HIDE DEF u, v
<1>4. p.seq + 1 \in Nat /\ u.una + 1 \in Nat /\ u.next + 1 \in Nat /\ u.our + 1 \in Nat
    BY <1>1 DEF SockType, Packet
<1>5. ASSUME NEW k \in Nat, NEW l \in Nat, NEW m \in Nat, NEW n \in Nat
      PROVE  LET w == [u EXCEPT !.rx = k, !.rxhigh = k, !.una = l, !.next = m, !.our = n,
                                !.state = "eESTABLISHED"]
             IN  w \in SockType
    BY <1>1 DEF SockType, State
<1>6. ASSUME NEW k, NEW l, NEW m, NEW n
      PROVE  LET w == [u EXCEPT !.rx = k, !.rxhigh = k, !.una = l, !.next = m, !.our = n,
                                !.state = "eESTABLISHED"]
             IN  /\ w.state = "eESTABLISHED" /\ w.rx = k /\ w.next = m /\ w.una = l
                 /\ w.first = u.first /\ w.rxfirst = u.rxfirst /\ w.our = n /\ w.nxt = u.nxt
                 /\ w.segs = u.segs /\ w.stored = u.stored /\ w.todo = u.todo /\ w.bits = u.bits
                 /\ w.got = u.got
    BY <1>1 DEF SockType
<1>7. v \in SockType
    BY ONLY <1>3, <1>4, <1>5
<1>8. /\ v.state = "eESTABLISHED" /\ v.rx = p.seq + 1 /\ v.next = u.next + 1 /\ v.una = u.una + 1
      /\ v.first = u.first /\ v.rxfirst = u.rxfirst /\ v.our = u.our + 1 /\ v.nxt = u.nxt
      /\ v.segs = u.segs /\ v.stored = u.stored /\ v.todo = u.todo /\ v.bits = u.bits
      /\ v.got = u.got
    BY ONLY <1>3, <1>6
<1> QED
    BY <1>2, <1>7, <1>8 DEF v

LEMMA SynReceivedTyped ==
    ASSUME NEW s \in SockType, NEW p \in Packet, NEW options \in BOOLEAN, NEW delay
    PROVE  prvHandleSynReceived(s, p, options, delay) \in ResultType
<1>1. Refused(s, p) \in SockType
    BY DEF Refused, SockType, Packet
<1>2. Connected(s, p) \in SockType
    BY ConnectedTyped
<1>3. Accepted(s, p) \in SockType
    <2>1. s.rx \in Nat /\ p.seq \in Nat /\ s.first + 1 \in Nat
        BY DEF SockType, Packet
    <2>2. ASSUME NEW m \in Nat, NEW n \in Nat
          PROVE  [s EXCEPT !.rx = m, !.our = n, !.state = "eESTABLISHED"] \in SockType
        BY DEF SockType, State
    <2> QED BY <2>1, <2>2 DEF Accepted
<1>4. vTCPStateChange(Refused(s, p), "eCLOSE_WAIT") \in SockType
    BY <1>1, StateTyped DEF State
<1>5. prvTCPReturnPacket(Refused(s, p), {"ACK", "RST"}, 0, options) \in Packet
    BY <1>1, ReturnTyped DEF Flags
<1>6. Result(vTCPStateChange(Refused(s, p), "eCLOSE_WAIT"),
             {prvTCPReturnPacket(Refused(s, p), {"ACK", "RST"}, 0, options)}) \in ResultType
    BY <1>4, <1>5, ResultTyped, PacketsFacts
<1>7. Result(Accepted(s, p), {}) \in ResultType
    BY <1>3, ResultTyped, PacketsFacts
<1>8. /\ prvSendData(Connected(s, p), {"ACK"}, p.len, options, delay) \in ResultType
      /\ prvSendData(Accepted(s, p), {"ACK"}, p.len, options, delay) \in ResultType
    BY <1>2, <1>3, SendTyped DEF Flags
<1> QED
    BY <1>6, <1>7, <1>8, SynReceivedCases

\* prvTCPHandleFin: is our FIN confirmed, where is it, and what becomes of the
\* socket.
FinConfirmed(s, p) ==
    "bFinAcked" \in s.bits \/ ("bFinSent" \in s.bits /\ p.ack = s.txfin + 1)

FinAt(s) == IF "bFinSent" \in s.bits THEN s.txfin ELSE s.una

AfterFin(s, p) ==
    LET acked == FinConfirmed(s, p)
        una == IF acked THEN FinAt(s) + 1 ELSE FinAt(s)
    IN  [s EXCEPT !.rx = IF "FIN" \in p.flags THEN s.rxfin + 1 ELSE @,
                  !.txfin = FinAt(s), !.una = una, !.our = una,
                  !.bits = @ \cup {"bFinSent"} \cup (IF acked THEN {"bFinAcked"} ELSE {}),
                  !.state = IF ~acked THEN "eLAST_ACK"
                            ELSE IF acked /\ "bFinRecv" \in s.bits THEN "eCLOSE_WAIT" ELSE @]

LEMMA FinCases ==
    ASSUME NEW s, NEW p, NEW options
    PROVE  LET r == prvTCPHandleFin(s, p, options)
           IN  /\ ~FinConfirmed(s, p) =>
                      r = prvSendData(AfterFin(s, p), {"ACK", "FIN"}, p.len, options, FALSE)
               /\ FinConfirmed(s, p) =>
                      \/ r = prvSendData(AfterFin(s, p), {"ACK"}, p.len, options, FALSE)
                      \/ r = Result(AfterFin(s, p), {})
<1>1. CASE ~FinConfirmed(s, p)
    BY <1>1 DEF prvTCPHandleFin, AfterFin, FinConfirmed, FinAt
<1>2. CASE FinConfirmed(s, p) /\ "bFinRecv" \in s.bits /\ "bFinLast" \notin s.bits
    BY <1>2 DEF prvTCPHandleFin, AfterFin, FinConfirmed, FinAt
<1>3. CASE FinConfirmed(s, p) /\ ~("bFinRecv" \in s.bits /\ "bFinLast" \notin s.bits)
    BY <1>3 DEF prvTCPHandleFin, AfterFin, FinConfirmed, FinAt
<1> QED
    BY <1>1, <1>2, <1>3

LEMMA FinTyped ==
    ASSUME NEW s \in SockType, NEW p \in Packet, NEW options \in BOOLEAN
    PROVE  /\ prvTCPHandleFin(s, p, options) \in ResultType
           /\ AfterFin(s, p) \in SockType
<1>1. AfterFin(s, p) \in SockType
    <2> DEFINE una == IF FinConfirmed(s, p) THEN FinAt(s) + 1 ELSE FinAt(s)
               rx == IF "FIN" \in p.flags THEN s.rxfin + 1 ELSE s.rx
               bits == s.bits \cup {"bFinSent"}
                           \cup (IF FinConfirmed(s, p) THEN {"bFinAcked"} ELSE {})
               state == IF ~FinConfirmed(s, p) THEN "eLAST_ACK"
                        ELSE IF FinConfirmed(s, p) /\ "bFinRecv" \in s.bits
                        THEN "eCLOSE_WAIT" ELSE s.state
    <2>1. FinAt(s) \in Nat /\ una \in Nat /\ rx \in Nat
        BY DEF FinAt, SockType
    <2>2. bits \in SUBSET Bit /\ state \in State
        BY DEF SockType, Bit, State
    <2>3. AfterFin(s, p) = [s EXCEPT !.rx = rx, !.txfin = FinAt(s), !.una = una, !.our = una,
                                     !.bits = bits, !.state = state]
        BY DEF AfterFin
    <2> HIDE DEF una, rx, bits, state
    <2>4. ASSUME NEW a \in Nat, NEW b \in Nat, NEW c \in Nat, NEW d \in SUBSET Bit, NEW e \in State
          PROVE  [s EXCEPT !.rx = a, !.txfin = b, !.una = c, !.our = c,
                           !.bits = d, !.state = e] \in SockType
        BY DEF SockType
    <2>5. [s EXCEPT !.rx = rx, !.txfin = FinAt(s), !.una = una, !.our = una,
                    !.bits = bits, !.state = state] \in SockType
        BY ONLY <2>1, <2>2, <2>4
    <2> QED BY ONLY <2>3, <2>5
<1>2. \A flags \in SUBSET Flags :
          prvSendData(AfterFin(s, p), flags, p.len, options, FALSE) \in ResultType
    BY <1>1, SendTyped
<1>3. Result(AfterFin(s, p), {}) \in ResultType
    BY <1>1, ResultTyped, PacketsFacts
<1>4. {"ACK", "FIN"} \in SUBSET Flags /\ {"ACK"} \in SUBSET Flags
    BY DEF Flags
<1> QED
    BY <1>1, <1>2, <1>3, <1>4, FinCases

\* prvHandleEstablished: the acknowledgement is handled and new data added.
Noted(s, p) ==
    LET a == prvTCPAddTxData(ulTCPWindowTxAck(s, p.ack)) IN [a EXCEPT !.our = a.una]

Closing(b, p) == "bFinAccepted" \in b.bits \/ "FIN" \in p.flags

RefusedInOrder(b, p) ==
    /\ Closing(b, p) /\ p.seq + p.len - b.rx <= 1
    /\ "bFinSent" \notin b.bits
    /\ ~(xTCPWindowRxEmpty(b) /\ xTCPWindowTxDone(b))

Passed(b, p) ==
    [b EXCEPT !.rx = IF RefusedInOrder(b, p) THEN b.rxfin + 1 ELSE @,
              !.una = IF p.len > 0 /\ "bFinSent" \in b.bits THEN b.txfin ELSE @]

Answering(c) == [c EXCEPT !.our = IF c.txStream THEN c.nxt ELSE @]

Accepts(b) == [b EXCEPT !.bits = @ \cup {"bFinAccepted"}]

AllSent(c) ==
    LET r == prvTCPSendRepeated(c, NotSent(c))
    IN  Result([r.s EXCEPT !.ack = @ /\ r.out = {}], r.out)

LEMMA EstablishedCases ==
    ASSUME NEW s, NEW p, NEW options \in BOOLEAN, NEW delay
    PROVE  LET r == prvHandleEstablished(s, p, options, delay)
               b == Noted(s, p)
               c == Passed(b, p)
           IN  \/ Closing(b, p) /\ MayClose(b, p) /\ r = prvTCPHandleFin(Accepts(b), p, options)
               \/ \E o \in BOOLEAN : r = prvSendData(c, {"ACK"}, p.len, o, delay)
               \/ r = prvSendData(Answering(c), {"ACK"}, p.len, FALSE, delay)
               \/ r = AllSent(c)
<1> DEFINE r == prvHandleEstablished(s, p, options, delay)
           b == Noted(s, p)
           c == Passed(b, p)
           over == Closing(b, p) /\ MayClose(b, p)
           quiet == p.len > 0 /\ NotSent(c) = {} /\ ~ShutdownDue(c)
<1>1. r = CASE over -> prvTCPHandleFin(Accepts(b), p, options)
            [] ~over /\ options -> prvSendData(c, {"ACK"}, p.len, TRUE, delay)
            [] ~over /\ ~options /\ quiet -> prvSendData(Answering(c), {"ACK"}, p.len, FALSE, delay)
            [] OTHER -> AllSent(c)
    BY DEF prvHandleEstablished, Noted, Passed, RefusedInOrder, Closing, Accepts, AllSent, Answering
<1> HIDE DEF r, b, c, quiet, over
<1>2. over => r = prvTCPHandleFin(Accepts(b), p, options)
    BY <1>1
<1>3. ~over /\ options => r = prvSendData(c, {"ACK"}, p.len, TRUE, delay)
    BY <1>1
<1>4. ~over /\ ~options /\ quiet => r = prvSendData(Answering(c), {"ACK"}, p.len, FALSE, delay)
    BY <1>1
<1>5. ~over /\ ~options /\ ~quiet => r = AllSent(c)
    BY <1>1
<1>6. \/ over /\ r = prvTCPHandleFin(Accepts(b), p, options)
      \/ r = prvSendData(c, {"ACK"}, p.len, TRUE, delay)
      \/ r = prvSendData(Answering(c), {"ACK"}, p.len, FALSE, delay)
      \/ r = AllSent(c)
    BY <1>2, <1>3, <1>4, <1>5
<1> QED
    BY <1>6 DEF r, b, c, over

LEMMA EstablishedParts ==
    ASSUME NEW s \in SockType, NEW p \in Packet
    PROVE  /\ Noted(s, p) \in SockType
           /\ Passed(Noted(s, p), p) \in SockType
           /\ Answering(Passed(Noted(s, p), p)) \in SockType
           /\ Accepts(Noted(s, p)) \in SockType
<1> DEFINE a == prvTCPAddTxData(ulTCPWindowTxAck(s, p.ack))
           b == Noted(s, p)
           c == Passed(b, p)
<1>1. a \in SockType
    <2>1. ulTCPWindowTxAck(s, p.ack) \in SockType
        BY AckTyped DEF Packet
    <2> QED BY <2>1, AddTyped
<1>2. b = [a EXCEPT !.our = a.una]
    BY DEF Noted
<1> HIDE DEF a, b
<1>3. b \in SockType
    BY <1>1, <1>2 DEF SockType
<1>4. c \in SockType
    <2> DEFINE m == IF RefusedInOrder(b, p) THEN b.rxfin + 1 ELSE b.rx
               n == IF p.len > 0 /\ "bFinSent" \in b.bits THEN b.txfin ELSE b.una
    <2>1. m \in Nat /\ n \in Nat
        BY <1>3 DEF SockType
    <2>2. c = [b EXCEPT !.rx = m, !.una = n]
        BY DEF Passed
    <2> HIDE DEF m, n, c
    <2> QED BY <1>3, <2>1, <2>2 DEF SockType
<1> HIDE DEF c
<1>5. Answering(c) \in SockType
    <2> DEFINE n == IF c.txStream THEN c.nxt ELSE c.our
    <2>1. n \in Nat
        BY <1>4 DEF SockType
    <2>2. Answering(c) = [c EXCEPT !.our = n]
        BY DEF Answering
    <2> HIDE DEF n
    <2> QED BY <1>4, <2>1, <2>2 DEF SockType
<1>6. Accepts(b) \in SockType
    BY <1>3 DEF Accepts, SockType, Bit
<1> QED
    BY <1>3, <1>4, <1>5, <1>6 DEF b, c

LEMMA AllSentTyped ==
    ASSUME NEW c \in SockType
    PROVE  AllSent(c) \in ResultType
<1> DEFINE r == prvTCPSendRepeated(c, NotSent(c))
           u == [r.s EXCEPT !.ack = r.s.ack /\ r.out = {}]
<1>1. NotSent(c) \in SUBSET c.segs
    BY DEF NotSent
<1>2. r \in ResultType
    BY <1>1, RepeatedTyped
<1>3. r.s \in SockType /\ r.out \in Packets
    BY <1>2, ResultTyped
<1>4. AllSent(c) = Result(u, r.out)
    BY DEF AllSent
<1> HIDE DEF r
<1>5. u \in SockType
    BY <1>3 DEF SockType
<1> QED
    BY <1>3, <1>4, <1>5, ResultTyped

LEMMA EstablishedTyped ==
    ASSUME NEW s \in SockType, NEW p \in Packet, NEW options \in BOOLEAN, NEW delay
    PROVE  prvHandleEstablished(s, p, options, delay) \in ResultType
<1> DEFINE b == Noted(s, p)
           c == Passed(b, p)
<1>1. c \in SockType /\ Answering(c) \in SockType /\ Accepts(b) \in SockType
    BY EstablishedParts
<1>2. prvTCPHandleFin(Accepts(b), p, options) \in ResultType
    BY <1>1, FinTyped
<1>3. {"ACK"} \in SUBSET Flags
    BY DEF Flags
<1>4. \A o \in BOOLEAN : prvSendData(c, {"ACK"}, p.len, o, delay) \in ResultType
    BY <1>1, <1>3, SendTyped
<1>5. prvSendData(Answering(c), {"ACK"}, p.len, FALSE, delay) \in ResultType
    BY <1>1, <1>3, SendTyped
<1>6. AllSent(c) \in ResultType
    BY <1>1, AllSentTyped
<1> QED
    BY <1>2, <1>4, <1>5, <1>6, EstablishedCases

\* The states in which a packet gets to prvTCPHandleState.
Handles == {"eCONNECT_SYN", "eSYN_RECEIVED", "eESTABLISHED", "eFIN_WAIT_1", "eLAST_ACK"}

LEMMA HandleCases ==
    ASSUME NEW s, NEW p, NEW delay, s.state \in Handles
    PROVE  LET r == prvTCPHandleState(s, p, delay)
               t == Arrived(s, p)
               o == Options(s, p) /\ s.state # "eCONNECT_SYN"
           IN  /\ s.state = "eSYN_RECEIVED" /\ p.flags = {"SYN"} => r = HandleSynFirst(t, p)
               /\ s.state = "eSYN_RECEIVED" /\ p.flags # {"SYN"} =>
                      r = prvHandleSynReceived(t, p, o, delay)
               /\ s.state = "eCONNECT_SYN" => r = prvHandleSynReceived(t, p, o, delay)
               /\ s.state = "eESTABLISHED" => r = prvHandleEstablished(t, p, o, delay)
               /\ s.state \in {"eFIN_WAIT_1", "eLAST_ACK"} => r = prvTCPHandleFin(t, p, o)
<1> DEFINE t == Arrived(s, p)
           o == Options(s, p) /\ s.state # "eCONNECT_SYN"
           again == s.state = "eSYN_RECEIVED" /\ p.flags = {"SYN"}
<1>1. prvTCPHandleState(s, p, delay) =
        CASE again -> HandleSynFirst(t, p)
          [] ~again /\ s.state \in {"eCONNECT_SYN", "eSYN_RECEIVED"} ->
               prvHandleSynReceived(t, p, o, delay)
          [] s.state = "eESTABLISHED" -> prvHandleEstablished(t, p, o, delay)
          [] s.state \in {"eFIN_WAIT_1", "eLAST_ACK"} -> prvTCPHandleFin(t, p, o)
    BY DEF prvTCPHandleState
<1> HIDE DEF t, o
<1>2. /\ s.state = "eSYN_RECEIVED" /\ p.flags = {"SYN"} =>
             prvTCPHandleState(s, p, delay) = HandleSynFirst(t, p)
      /\ s.state = "eSYN_RECEIVED" /\ p.flags # {"SYN"} =>
             prvTCPHandleState(s, p, delay) = prvHandleSynReceived(t, p, o, delay)
      /\ s.state = "eCONNECT_SYN" =>
             prvTCPHandleState(s, p, delay) = prvHandleSynReceived(t, p, o, delay)
      /\ s.state = "eESTABLISHED" =>
             prvTCPHandleState(s, p, delay) = prvHandleEstablished(t, p, o, delay)
      /\ s.state \in {"eFIN_WAIT_1", "eLAST_ACK"} =>
             prvTCPHandleState(s, p, delay) = prvTCPHandleFin(t, p, o)
    BY <1>1
<1> QED
    BY <1>2 DEF t, o

LEMMA HandleTyped ==
    ASSUME NEW s \in SockType, NEW p \in Packet, NEW delay, s.state \in Handles
    PROVE  prvTCPHandleState(s, p, delay) \in ResultType
<1> DEFINE t == Arrived(s, p)
           o == Options(s, p) /\ s.state # "eCONNECT_SYN"
<1>1. t \in SockType
    BY ArrivedTyped
<1>2. o \in BOOLEAN
    BY DEF Options
<1> HIDE DEF t, o
<1>3. /\ HandleSynFirst(t, p) \in ResultType
      /\ prvHandleSynReceived(t, p, o, delay) \in ResultType
      /\ prvHandleEstablished(t, p, o, delay) \in ResultType
      /\ prvTCPHandleFin(t, p, o) \in ResultType
    BY <1>1, <1>2, SynFirstTyped, SynReceivedTyped, EstablishedTyped, FinTyped
<1> QED
    BY <1>3, HandleCases DEF Handles, t, o

LEMMA HandleResetTyped ==
    ASSUME NEW s \in SockType, NEW p \in Packet
    PROVE  HandleReset(s, p) \in ResultType
<1>1. vTCPStateChange(s, "eCLOSED") \in SockType
    BY StateTyped DEF State
<1>2. prvTCPSendChallengeAck(s) \in Packet
    BY DEF prvTCPSendChallengeAck, Packet, SockType
<1>3. /\ Result(s, {}) \in ResultType
      /\ Result(vTCPStateChange(s, "eCLOSED"), {}) \in ResultType
      /\ Result(s, {prvTCPSendChallengeAck(s)}) \in ResultType
    BY <1>1, <1>2, ResultTyped, PacketsFacts
<1>4. \/ HandleReset(s, p) = Result(s, {})
      \/ HandleReset(s, p) = Result(vTCPStateChange(s, "eCLOSED"), {})
      \/ HandleReset(s, p) = Result(s, {prvTCPSendChallengeAck(s)})
    BY DEF HandleReset
<1> QED
    BY <1>3, <1>4

Restarted(s) == [s EXCEPT !.ucRepCount = 0]

LEMMA ProcessCases ==
    ASSUME NEW s \in SockType, NEW p \in Packet, NEW iss, NEW delay
    PROVE  LET r == xProcessReceivedTCPPacket(s, p, iss, delay)
               t == Restarted(s)
               refused == {prvTCPSendReset(p)}
           IN  /\ s.state \in {"eCLOSED", "eCLOSE_WAIT", "none"} =>
                     \/ r = Result(s, {})
                     \/ r = Result(s, refused) /\ "RST" \notin p.flags /\ p.flags # {"ACK"}
               /\ s.state = "eTCP_LISTEN" /\ p.flags = {"SYN"} =>
                     r = HandleSynFirst(vTCPWindowInit(t, p.seq, iss), p)
               /\ s.state = "eTCP_LISTEN" /\ p.flags # {"SYN"} =>
                     r = Result(t, {}) \/ r = Result(t, refused)
               /\ s.state \in Handles /\ "RST" \in p.flags => r = HandleReset(t, p)
               /\ s.state \in Handles /\ "RST" \notin p.flags =>
                     r = Result(t, {}) \/ r = prvTCPHandleState(t, p, delay)
               /\ s.state \in {"eCONNECT_SYN", "eSYN_RECEIVED"} /\ "RST" \notin p.flags =>
                     r = prvTCPHandleState(t, p, delay)
<1> DEFINE r == xProcessReceivedTCPPacket(s, p, iss, delay)
           t == Restarted(s)
           refused == {prvTCPSendReset(p)}
           reset == "RST" \in p.flags
<1>1. s.state \in State
    BY DEF SockType
<1>2. r = CASE ~prvTCPSocketIsActive(s) ->
               Result(s, IF reset \/ p.flags = {"ACK"} THEN {} ELSE refused)
          [] s.state = "eTCP_LISTEN" ->
               IF p.flags = {"SYN"} THEN HandleSynFirst(vTCPWindowInit(t, p.seq, iss), p)
               ELSE Result(t, IF reset THEN {} ELSE refused)
          [] s.state # "eTCP_LISTEN" /\ prvTCPSocketIsActive(s) ->
               CASE reset -> HandleReset(t, p)
                 [] ~reset /\ p.flags = {"SYN"} /\ s.state \in Atleast_eESTABLISHED -> Result(t, {})
                 [] OTHER -> prvTCPHandleState(t, p, delay)
    BY DEF xProcessReceivedTCPPacket, Restarted
<1> HIDE DEF r, t, refused
<1>3. CASE s.state \in {"eCLOSED", "eCLOSE_WAIT", "none"}
    <2>1. r = Result(s, IF reset \/ p.flags = {"ACK"} THEN {} ELSE refused)
        BY <1>2, <1>3 DEF prvTCPSocketIsActive
    <2> QED BY <1>3, <2>1 DEF Handles, r, refused, t
<1>4. CASE s.state = "eTCP_LISTEN"
    <2>1. r = IF p.flags = {"SYN"} THEN HandleSynFirst(vTCPWindowInit(t, p.seq, iss), p)
               ELSE Result(t, IF reset THEN {} ELSE refused)
        BY <1>2, <1>4 DEF prvTCPSocketIsActive
    <2> QED BY <1>4, <2>1 DEF Handles, r, refused, t
<1>5. CASE s.state \in Handles
    <2>1. r = CASE reset -> HandleReset(t, p)
                [] ~reset /\ p.flags = {"SYN"} /\ s.state \in Atleast_eESTABLISHED -> Result(t, {})
                [] OTHER -> prvTCPHandleState(t, p, delay)
        BY <1>2, <1>5 DEF prvTCPSocketIsActive, Handles
    <2>2. reset => r = HandleReset(t, p)
        BY <2>1
    <2>3. ~reset => r = Result(t, {}) \/ r = prvTCPHandleState(t, p, delay)
        BY <2>1
    <2>4. ~reset /\ s.state \in {"eCONNECT_SYN", "eSYN_RECEIVED"} =>
              r = prvTCPHandleState(t, p, delay)
        BY <2>1 DEF Atleast_eESTABLISHED
    <2> QED BY <1>5, <2>2, <2>3, <2>4 DEF Handles, r, refused, t
<1> QED
    BY <1>1, <1>3, <1>4, <1>5 DEF State, Handles

LEMMA ProcessTyped ==
    ASSUME NEW s \in SockType, NEW p \in Packet, NEW iss \in Nat, NEW delay
    PROVE  xProcessReceivedTCPPacket(s, p, iss, delay) \in ResultType
<1> DEFINE t == Restarted(s)
           r == xProcessReceivedTCPPacket(s, p, iss, delay)
<1>1. t \in SockType /\ t.state = s.state
    BY DEF Restarted, SockType
<1>2. Result(s, {}) \in ResultType /\ Result(t, {}) \in ResultType
    BY <1>1, ResultTyped, PacketsFacts
<1>3. {prvTCPSendReset(p)} \in Packets
    BY ResetTyped, PacketsFacts
<1>4. Result(s, {prvTCPSendReset(p)}) \in ResultType /\ Result(t, {prvTCPSendReset(p)}) \in ResultType
    BY <1>1, <1>3, ResultTyped
<1>5. p.seq \in Nat
    BY DEF Packet
<1>6. HandleSynFirst(vTCPWindowInit(t, p.seq, iss), p) \in ResultType
    BY <1>1, <1>5, InitTyped, SynFirstTyped
<1>7. HandleReset(t, p) \in ResultType
    BY <1>1, HandleResetTyped
<1>8. s.state \in Handles => prvTCPHandleState(t, p, delay) \in ResultType
    BY <1>1, HandleTyped
<1>9. s.state \in State
    BY DEF SockType
<1> HIDE DEF t
<1>10. CASE s.state \in {"eCLOSED", "eCLOSE_WAIT", "none"}
    BY <1>2, <1>4, <1>10, ProcessCases DEF t
<1>11. CASE s.state = "eTCP_LISTEN"
    BY <1>2, <1>4, <1>6, <1>11, ProcessCases DEF t
<1>12. CASE s.state \in Handles
    <2>1. CASE "RST" \in p.flags
        <3>1. r = HandleReset(t, p)
            BY <1>12, <2>1, ProcessCases DEF t
        <3> QED BY <1>7, <3>1
    <2>2. CASE "RST" \notin p.flags
        <3>1. r = Result(t, {}) \/ r = prvTCPHandleState(t, p, delay)
            BY <1>12, <2>2, ProcessCases DEF t
        <3> QED BY <1>2, <1>8, <1>12, <3>1
    <2> QED BY <2>1, <2>2
<1> QED
    BY <1>9, <1>10, <1>11, <1>12 DEF State, Handles

\* A SYN is about to be sent.
Prepared(s) ==
    IF "bConnPrepared" \in s.bits THEN s
    ELSE [vTCPWindowInit(s, 0, IssA) EXCEPT !.ucRepCount = 0, !.bits = @ \cup {"bConnPrepared"}]

Counted(s) == [s EXCEPT !.ucRepCount = @ + 1]

LEMMA ConnectCases ==
    ASSUME NEW s \in SockType, NEW resolved
    PROVE  LET r == ConnectSyn(s, resolved)
           IN  \/ r = Result(vTCPStateChange(s, "eCLOSE_WAIT"), {})
               \/ /\ s.ucRepCount < 3 /\ "bConnPrepared" \notin s.bits
                  /\ r = Result(Counted(s), {})
               \/ /\ s.ucRepCount < 3
                  /\ r = Result(Counted(Prepared(s)),
                                {prvTCPReturnPacket(Prepared(s), {"SYN"}, 0, TRUE)})
<1>1. s.ucRepCount \in 0 .. 3
    BY DEF SockType
<1>2. CASE s.ucRepCount >= 3
    BY <1>1, <1>2 DEF ConnectSyn
<1>3. CASE s.ucRepCount < 3 /\ "bConnPrepared" \notin s.bits /\ ~resolved
    BY <1>1, <1>3 DEF ConnectSyn, Counted
<1>4. CASE s.ucRepCount < 3 /\ ~("bConnPrepared" \notin s.bits /\ ~resolved)
    <2>1. ConnectSyn(s, resolved) = Result(Counted(Prepared(s)),
                                {prvTCPReturnPacket(Prepared(s), {"SYN"}, 0, TRUE)})
        BY <1>1, <1>4 DEF ConnectSyn, Counted, Prepared
    <2> QED BY <1>4, <2>1
<1> QED
    BY <1>1, <1>2, <1>3, <1>4

LEMMA PreparedTyped ==
    ASSUME NEW s \in SockType, s.ucRepCount < 3
    PROVE  /\ Counted(s) \in SockType
           /\ Prepared(s) \in SockType /\ Counted(Prepared(s)) \in SockType
<1>1. \A u \in SockType : u.ucRepCount < 3 => Counted(u) \in SockType
    <2>1. ASSUME NEW u \in SockType, u.ucRepCount < 3 PROVE Counted(u) \in SockType
        <3>1. u.ucRepCount + 1 \in 0 .. 3
            BY <2>1 DEF SockType
        <3>2. ASSUME NEW n \in 0 .. 3 PROVE [u EXCEPT !.ucRepCount = n] \in SockType
            BY DEF SockType
        <3> QED BY <3>1, <3>2 DEF Counted
    <2> QED BY <2>1
<1>2. vTCPWindowInit(s, 0, IssA) \in SockType
    BY InitTyped DEF IssA
<1>3. Prepared(s) \in SockType /\ Prepared(s).ucRepCount < 3
    <2> DEFINE u == vTCPWindowInit(s, 0, IssA)
    <2>1. u \in SockType
        BY <1>2
    <2>2. Prepared(s) = IF "bConnPrepared" \in s.bits THEN s
                        ELSE [u EXCEPT !.ucRepCount = 0, !.bits = u.bits \cup {"bConnPrepared"}]
        BY ZenonT(60) DEF Prepared
    <2> HIDE DEF u
    <2>3. [u EXCEPT !.ucRepCount = 0, !.bits = u.bits \cup {"bConnPrepared"}] \in SockType
        <3>1. u.bits \cup {"bConnPrepared"} \in SUBSET Bit
            BY <2>1 DEF SockType, Bit
        <3>2. ASSUME NEW b \in SUBSET Bit, NEW n \in 0 .. 3
              PROVE  [u EXCEPT !.ucRepCount = n, !.bits = b] \in SockType
            BY ONLY <2>1, <3>2 DEF SockType
        <3>3. 0 \in 0 .. 3
            OBVIOUS
        <3> QED BY <3>1, <3>2, <3>3
    <2> QED BY <2>1, <2>2, <2>3 DEF SockType
<1> QED
    BY <1>1, <1>3

LEMMA ConnectTyped ==
    ASSUME NEW s \in SockType, NEW resolved
    PROVE  ConnectSyn(s, resolved) \in ResultType
<1>1. Result(vTCPStateChange(s, "eCLOSE_WAIT"), {}) \in ResultType
    BY StateTyped, ResultTyped, PacketsFacts DEF State
<1>2. ASSUME s.ucRepCount < 3
      PROVE  /\ Result(Counted(s), {}) \in ResultType
             /\ Result(Counted(Prepared(s)),
                       {prvTCPReturnPacket(Prepared(s), {"SYN"}, 0, TRUE)}) \in ResultType
    <2>1. Counted(s) \in SockType /\ Prepared(s) \in SockType /\ Counted(Prepared(s)) \in SockType
        BY <1>2, PreparedTyped
    <2>2. prvTCPReturnPacket(Prepared(s), {"SYN"}, 0, TRUE) \in Packet
        BY <2>1, ReturnTyped DEF Flags
    <2> QED BY <2>1, <2>2, ResultTyped, PacketsFacts
<1> QED
    BY <1>1, <1>2, ConnectCases

\* xTCPSocketCheck: new data is added, a delayed acknowledgement goes out, and the
\* socket may send.
Filled(s) == IF s.state \in Atleast_eESTABLISHED THEN prvTCPAddTxData(s) ELSE s

Due(a, resend) == IF resend THEN a.segs ELSE NotSent(a)

Delayed(a) == a.ack /\ "bUserShutdown" \notin a.bits

Confirming(a) == Delayed(a) /\ a.state # "eCLOSED"

Freed(a) == [a EXCEPT !.ack = FALSE, !.bits = IF Confirming(a) THEN @ \ {"bWinChange"} ELSE @]

SendsNow(a, D, resolved) ==
    LET ready == Delayed(a) /\ D = {}
    IN  CASE ~ready /\ Freed(a).state \in Atleast_eESTABLISHED -> prvTCPSendRepeated(Freed(a), D)
          [] ~ready /\ Freed(a).state = "eCONNECT_SYN" -> ConnectSyn(Freed(a), resolved)
          [] OTHER -> Result(Freed(a), {})

CheckSends(s, resend, resolved) == SendsNow(Filled(s), Due(Filled(s), resend), resolved)

CheckEnds(s, c) ==
    {c.s} \cup {v \in {vTCPStateChange(c.s, "eCLOSE_WAIT")} : MayHang(s) /\ c.s.state = s.state}

CheckOut(s, c) ==
    c.out \cup (IF Confirming(Filled(s))
               THEN {prvTCPReturnPacket(Filled(s), {"ACK"}, 0, FALSE)} ELSE {})

LEMMA CheckCases ==
    ASSUME NEW s, NEW resend, NEW old, NEW resolved, NEW c, c = CheckSends(s, resend, resolved)
    PROVE  \E u \in CheckEnds(s, c) :
              xTCPSocketCheck(s, resend, old, resolved) = Result(u, CheckOut(s, c))
<1> DEFINE a == Filled(s)
           hang == old /\ ~(Delayed(a) /\ Due(a, resend) = {}) /\ MayHang(s) /\ c.s.state = s.state
<1>1. xTCPSocketCheck(s, resend, old, resolved) =
          Result(IF hang THEN vTCPStateChange(c.s, "eCLOSE_WAIT") ELSE c.s, CheckOut(s, c))
    BY DEF xTCPSocketCheck, Filled, Due, Delayed, Confirming, Freed, SendsNow, CheckSends, CheckOut
<1>2. (IF hang THEN vTCPStateChange(c.s, "eCLOSE_WAIT") ELSE c.s) \in CheckEnds(s, c)
    <2>1. CASE hang
        BY <2>1 DEF CheckEnds
    <2>2. CASE ~hang
        BY <2>2 DEF CheckEnds
    <2> QED BY <2>1, <2>2
<1> HIDE DEF hang
<1> QED
    BY <1>1, <1>2

LEMMA FilledTyped ==
    ASSUME NEW s \in SockType
    PROVE  /\ Filled(s) \in SockType /\ Freed(Filled(s)) \in SockType
           /\ \A resend : Due(Filled(s), resend) \in SUBSET Freed(Filled(s)).segs
<1> DEFINE a == Filled(s)
<1>1. a \in SockType
    BY AddTyped DEF Filled
<1> HIDE DEF a
<1>2. Freed(a) \in SockType /\ Freed(a).segs = a.segs
    <2> DEFINE b == IF Confirming(a) THEN a.bits \ {"bWinChange"} ELSE a.bits
    <2>1. b \in SUBSET Bit
        BY <1>1 DEF SockType
    <2>2. Freed(a) = [a EXCEPT !.ack = FALSE, !.bits = b]
        BY DEF Freed
    <2> HIDE DEF b
    <2>3. ASSUME NEW c \in SUBSET Bit
          PROVE  /\ [a EXCEPT !.ack = FALSE, !.bits = c] \in SockType
                 /\ [a EXCEPT !.ack = FALSE, !.bits = c].segs = a.segs
        BY <1>1 DEF SockType
    <2>4. /\ [a EXCEPT !.ack = FALSE, !.bits = b] \in SockType
          /\ [a EXCEPT !.ack = FALSE, !.bits = b].segs = a.segs
        BY ONLY <2>1, <2>3
    <2> QED BY ONLY <2>2, <2>4
<1>3. \A resend : Due(a, resend) \in SUBSET a.segs
    BY DEF Due, NotSent
<1> QED
    BY <1>1, <1>2, <1>3 DEF a

LEMMA SendsNowTyped ==
    ASSUME NEW s \in SockType, NEW resend, NEW resolved
    PROVE  CheckSends(s, resend, resolved) \in ResultType
<1> DEFINE a == Filled(s)
           D == Due(a, resend)
           b == Freed(a)
<1>1. b \in SockType /\ D \in SUBSET b.segs
    BY FilledTyped
<1> HIDE DEF a, D, b
<1>2. /\ prvTCPSendRepeated(b, D) \in ResultType
      /\ ConnectSyn(b, resolved) \in ResultType
      /\ Result(b, {}) \in ResultType
    BY <1>1, RepeatedTyped, ConnectTyped, ResultTyped, PacketsFacts
<1>3. SendsNow(a, D, resolved) \in
          {prvTCPSendRepeated(b, D), ConnectSyn(b, resolved), Result(b, {})}
    BY DEF SendsNow, b
<1> QED
    BY <1>2, <1>3 DEF a, D, CheckSends

LEMMA CheckTyped ==
    ASSUME NEW s \in SockType, NEW resend, NEW old, NEW resolved
    PROVE  xTCPSocketCheck(s, resend, old, resolved) \in ResultType
<1> DEFINE c == CheckSends(s, resend, resolved)
           a == Filled(s)
<1>1. PICK u \in CheckEnds(s, c) :
              xTCPSocketCheck(s, resend, old, resolved) = Result(u, CheckOut(s, c))
    BY CheckCases
<1>2. a \in SockType /\ c \in ResultType
    BY FilledTyped, SendsNowTyped
<1> HIDE DEF c
<1>3. c.s \in SockType /\ c.out \in Packets
    BY <1>2, ResultTyped
<1>4. prvTCPReturnPacket(a, {"ACK"}, 0, FALSE) \in Packet
    BY <1>2, ReturnTyped DEF Flags
<1>5. CheckOut(s, c) \in Packets
    BY <1>3, <1>4, PacketsFacts DEF CheckOut
<1>6. vTCPStateChange(c.s, "eCLOSE_WAIT") \in SockType
    BY <1>3, StateTyped DEF State
<1>7. u \in SockType
    BY <1>3, <1>6 DEF CheckEnds
<1> QED
    BY <1>1, <1>5, <1>7, ResultTyped

-----------------------------------------------------------------------------
(***************************************************************************)
(* Every step keeps the types.                                              *)
(***************************************************************************)
LogType == [data : SUBSET Nat, fin : SUBSET Nat, skipped : SUBSET Nat]

TypeInv ==
    /\ sock \in [Socket -> SockType]
    /\ net \in [Socket -> Packets] /\ \A x \in Socket : Cardinality(net[x]) <= MaxNet(x)
    /\ listens \in 0 .. MaxListens
    /\ toSend \in [Socket -> Nat]
    /\ log \in [Socket -> LogType]

\* The packets on the way after some were sent to the peer of x.
LEMMA SendsAdd ==
    ASSUME NEW x \in Socket, NEW out, NEW left \in [Socket -> Packets], Sends(x, out, left)
    PROVE  \E kept \in SUBSET out :
              /\ net' = [left EXCEPT ![Peer(x)] = left[Peer(x)] \cup kept]
              /\ net'[x] = left[x] /\ net'[Peer(x)] = left[Peer(x)] \cup kept
              /\ Cardinality(net'[Peer(x)]) <= MaxNet(Peer(x))
<1>1. PICK kept \in SUBSET out :
         /\ Cardinality([left EXCEPT ![Peer(x)] = left[Peer(x)] \cup kept][Peer(x)]) <= MaxNet(Peer(x))
         /\ net' = [left EXCEPT ![Peer(x)] = left[Peer(x)] \cup kept]
    BY DEF Sends
<1>2. Peer(x) \in Socket /\ Peer(x) # x
    BY PeerOf DEF Socket
<1> QED
    BY <1>1, <1>2

LEMMA NetTyped ==
    ASSUME NEW x \in Socket, NEW out \in Packets, NEW left \in [Socket -> Packets],
           Sends(x, out, left), Cardinality(left[x]) <= MaxNet(x)
    PROVE  /\ net' \in [Socket -> Packets]
           /\ \A y \in Socket : Cardinality(net'[y]) <= MaxNet(y)
<1>1. PICK kept \in SUBSET out :
              /\ net' = [left EXCEPT ![Peer(x)] = left[Peer(x)] \cup kept]
              /\ net'[x] = left[x] /\ net'[Peer(x)] = left[Peer(x)] \cup kept
              /\ Cardinality(net'[Peer(x)]) <= MaxNet(Peer(x))
    BY SendsAdd
<1>2. Peer(x) \in Socket /\ Socket = {x, Peer(x)}
    BY PeerOf DEF Socket
<1>3. kept \in Packets
    BY PacketsFacts
<1>4. left[Peer(x)] \cup kept \in Packets
    BY <1>2, <1>3, PacketsFacts
<1> QED
    BY <1>1, <1>2, <1>4

\* What x makes of the packet p.
Handled(x, p, delay) == xProcessReceivedTCPPacket(sock[x], p, IssB(listens + 1), delay)

Joins(x, p) == sock[x].state = "eTCP_LISTEN" /\ p.flags = {"SYN"}

Skips(x, p, r) ==
    sock[x].state = "eSYN_RECEIVED" /\ r.s.state = "eESTABLISHED" /\ r.s.rx > sock[x].rx
        /\ p.len = 0

TakesFin(r) == "bFinRecv" \in r.s.bits /\ r.s.rx = r.s.rxfin + 1

Left(x, p, again) == IF again THEN net ELSE [net EXCEPT ![x] = @ \ {p}]

Logs(x, p, r) ==
    /\ log' \in [Socket -> LogType] /\ log'[Peer(x)] = log[Peer(x)]
    /\ log'[x].data = log[x].data \cup r.s.got
    /\ log'[x].fin = IF TakesFin(r) THEN log[x].fin \cup {r.s.rxfin} ELSE log[x].fin
    /\ log'[x].skipped = IF Skips(x, p, r) THEN log[x].skipped \cup {sock[x].first}
                         ELSE log[x].skipped

Receives(x, p, again, r) ==
    /\ p \in Packet /\ r \in ResultType
    /\ Joins(x, p) => listens < MaxListens
    /\ listens' = IF Joins(x, p) THEN listens + 1 ELSE listens
    /\ sock' = [sock EXCEPT ![x] = r.s]
    /\ Sends(x, r.out, Left(x, p, again))
    /\ Logs(x, p, r)
    /\ toSend' = toSend

LEMMA ReceiveParts ==
    ASSUME TypeInv, NEW x \in Socket, Receive(x)
    PROVE  \E p \in net[x], again \in BOOLEAN : \E delay \in {FALSE, p.len > 0} :
              Receives(x, p, again, Handled(x, p, delay))
<1>1. PICK p \in net[x], again \in BOOLEAN : \E delay \in {FALSE, p.len > 0} :
        LET r == Handled(x, p, delay)
        IN  /\ Joins(x, p) => listens < MaxListens
            /\ listens' = IF Joins(x, p) THEN listens + 1 ELSE listens
            /\ sock' = [sock EXCEPT ![x] = r.s]
            /\ Sends(x, r.out, Left(x, p, again))
            /\ log' = [log EXCEPT
                  ![x].data = @ \cup r.s.got,
                  ![x].fin = IF TakesFin(r) THEN @ \cup {r.s.rxfin} ELSE @,
                  ![x].skipped = IF Skips(x, p, r) THEN @ \cup {sock[x].first} ELSE @]
            /\ toSend' = toSend
    BY Zenon DEF Receive, Handled, Joins, Skips, TakesFin, Left
<1>2. PICK delay \in {FALSE, p.len > 0} :
        LET r == Handled(x, p, delay)
        IN  /\ Joins(x, p) => listens < MaxListens
            /\ listens' = IF Joins(x, p) THEN listens + 1 ELSE listens
            /\ sock' = [sock EXCEPT ![x] = r.s]
            /\ Sends(x, r.out, Left(x, p, again))
            /\ log' = [log EXCEPT
                  ![x].data = @ \cup r.s.got,
                  ![x].fin = IF TakesFin(r) THEN @ \cup {r.s.rxfin} ELSE @,
                  ![x].skipped = IF Skips(x, p, r) THEN @ \cup {sock[x].first} ELSE @]
            /\ toSend' = toSend
    BY <1>1
<1> DEFINE r == Handled(x, p, delay)
           d == log[x].data \cup r.s.got
           f == IF TakesFin(r) THEN log[x].fin \cup {r.s.rxfin} ELSE log[x].fin
           k == IF Skips(x, p, r) THEN log[x].skipped \cup {sock[x].first} ELSE log[x].skipped
<1>3. log \in [Socket -> LogType] /\ log[x] \in LogType
    BY DEF TypeInv
<1>4. p \in Packet /\ sock[x] \in SockType /\ IssB(listens + 1) \in Nat
    BY DEF TypeInv, Packets, IssB
<1>5. r \in ResultType
    BY <1>4, ProcessTyped DEF Handled
<1>6. r.s \in SockType
    BY <1>5, ResultTyped
<1>7. log' = [log EXCEPT ![x].data = d, ![x].fin = f, ![x].skipped = k]
    <2> HIDE DEF r
    <2> QED BY <1>2, <1>3 DEF LogType, r
<1>8. d \in SUBSET Nat /\ f \in SUBSET Nat /\ k \in SUBSET Nat
    <2>1. r.s.got \in SUBSET Nat /\ r.s.rxfin \in Nat /\ sock[x].first \in Nat
        BY <1>4, <1>6 DEF SockType
    <2> HIDE DEF r
    <2> QED BY <1>3, <2>1 DEF LogType
<1>9. Peer(x) # x /\ Peer(x) \in Socket
    BY PeerOf DEF Socket
<1>10. Logs(x, p, r)
    <2> HIDE DEF d, f, k, r
    <2>1. log' \in [Socket -> LogType]
        BY <1>3, <1>7, <1>8 DEF LogType
    <2>2. log'[Peer(x)] = log[Peer(x)]
        BY <1>3, <1>7, <1>9
    <2>3. log'[x].data = d /\ log'[x].fin = f /\ log'[x].skipped = k
        BY <1>3, <1>7 DEF LogType
    <2> QED BY <2>1, <2>2, <2>3 DEF Logs, d, f, k
<1>11. /\ Joins(x, p) => listens < MaxListens
       /\ listens' = IF Joins(x, p) THEN listens + 1 ELSE listens
       /\ sock' = [sock EXCEPT ![x] = r.s]
       /\ Sends(x, r.out, Left(x, p, again))
       /\ toSend' = toSend
    BY <1>2
<1> HIDE DEF r
<1>12. Receives(x, p, again, r)
    BY <1>4, <1>5, <1>10, <1>11 DEF Receives
<1> QED
    BY <1>12 DEF r

LEMMA ReceiveTyped ==
    ASSUME TypeInv, NEW x \in Socket, NEW p \in net[x], NEW again \in BOOLEAN, NEW r,
           Receives(x, p, again, r)
    PROVE  TypeInv'
<1>1. /\ sock[x] \in SockType /\ net[x] \in Packets
      /\ listens \in Nat /\ MaxListens \in Nat
    BY ConnectionAssumption DEF TypeInv, Packets
<1>2. r.s \in SockType /\ r.out \in Packets
    BY ResultTyped DEF Receives
<1>3. sock' \in [Socket -> SockType]
    BY <1>2 DEF TypeInv, Receives
<1>4. listens' \in 0 .. MaxListens
    BY <1>1 DEF TypeInv, Receives
<1>5. log' \in [Socket -> LogType]
    BY DEF Receives, Logs
<1>6. net[x] \ {p} \in Packets /\ Cardinality(net[x] \ {p}) <= MaxNet(x)
    <2>1. net[x] \ {p} \in Packets
        BY <1>1, PacketsFacts
    <2>2. IsFiniteSet(net[x]) /\ Cardinality(net[x]) \in Nat /\ Cardinality(net[x]) <= MaxNet(x)
        BY <1>1, FS_CardinalityType DEF TypeInv, Packets
    <2>3. Cardinality(net[x] \ {p}) = Cardinality(net[x]) - 1
        BY <2>2, FS_RemoveElement
    <2>4. MaxNet(x) \in Nat
        BY ConnectionAssumption DEF MaxNet
    <2> QED BY <2>1, <2>2, <2>3, <2>4
<1>7. Left(x, p, again) \in [Socket -> Packets] /\ Cardinality(Left(x, p, again)[x]) <= MaxNet(x)
    BY <1>6 DEF Left, TypeInv
<1>8. /\ net' \in [Socket -> Packets]
      /\ \A y \in Socket : Cardinality(net'[y]) <= MaxNet(y)
    BY <1>2, <1>7, NetTyped DEF Receives
<1> QED
    BY <1>3, <1>4, <1>5, <1>8 DEF TypeInv, Receives

LEMMA TimerTyped ==
    ASSUME TypeInv, NEW x \in Socket, NEW resend, NEW old, NEW resolved,
           Timer(x, resend, old, resolved)
    PROVE  TypeInv'
<1> DEFINE r == xTCPSocketCheck(sock[x], resend, old, resolved)
<1>1. sock[x] \in SockType
    BY DEF TypeInv
<1>2. r \in ResultType
    BY <1>1, CheckTyped
<1>3. r.s \in SockType /\ r.out \in Packets
    BY <1>2, ResultTyped
<1>4. sock' = [sock EXCEPT ![x] = r.s] /\ Sends(x, r.out, net) /\ UNCHANGED <<listens, toSend, log>>
    BY DEF Timer
<1> HIDE DEF r
<1>5. sock' \in [Socket -> SockType]
    BY <1>3, <1>4 DEF TypeInv
<1>6. /\ net' \in [Socket -> Packets]
      /\ \A y \in Socket : Cardinality(net'[y]) <= MaxNet(y)
    BY <1>3, <1>4, NetTyped DEF TypeInv
<1> QED
    BY <1>4, <1>5, <1>6 DEF TypeInv

\* The actions of the users.
User(x) ==
    \/ x = "A" /\ FreeRTOS_connect
    \/ x = "B" /\ FreeRTOS_listen
    \/ \E n \in 1 .. DataA + DataB : FreeRTOS_send(x, n)
    \/ FreeRTOS_shutdown(x)
    \/ FreeRTOS_closesocket(x)

LEMMA NextCases ==
    ASSUME Next
    PROVE  \E x \in Socket :
              \/ Receive(x)
              \/ \E resend, old, resolved : Timer(x, resend, old, resolved)
              \/ User(x)
<1>1. "A" \in Socket /\ "B" \in Socket
    BY DEF Socket
<1>2. CASE FreeRTOS_connect
    BY <1>1, <1>2 DEF User
<1>3. CASE FreeRTOS_listen
    BY <1>1, <1>3 DEF User
<1> QED
    BY <1>2, <1>3 DEF Next, User

\* What the socket becomes.
SendAdds(s, x, n) ==
    [s EXCEPT !.todo = @ + n, !.txStream = TRUE,
              !.bits = IF x \in CloseAfterSend THEN @ \cup {"bCloseRequested"} ELSE @]

ShutdownAsks(s) == [s EXCEPT !.bits = @ \cup {"bUserShutdown"}]

Gone == [NewSocket EXCEPT !.state = "none"]

LEMMA UserCases ==
    ASSUME TypeInv, NEW x \in Socket, User(x)
    PROVE  \E u \in SockType :
              /\ sock' = [sock EXCEPT ![x] = u] /\ UNCHANGED <<net, listens, log>>
              /\ \/ /\ x = "A" /\ sock[x].state = "eCLOSED" /\ "bConnPrepared" \notin sock[x].bits
                    /\ u = vTCPStateChange(sock[x], "eCONNECT_SYN") /\ toSend' = toSend
                 \/ /\ x = "B" /\ sock[x].state \in {"eCLOSED", "eCLOSE_WAIT"}
                    /\ u = Listening(sock[x]) /\ toSend' = toSend
                 \/ \E n \in Nat :
                       /\ sock[x].state = "eESTABLISHED" /\ "bFinSent" \notin sock[x].bits
                       /\ u = SendAdds(sock[x], x, n)
                       /\ toSend' = [toSend EXCEPT ![x] = @ - n] /\ n <= toSend[x]
                 \/ /\ sock[x].state = "eESTABLISHED" /\ u = ShutdownAsks(sock[x]) /\ toSend' = toSend
                 \/ u = Gone /\ toSend' = toSend
<1>1. sock \in [Socket -> SockType] /\ sock[x] \in SockType
    BY DEF TypeInv
<1>2. CASE x = "A" /\ FreeRTOS_connect
    <2>1. vTCPStateChange(sock[x], "eCONNECT_SYN") \in SockType
        BY <1>1, StateTyped DEF State
    <2> QED BY <1>2, <2>1 DEF FreeRTOS_connect
<1>3. CASE x = "B" /\ FreeRTOS_listen
    <2>1. Listening(sock[x]) \in SockType
        BY <1>1, NewTyped
    <2> QED BY <1>3, <2>1 DEF FreeRTOS_listen
<1>4. CASE \E n \in 1 .. DataA + DataB : FreeRTOS_send(x, n)
    <2>1. PICK n \in 1 .. DataA + DataB : FreeRTOS_send(x, n)
        BY <1>4
    <2>2. n \in Nat
        BY ConnectionAssumption
    <2>3. SendAdds(sock[x], x, n) \in SockType
        <3>1. sock[x].todo + n \in Nat
            BY <1>1, <2>2 DEF SockType
        <3>2. (IF x \in CloseAfterSend THEN sock[x].bits \cup {"bCloseRequested"} ELSE sock[x].bits)
                 \in SUBSET Bit
            BY <1>1 DEF SockType, Bit
        <3>3. ASSUME NEW m \in Nat, NEW b \in SUBSET Bit
              PROVE  [sock[x] EXCEPT !.todo = m, !.txStream = TRUE, !.bits = b] \in SockType
            BY <1>1 DEF SockType
        <3> QED BY <3>1, <3>2, <3>3 DEF SendAdds
    <2>4. sock' = [sock EXCEPT ![x] = SendAdds(sock[x], x, n)]
        <3>1. sock' = [sock EXCEPT ![x].todo = @ + n, ![x].txStream = TRUE,
                            ![x].bits = IF x \in CloseAfterSend THEN @ \cup {"bCloseRequested"}
                                        ELSE @]
            BY <2>1 DEF FreeRTOS_send
        <3> QED BY <1>1, <3>1 DEF SendAdds, SockType
    <2> QED BY <2>1, <2>2, <2>3, <2>4 DEF FreeRTOS_send
<1>5. CASE FreeRTOS_shutdown(x)
    <2>1. ShutdownAsks(sock[x]) \in SockType
        BY <1>1 DEF ShutdownAsks, SockType, Bit
    <2>2. sock' = [sock EXCEPT ![x] = ShutdownAsks(sock[x])]
        BY <1>1, <1>5 DEF FreeRTOS_shutdown, ShutdownAsks
    <2> QED BY <1>5, <2>1, <2>2 DEF FreeRTOS_shutdown
<1>6. CASE FreeRTOS_closesocket(x)
    <2>1. Gone \in SockType
        BY NewTyped DEF Gone
    <2> QED BY <1>6, <2>1 DEF FreeRTOS_closesocket, Gone
<1> QED
    BY <1>2, <1>3, <1>4, <1>5, <1>6 DEF User

LEMMA UserTyped ==
    ASSUME TypeInv, NEW x \in Socket, User(x)
    PROVE  TypeInv'
<1>1. PICK u \in SockType :
         /\ sock' = [sock EXCEPT ![x] = u] /\ UNCHANGED <<net, listens, log>>
         /\ \/ toSend' = toSend
            \/ \E n \in Nat : toSend' = [toSend EXCEPT ![x] = @ - n] /\ n <= toSend[x]
    BY UserCases
<1>2. sock' \in [Socket -> SockType]
    BY <1>1 DEF TypeInv
<1>3. toSend' \in [Socket -> Nat]
    <2>1. CASE toSend' = toSend
        BY <2>1 DEF TypeInv
    <2>2. ASSUME NEW n \in Nat, toSend' = [toSend EXCEPT ![x] = @ - n], n <= toSend[x]
          PROVE  toSend' \in [Socket -> Nat]
        <3>1. toSend[x] \in Nat /\ toSend[x] - n \in Nat
            BY <2>2 DEF TypeInv
        <3> QED BY <2>2, <3>1 DEF TypeInv
    <2> QED BY <1>1, <2>1, <2>2
<1> QED
    BY <1>1, <1>2, <1>3 DEF TypeInv

LEMMA StepTyped ==
    ASSUME TypeInv, [Next]_vars
    PROVE  TypeInv'
<1>1. CASE Next
    <2>1. PICK x \in Socket :
              \/ Receive(x)
              \/ \E resend, old, resolved : Timer(x, resend, old, resolved)
              \/ User(x)
        BY <1>1, NextCases
    <2>2. CASE Receive(x)
        BY <2>2, ReceiveParts, ReceiveTyped
    <2>3. CASE \E resend, old, resolved : Timer(x, resend, old, resolved)
        BY <2>3, TimerTyped
    <2>4. CASE User(x)
        BY <2>4, UserTyped
    <2> QED BY <2>1, <2>2, <2>3, <2>4
<1>2. CASE UNCHANGED vars
    BY <1>2 DEF vars, TypeInv
<1> QED
    BY <1>1, <1>2

LEMMA StartsTyped == Init => TypeInv
<1> SUFFICES ASSUME Init PROVE TypeInv
    OBVIOUS
<1>1. sock \in [Socket -> SockType]
    BY NewTyped DEF Init
<1>2. net \in [Socket -> Packets] /\ \A x \in Socket : Cardinality(net[x]) <= MaxNet(x)
    BY PacketsFacts, FS_EmptySet, ConnectionAssumption DEF Init, MaxNet
<1>3. listens \in 0 .. MaxListens /\ toSend \in [Socket -> Nat]
    BY ConnectionAssumption DEF Init
<1>4. log \in [Socket -> LogType]
    BY DEF Init, LogType
<1> QED
    BY <1>1, <1>2, <1>3, <1>4 DEF TypeInv

LEMMA AlwaysTyped == Spec => []TypeInv
BY StartsTyped, StepTyped, PTL DEF Spec

\* The data of both sockets and the packets on the way have their types in every
\* reachable state, for any amount of data, any number of packets and of connections
\* one after the other, and whatever users close or ask to be closed after sending.
THEOREM ConnTyped == Spec => []TypeOK
<1>1. TypeInv => TypeOK
    <2> SUFFICES ASSUME TypeInv, NEW x \in Socket
                 PROVE  LET s == sock[x]
                        IN  /\ s.state \in State /\ s.bits \subseteq Bit /\ s.ucRepCount \in 0 .. 3
                            /\ {s.first, s.una, s.nxt, s.next, s.our, s.txfin, s.todo,
                                s.rxfirst, s.rx, s.rxhigh, s.rxfin} \subseteq Nat
                            /\ s.segs \cup s.stored \cup s.got \subseteq Nat
                            /\ {s.txStream, s.ack} \subseteq BOOLEAN
                            /\ net[x] \subseteq Packet /\ Cardinality(net[x]) <= MaxNet(x)
        BY DEF TypeOK, TypeInv
    <2>1. sock[x] \in SockType
        BY DEF TypeInv
    <2>2. net[x] \subseteq Packet /\ Cardinality(net[x]) <= MaxNet(x)
        BY DEF TypeInv, Packets
    <2>3. {sock[x].txStream, sock[x].ack} \subseteq BOOLEAN
        BY <2>1 DEF SockType
    <2> QED BY <2>1, <2>2, <2>3 DEF SockType, FinNat
<1> QED
    BY <1>1, AlwaysTyped, PTL

-----------------------------------------------------------------------------
(***************************************************************************)
(* One connection: B answers one SYN.  The segments of x begin at every      *)
(* second number after its initial one.                                     *)
(***************************************************************************)
\* The initial sequence numbers of the connection.
Number(x) == IF x = "A" THEN IssA ELSE IssB(1)

\* A segment of x may begin at q.
Begins(x, q) == q \in Nat /\ q > Number(x) /\ (q - Number(x) - 1) % SegLen = 0

\* The segments of x that end at or before n.
Upto(x, n) == Positions(Number(x) + 1, n)

\* n does not follow the FIN of x, unless this is one of F.
Follows(x, n, F) == Begins(x, n - 1) => n - 1 \in F

LEMMA NumberTyped == ASSUME NEW x \in Socket PROVE Number(x) \in Nat
BY DEF Number, IssA, IssB, Socket

LEMMA BeginFacts ==
    ASSUME NEW x \in Socket, NEW q, Begins(x, q)
    PROVE  /\ q \in Nat /\ q > Number(x)
           /\ Begins(x, q + SegLen) /\ ~Begins(x, q - 1) /\ ~Begins(x, q + 1)
           /\ \A r : Begins(x, r) /\ r < q => r + SegLen <= q
           /\ \A r : Begins(x, r) /\ r > q => r >= q + SegLen
BY NumberTyped DEF Begins, SegLen

LEMMA NoBegins ==
    ASSUME NEW x \in Socket, NEW n \in Int, n <= Number(x)
    PROVE  ~Begins(x, n) /\ ~Begins(x, n - 1)
BY NumberTyped DEF Begins

LEMMA FirstBegins ==
    ASSUME NEW x \in Socket
    PROVE  Begins(x, Number(x) + 1)
BY NumberTyped DEF Begins, SegLen

LEMMA EvenSteps ==
    ASSUME NEW x \in Socket, NEW a \in Nat, NEW k \in Nat, Begins(x, a + SegLen * k)
    PROVE  ~Begins(x, a - 1)
BY NumberTyped DEF Begins, SegLen

LEMMA BeginsAhead ==
    ASSUME NEW x \in Socket, NEW a, NEW k \in Nat, Begins(x, a)
    PROVE  Begins(x, a + SegLen * k)
BY NumberTyped DEF Begins, SegLen

LEMMA UptoElements ==
    ASSUME NEW x \in Socket, NEW n \in Int
    PROVE  \A q : q \in Upto(x, n) <=> Begins(x, q) /\ q + SegLen <= n
BY NumberTyped DEF Upto, Positions, Begins, SegLen

LEMMA UptoFacts ==
    ASSUME NEW x \in Socket, NEW n \in Int
    PROVE  /\ \A m \in Int : m <= n => Upto(x, m) \subseteq Upto(x, n)
           /\ n <= Number(x) + SegLen => Upto(x, n) = {}
           /\ Begins(x, n) => Upto(x, n + 1) = Upto(x, n)
<1>1. \A m \in Int : m <= n => Upto(x, m) \subseteq Upto(x, n)
    <2>1. SUFFICES ASSUME NEW m \in Int, m <= n, NEW q \in Upto(x, m) PROVE q \in Upto(x, n)
        OBVIOUS
    <2>2. Begins(x, q) /\ q + SegLen <= m /\ q \in Nat
        BY UptoElements, BeginFacts
    <2> QED BY <2>1, <2>2, UptoElements DEF SegLen
<1>2. ASSUME n <= Number(x) + SegLen, NEW q \in Upto(x, n) PROVE FALSE
    <2>1. Begins(x, q) /\ q + SegLen <= n /\ q \in Nat /\ q > Number(x)
        BY UptoElements, BeginFacts
    <2> QED BY <1>2, <2>1, NumberTyped DEF SegLen
<1>3. ASSUME Begins(x, n) PROVE Upto(x, n + 1) = Upto(x, n)
    <2>1. n \in Nat
        BY <1>3, BeginFacts
    <2>2. ASSUME NEW q \in Upto(x, n + 1) PROVE q \in Upto(x, n)
        <3>1. Begins(x, q) /\ q + SegLen <= n + 1 /\ q \in Nat
            BY <2>1, UptoElements, BeginFacts
        <3>2. q < n
            BY <2>1, <3>1 DEF SegLen
        <3>3. q + SegLen <= n
            BY <1>3, <3>1, <3>2, BeginFacts
        <3> QED BY <3>1, <3>3, UptoElements
    <2>3. Upto(x, n) \subseteq Upto(x, n + 1)
        <3>1. ASSUME NEW q \in Upto(x, n) PROVE q \in Upto(x, n + 1)
            <4>1. Begins(x, q) /\ q + SegLen <= n /\ q \in Nat
                BY UptoElements, BeginFacts
            <4>2. q + SegLen <= n + 1 /\ n + 1 \in Int
                BY <2>1, <4>1 DEF SegLen
            <4> QED BY <4>1, <4>2, UptoElements
        <3> QED BY <3>1
    <2> QED BY <2>2, <2>3
<1> QED
    BY <1>1, <1>2, <1>3

LEMMA EvenGap ==
    ASSUME NEW d \in Nat, d % SegLen = 0, d > 0
    PROVE  \E k \in Nat : k >= 1 /\ d = SegLen * k
<1>1. d \div 2 \in Nat /\ d = 2 * (d \div 2) /\ d \div 2 >= 1
    BY DEF SegLen
<1> QED
    BY <1>1 DEF SegLen

\* The stored segments that follow rx are consecutive ones, so that with the
\* expected segment everything up to the new rx is there.
LEMMA RunIsConsecutive ==
    ASSUME NEW s \in SockType, NEW y \in Socket, Begins(y, s.rx), \A q \in s.stored : Begins(y, q)
    PROVE  LET n == s.rx + SegLen * (1 + Cardinality(Run(s)))
           IN  /\ Begins(y, n)
               /\ Upto(y, n) \subseteq Upto(y, s.rx) \cup {s.rx} \cup Run(s)
<1> DEFINE M == {i \in Nat : i >= 1 /\ s.rx + SegLen * i \notin s.stored}
<1>1. s.rx \in Nat /\ s.stored \in SUBSET Nat /\ IsFiniteSet(s.stored)
    BY DEF SockType, FinNat
<1>2. M # {}
    <2>1. PICK b \in Nat : \A q \in s.stored : q <= b
        BY <1>1, FiniteBounded
    <2>2. b + 1 \in M
        <3>1. b + 1 \in Nat /\ b + 1 >= 1 /\ s.rx + SegLen * (b + 1) > b
            BY <1>1 DEF SegLen
        <3> QED BY <1>1, <2>1, <3>1
    <2> QED BY <2>2
<1>3. PICK m \in M : \A i \in M : m <= i
    <2>1. M \in SUBSET Nat
        OBVIOUS
    <2> HIDE DEF M
    <2> QED BY <1>2, <2>1, LeastNumber
<1>4. m \in Nat /\ m >= 1 /\ s.rx + SegLen * m \notin s.stored
    OBVIOUS
<1>5. \A i \in Nat : i >= 1 /\ i < m => s.rx + SegLen * i \in s.stored
    BY <1>3, <1>4
<1>6. \A q : Begins(y, q) /\ q > s.rx => \E j \in Nat : j >= 1 /\ q = s.rx + SegLen * j
    <2>1. SUFFICES ASSUME NEW q, Begins(y, q), q > s.rx
                   PROVE  \E j \in Nat : j >= 1 /\ q = s.rx + SegLen * j
        OBVIOUS
    <2>2. q - s.rx \in Nat /\ (q - s.rx) % SegLen = 0 /\ q - s.rx > 0 /\ q \in Nat
        BY <1>1, <2>1, NumberTyped DEF Begins, SegLen
    <2>3. PICK k \in Nat : k >= 1 /\ q - s.rx = SegLen * k
        BY <2>2, EvenGap
    <2> QED BY <1>1, <2>2, <2>3 DEF SegLen
<1> HIDE DEF M
<1>7. ASSUME NEW j \in Nat, j >= 1, j < m PROVE s.rx + SegLen * j \in Run(s)
    <2>1. s.rx + SegLen * j \in s.stored /\ s.rx + SegLen * j > s.rx
        BY <1>1, <1>5, <1>7 DEF SegLen
    <2>2. ASSUME NEW r \in s.rx + SegLen .. (s.rx + SegLen * j) - 1, (r - s.rx) % SegLen = 0
          PROVE  r \in s.stored
        <3>1. \E k \in Nat : k >= 1 /\ k < j /\ r = s.rx + SegLen * k
            <4>1. r - s.rx \in Nat /\ r - s.rx > 0
                BY <1>1, <2>2 DEF SegLen
            <4>2. PICK k \in Nat : k >= 1 /\ r - s.rx = SegLen * k
                BY <2>2, <4>1, EvenGap
            <4> QED BY <1>1, <2>2, <4>2 DEF SegLen
        <3> QED BY <1>4, <1>5, <1>7, <3>1
    <2> QED BY <2>1, <2>2 DEF Run
<1>8. ASSUME NEW q \in Run(s) PROVE \E j \in Nat : j >= 1 /\ j < m /\ q = s.rx + SegLen * j
    <2>1. q \in s.stored /\ q > s.rx /\ q \in Nat
        BY <1>1 DEF Run
    <2>2. PICK j \in Nat : j >= 1 /\ q = s.rx + SegLen * j
        BY <1>6, <2>1
    <2>3. j # m
        BY <1>4, <2>1, <2>2
    <2>4. ~(m < j)
        <3>1. SUFFICES ASSUME m < j PROVE FALSE
            OBVIOUS
        <3>2. s.rx + SegLen * m \in s.rx + SegLen .. q - 1
            BY <1>1, <1>4, <2>2, <3>1 DEF SegLen
        <3>3. ((s.rx + SegLen * m) - s.rx) % SegLen = 0
            BY <1>1, <1>4 DEF SegLen
        <3>4. s.rx + SegLen * m \in s.stored
            BY <3>2, <3>3 DEF Run
        <3> QED BY <1>4, <3>4
    <2>5. j < m
        BY <1>4, <2>3, <2>4
    <2> QED BY <2>2, <2>5
<1>9. Run(s) = Spaced(s.rx + SegLen, m - 1)
    <2>1. ASSUME NEW q \in Run(s) PROVE q \in Spaced(s.rx + SegLen, m - 1)
        <3>1. PICK j \in Nat : j >= 1 /\ j < m /\ q = s.rx + SegLen * j
            BY <1>8
        <3>2. j - 1 \in 0 .. (m - 1) - 1 /\ q = s.rx + SegLen + SegLen * (j - 1)
            BY <1>1, <1>4, <3>1 DEF SegLen
        <3> QED BY <3>2 DEF Spaced
    <2>2. ASSUME NEW q \in Spaced(s.rx + SegLen, m - 1) PROVE q \in Run(s)
        <3>1. PICK i \in 0 .. (m - 1) - 1 : q = s.rx + SegLen + SegLen * i
            BY DEF Spaced
        <3>2. i + 1 \in Nat /\ i + 1 >= 1 /\ i + 1 < m /\ q = s.rx + SegLen * (i + 1)
            BY <1>1, <1>4, <3>1 DEF SegLen
        <3> QED BY <1>7, <3>2
    <2> QED BY <2>1, <2>2
<1>10. Cardinality(Run(s)) = m - 1
    <2>1. s.rx + SegLen \in Nat /\ m - 1 \in Nat
        BY <1>1, <1>4 DEF SegLen
    <2> QED BY <1>9, <2>1, SpacedSet
<1>11. s.rx + SegLen * (1 + Cardinality(Run(s))) = s.rx + SegLen * m
    BY <1>1, <1>4, <1>10 DEF SegLen
<1>12. Begins(y, s.rx + SegLen * m)
    BY <1>4, BeginsAhead
<1>13. ASSUME NEW q \in Upto(y, s.rx + SegLen * m)
       PROVE  q \in Upto(y, s.rx) \cup {s.rx} \cup Run(s)
    <2>1. Begins(y, q) /\ q + SegLen <= s.rx + SegLen * m /\ q \in Nat
        <3>1. s.rx + SegLen * m \in Int
            BY <1>1, <1>4 DEF SegLen
        <3> QED BY <3>1, UptoElements, BeginFacts
    <2>2. CASE q < s.rx
        <3>1. q + SegLen <= s.rx
            BY <1>1, <2>1, <2>2, BeginFacts
        <3> QED BY <1>1, <2>1, <3>1, UptoElements
    <2>3. CASE q > s.rx
        <3>1. PICK j \in Nat : j >= 1 /\ q = s.rx + SegLen * j
            BY <1>6, <2>1, <2>3
        <3>2. j < m
            BY <1>1, <1>4, <2>1, <3>1 DEF SegLen
        <3> QED BY <1>7, <3>1, <3>2
    <2> QED BY <1>1, <2>1, <2>2, <2>3
<1> QED
    BY <1>11, <1>12, <1>13

-----------------------------------------------------------------------------
(***************************************************************************)
(* A socket of the connection.  D and E are the segments and the FINs that   *)
(* x has taken from its peer, G and F those that the peer has taken from x.  *)
(***************************************************************************)
FinBits == {"bFinSent", "bFinAcked", "bFinRecv", "bFinAccepted", "bFinLast", "bCloseRequested",
            "bUserShutdown"}

\* What left the window was received, and so was all when there is a FIN.
Sender(x, s, G, F) ==
    /\ Begins(x, s.next) /\ \A q \in s.segs : Begins(x, q) /\ q < s.next
    /\ Upto(x, s.next) \ s.segs \subseteq G
    /\ s.nxt = Number(x) \/ Begins(x, s.nxt)
    /\ Follows(x, s.our, F) /\ Follows(x, s.una, F)
    /\ "bFinSent" \notin s.bits => s.una + SegLen * Cardinality(s.segs) = s.next
    /\ "bFinSent" \in s.bits => s.segs = {} /\ s.todo = 0 /\ Begins(x, s.txfin) /\ s.txfin <= s.next
    /\ "bFinAcked" \in s.bits => "bFinSent" \in s.bits /\ s.txfin \in F
    /\ "bCloseRequested" \notin s.bits

\* What is confirmed was taken.
Receiver(x, s, D, E) ==
    /\ \A q \in s.stored : Begins(Peer(x), q)
    /\ Upto(Peer(x), s.rx) \subseteq D /\ s.got \subseteq D /\ Follows(Peer(x), s.rx, E)
    /\ "bFinRecv" \in s.bits => Begins(Peer(x), s.rxfin) /\ Upto(Peer(x), s.rxfin) \subseteq D

Phase(x, s) ==
    /\ s.first = Number(x) /\ s.rxfirst = Number(Peer(x))
    /\ x = "A" => "bConnPrepared" \in s.bits
    /\ s.state \in {"eCLOSED", "eSYN_RECEIVED", "eESTABLISHED", "eFIN_WAIT_1", "eLAST_ACK",
                    "eCLOSE_WAIT"}
    /\ s.state = "eSYN_RECEIVED" =>
          /\ x = "B" /\ s.segs = {} /\ s.stored = {} /\ s.todo = 0 /\ s.rx = Number(Peer(x)) + 1
          /\ s.bits \cap FinBits = {} /\ s.una = s.first + 1
          /\ s.our = s.first /\ s.nxt = s.first
    /\ s.state = "eESTABLISHED" => "bFinSent" \notin s.bits /\ "bFinAccepted" \notin s.bits
    /\ s.state \in {"eFIN_WAIT_1", "eLAST_ACK", "eCLOSE_WAIT"} => "bFinSent" \in s.bits

Conn(x, s, D, E, G, F) == Phase(x, s) /\ Sender(x, s, G, F) /\ Receiver(x, s, D, E)

\* A packet that x sends.
Outgoing(x, p, D, E, G, F) ==
    "RST" \notin p.flags =>
        /\ p.len > 0 => Begins(x, p.seq)
        /\ "FIN" \in p.flags => Begins(x, p.seq + p.len) /\ Upto(x, p.seq + p.len) \subseteq G
        /\ Upto(Peer(x), p.ack) \subseteq D /\ Follows(Peer(x), p.ack, E)
        /\ Follows(x, p.seq, F)
        /\ "SYN" \in p.flags => /\ p.seq = Number(x) /\ p.len = 0
                                /\ p.flags = IF x = "A" THEN {"SYN"} ELSE {"SYN", "ACK"}

SameState(s, t) ==
    t.state = s.state /\ t.bits = s.bits /\ t.first = s.first /\ t.rxfirst = s.rxfirst

SameRx(s, t) == t.stored = s.stored /\ t.rx = s.rx /\ t.got = s.got /\ t.rxfin = s.rxfin

\* More may have been taken meanwhile.
LEMMA TakenMore ==
    ASSUME NEW x, NEW D, NEW E, NEW G, NEW F, NEW D1, NEW E1, NEW G1, NEW F1,
           D \subseteq D1, E \subseteq E1, G \subseteq G1, F \subseteq F1
    PROVE  /\ \A s : Conn(x, s, D, E, G, F) => Conn(x, s, D1, E1, G1, F1)
           /\ \A p : Outgoing(x, p, D, E, G, F) => Outgoing(x, p, D1, E1, G1, F1)
BY DEF Conn, Sender, Receiver, Outgoing, Follows

LEMMA AckKeeps ==
    ASSUME NEW s \in SockType, NEW x \in Socket, NEW G, NEW F, NEW ack \in Nat,
           Sender(x, s, G, F), Upto(x, ack) \subseteq G
    PROVE  LET t == ulTCPWindowTxAck(s, ack)
           IN  /\ Sender(x, t, G, F) /\ SameState(s, t) /\ SameRx(s, t)
               /\ t.our = s.our /\ t.nxt = s.nxt /\ t.todo = s.todo /\ t.ack = s.ack
<1> DEFINE last  == IF s.txfin = s.nxt THEN s.nxt + 1 ELSE s.nxt
           acked == IF s.una \in s.segs /\ ack > s.una /\ ack <= last
                    THEN {q \in s.segs : q >= s.una /\ q < s.nxt /\ q + SegLen <= ack} ELSE {}
           t == ulTCPWindowTxAck(s, ack)
           c == Cardinality(acked)
<1>1. acked \subseteq s.segs /\ s.segs \in FinNat /\ s.una \in Nat /\ s.next \in Nat
    BY DEF SockType
<1>2. \A q \in acked : q + SegLen <= ack
    OBVIOUS
<1>3. t = [s EXCEPT !.segs = s.segs \ acked, !.una = s.una + SegLen * c]
    BY DEF ulTCPWindowTxAck
<1> HIDE DEF acked, t
<1>4. acked \in FinNat /\ c \in Nat
    BY <1>1, FinNatFacts
<1> HIDE DEF c
<1>5. /\ t.segs = s.segs \ acked /\ t.una = s.una + SegLen * c
      /\ SameState(s, t) /\ SameRx(s, t) /\ t.next = s.next /\ t.our = s.our /\ t.nxt = s.nxt
      /\ t.txfin = s.txfin /\ t.todo = s.todo /\ t.ack = s.ack
    BY <1>3 DEF SockType, SameState, SameRx
<1>6. Upto(x, t.next) \ t.segs \subseteq G
    <2>1. ASSUME NEW q \in acked PROVE q \in G
        <3>1. Begins(x, q) /\ q + SegLen <= ack
            BY <1>1, <1>2 DEF Sender
        <3> QED BY <3>1, UptoElements
    <2> QED BY <1>1, <1>5, <2>1 DEF Sender
<1>7. ASSUME "bFinSent" \in s.bits PROVE Sender(x, t, G, F)
    <2>1. acked = {} /\ c = 0
        BY <1>1, <1>7, FS_EmptySet DEF Sender, c
    <2>2. t.una = s.una /\ t.segs = s.segs
        BY <1>1, <1>5, <2>1 DEF SegLen
    <2> QED BY <1>5, <1>6, <2>2 DEF Sender, SameState
<1>8. ASSUME "bFinSent" \notin s.bits PROVE Sender(x, t, G, F)
    <2>1. Cardinality(t.segs) = Cardinality(s.segs) - c /\ Cardinality(s.segs) \in Nat
        <3>1. IsFiniteSet(s.segs) /\ s.segs \cap acked = acked
            BY <1>1 DEF FinNat
        <3>2. Cardinality(s.segs \ acked) = Cardinality(s.segs) - Cardinality(s.segs \cap acked)
            BY <3>1, FS_Difference
        <3> QED BY <1>1, <1>5, <3>1, <3>2, FinNatFacts DEF c
    <2>2. s.una + SegLen * Cardinality(s.segs) = s.next
        BY <1>8 DEF Sender
    <2>3. t.una + SegLen * Cardinality(t.segs) = t.next
        BY <1>1, <1>4, <1>5, <2>1, <2>2 DEF SegLen
    <2>4. t.una \in Nat /\ Cardinality(t.segs) \in Nat
        <3>1. t.segs \in FinNat
            BY <1>1, <1>5, FinNatFacts
        <3> QED BY <1>1, <1>4, <1>5, <3>1, FinNatFacts DEF SegLen
    <2>5. Begins(x, t.next)
        BY <1>5 DEF Sender
    <2>6. Follows(x, t.una, F)
        BY <2>3, <2>4, <2>5, EvenSteps DEF Follows
    <2> QED BY <1>5, <1>6, <1>8, <2>3, <2>6 DEF Sender, SameState
<1> QED
    BY <1>5, <1>7, <1>8 DEF t

LEMMA AddKeeps ==
    ASSUME NEW s \in SockType, NEW x \in Socket, NEW G, NEW F, Sender(x, s, G, F)
    PROVE  LET t == prvTCPAddTxData(s)
           IN  /\ Sender(x, t, G, F) /\ SameState(s, t) /\ SameRx(s, t)
               /\ t.our = s.our /\ t.nxt = s.nxt /\ t.todo = 0 /\ t.ack = s.ack /\ t.una = s.una
               /\ s.todo = 0 => t.segs = s.segs
<1> DEFINE t == prvTCPAddTxData(s)
           new == Spaced(s.next, s.todo)
<1>1. s.segs \in FinNat /\ s.una \in Nat /\ s.next \in Nat /\ s.todo \in Nat
    BY DEF SockType
<1>2. t = [s EXCEPT !.segs = s.segs \cup new, !.next = s.next + SegLen * s.todo, !.todo = 0]
    BY DEF prvTCPAddTxData, Spaced
<1> HIDE DEF t
<1>3. /\ t.segs = s.segs \cup new /\ t.next = s.next + SegLen * s.todo /\ t.todo = 0
      /\ SameState(s, t) /\ SameRx(s, t) /\ t.una = s.una /\ t.our = s.our /\ t.nxt = s.nxt
      /\ t.txfin = s.txfin /\ t.ack = s.ack
    BY <1>2 DEF SockType, SameState, SameRx
<1>4. s.todo = 0 => new = {} /\ t.segs = s.segs /\ t.next = s.next
    BY <1>1, <1>3 DEF Spaced, SegLen
<1>5. CASE s.todo = 0
    <2>1. Sender(x, t, G, F)
        BY <1>3, <1>4, <1>5 DEF Sender, SameState
    <2> QED BY <1>3, <1>4, <2>1 DEF t
<1>6. CASE s.todo # 0
    <2>1. "bFinSent" \notin s.bits
        BY <1>6 DEF Sender
    <2>2. Begins(x, s.next) /\ Begins(x, t.next) /\ t.next >= s.next
        BY <1>1, <1>3, BeginsAhead DEF Sender, SegLen
    <2>3. ASSUME NEW q \in new PROVE Begins(x, q) /\ q < t.next /\ q >= s.next
        <3>1. PICK i \in 0 .. s.todo - 1 : q = s.next + SegLen * i
            BY DEF Spaced
        <3>2. i \in Nat /\ q < s.next + SegLen * s.todo /\ q >= s.next
            BY <1>1, <3>1 DEF SegLen
        <3> QED BY <1>3, <2>2, <3>1, <3>2, BeginsAhead
    <2>4. \A q \in t.segs : Begins(x, q) /\ q < t.next
        <3>1. ASSUME NEW q \in s.segs PROVE Begins(x, q) /\ q < t.next
            <4>1. Begins(x, q) /\ q < s.next /\ q \in Nat
                BY BeginFacts DEF Sender
            <4>2. t.next \in Nat
                BY <2>2, BeginFacts
            <4> QED BY <1>1, <2>2, <4>1, <4>2
        <3> QED BY <1>3, <2>3, <3>1
    <2>5. ASSUME NEW q \in Upto(x, t.next), q \notin t.segs PROVE q \in G
        <3>1. Begins(x, q) /\ q + SegLen <= t.next /\ q \in Nat
            <4>1. t.next \in Int
                BY <2>2, BeginFacts
            <4>2. Begins(x, q) /\ q + SegLen <= t.next
                BY <4>1, UptoElements
            <4> QED BY <4>2, BeginFacts
        <3>2. CASE q < s.next
            <4>1. q + SegLen <= s.next
                BY <2>2, <3>1, <3>2, BeginFacts
            <4>2. q \in Upto(x, s.next)
                BY <1>1, <3>1, <4>1, UptoElements
            <4> QED BY <1>3, <2>5, <4>2 DEF Sender
        <3>3. CASE q >= s.next
            <4>1. q - s.next \in Nat /\ (q - s.next) % SegLen = 0
                BY <1>1, <2>2, <3>1, <3>3, NumberTyped DEF Begins, SegLen
            <4>2. PICK k \in Nat : q = s.next + SegLen * k
                <5>1. CASE q = s.next
                    <6>1. q = s.next + SegLen * 0 /\ 0 \in Nat
                        BY <1>1, <5>1 DEF SegLen
                    <6> QED BY <6>1
                <5>2. CASE q > s.next
                    <6>1. q - s.next > 0
                        BY <1>1, <3>1, <5>2
                    <6>2. PICK k \in Nat : k >= 1 /\ q - s.next = SegLen * k
                        BY <4>1, <6>1, EvenGap
                    <6> QED BY <1>1, <3>1, <6>2 DEF SegLen
                <5> QED BY <1>1, <3>1, <3>3, <5>1, <5>2
            <4>3. k \in 0 .. s.todo - 1
                BY <1>1, <1>3, <3>1, <4>2 DEF SegLen
            <4> QED BY <1>3, <2>5, <4>2, <4>3 DEF Spaced
        <3> QED BY <1>1, <3>1, <3>2, <3>3
    <2>6. Cardinality(t.segs) = Cardinality(s.segs) + s.todo /\ Cardinality(s.segs) \in Nat
        <3>1. IsFiniteSet(s.segs) /\ IsFiniteSet(new) /\ Cardinality(new) = s.todo
            BY <1>1, SpacedSet DEF FinNat
        <3>2. s.segs \cap new = {}
            <4>1. ASSUME NEW q \in s.segs, q \in new PROVE FALSE
                <5>1. q >= s.next /\ q < s.next /\ q \in Nat
                    BY <2>3, <4>1, BeginFacts DEF Sender
                <5> QED BY <1>1, <5>1
            <4> QED BY <4>1
        <3>3. Cardinality(s.segs \cup new) =
                  Cardinality(s.segs) + Cardinality(new) - Cardinality(s.segs \cap new)
            BY <3>1, FS_Union
        <3>4. Cardinality(s.segs \cap new) = 0 /\ Cardinality(s.segs) \in Nat
            BY <1>1, <3>2, FS_EmptySet, FinNatFacts
        <3> QED BY <1>1, <1>3, <3>1, <3>3, <3>4
    <2>7. s.una + SegLen * Cardinality(s.segs) = s.next
        BY <2>1 DEF Sender
    <2>8. t.una + SegLen * Cardinality(t.segs) = t.next
        BY <1>1, <1>3, <2>6, <2>7 DEF SegLen
    <2>9. Sender(x, t, G, F)
        BY <1>3, <2>1, <2>2, <2>4, <2>5, <2>8 DEF Sender, SameState
    <2> QED BY <1>3, <1>6, <2>9 DEF t
<1> QED
    BY <1>5, <1>6

LEMMA NotedKeeps ==
    ASSUME NEW s \in SockType, NEW p \in Packet, NEW x \in Socket, NEW G, NEW F,
           Sender(x, s, G, F), Upto(x, p.ack) \subseteq G
    PROVE  LET b == Noted(s, p)
           IN  /\ Sender(x, b, G, F) /\ SameState(s, b) /\ SameRx(s, b)
               /\ b.todo = 0 /\ b.ack = s.ack
<1> DEFINE t == ulTCPWindowTxAck(s, p.ack)
           a == prvTCPAddTxData(t)
           b == Noted(s, p)
<1>1. p.ack \in Nat
    BY DEF Packet
<1>2. t \in SockType
    BY <1>1, AckTyped
<1>3. Sender(x, t, G, F) /\ SameState(s, t) /\ SameRx(s, t) /\ t.ack = s.ack
    BY <1>1, AckKeeps
<1> HIDE DEF t
<1>4. a \in SockType
    BY <1>2, AddTyped
<1>5. Sender(x, a, G, F) /\ SameState(t, a) /\ SameRx(t, a) /\ a.todo = 0 /\ a.ack = t.ack
    BY <1>2, <1>3, AddKeeps
<1>6. b = [a EXCEPT !.our = a.una]
    BY DEF Noted, t
<1> HIDE DEF a, b
<1>7. /\ b.our = a.una /\ b.una = a.una /\ b.next = a.next /\ b.segs = a.segs /\ b.nxt = a.nxt
      /\ b.txfin = a.txfin /\ b.todo = a.todo /\ b.ack = a.ack /\ SameState(a, b) /\ SameRx(a, b)
    BY <1>4, <1>6 DEF SockType, SameState, SameRx
<1>8. Sender(x, b, G, F)
    BY <1>5, <1>7 DEF Sender, SameState
<1> QED
    BY <1>3, <1>5, <1>7, <1>8 DEF SameState, SameRx, b

\* What a socket of the connection may put in the flags of a packet without data.
MayFlag(x, s, flags) ==
    \/ flags = {"ACK"}
    \/ flags = {"ACK", "FIN"} /\ "bFinSent" \in s.bits
    \/ flags = {"SYN", "ACK"} /\ x = "B" /\ s.our = Number(x)

LEMMA AnswerKeeps ==
    ASSUME NEW s \in SockType, NEW x \in Socket, NEW D, NEW E, NEW G, NEW F,
           Sender(x, s, G, F), Receiver(x, s, D, E),
           NEW flags, MayFlag(x, s, flags), NEW options \in BOOLEAN
    PROVE  Outgoing(x, prvTCPReturnPacket(s, flags, 0, options), D, E, G, F)
<1> DEFINE p == prvTCPReturnPacket(s, flags, 0, options)
<1>1. s.our \in Nat /\ s.txfin \in Nat /\ s.next \in Nat
    BY DEF SockType
<1>2. p.seq = s.our /\ p.ack = s.rx /\ p.len = 0
    BY DEF prvTCPReturnPacket
<1>3. p.flags = flags \/ p.flags = flags \ {"FIN"}
    BY DEF prvTCPReturnPacket
<1>4. "FIN" \in p.flags => "FIN" \in flags /\ s.our + 0 = s.txfin
    BY DEF prvTCPReturnPacket
<1> HIDE DEF p
<1>5. ASSUME "FIN" \in p.flags
      PROVE  Begins(x, p.seq + p.len) /\ Upto(x, p.seq + p.len) \subseteq G
    <2>1. "bFinSent" \in s.bits /\ p.seq + p.len = s.txfin
        BY <1>1, <1>2, <1>4, <1>5 DEF MayFlag
    <2>2. Begins(x, s.txfin) /\ s.segs = {} /\ s.txfin <= s.next
        BY <2>1 DEF Sender
    <2>3. Upto(x, s.txfin) \subseteq Upto(x, s.next)
        BY <1>1, <2>2, UptoFacts
    <2> QED BY <2>1, <2>2, <2>3 DEF Sender
<1>6. "SYN" \in p.flags => /\ p.seq = Number(x) /\ p.len = 0
                           /\ p.flags = IF x = "A" THEN {"SYN"} ELSE {"SYN", "ACK"}
    BY <1>2, <1>3 DEF MayFlag
<1>7. Upto(Peer(x), p.ack) \subseteq D /\ Follows(Peer(x), p.ack, E) /\ Follows(x, p.seq, F)
    BY <1>2 DEF Sender, Receiver
<1>8. ~(p.len > 0)
    BY <1>2
<1>9. Outgoing(x, p, D, E, G, F)
    BY <1>5, <1>6, <1>7, <1>8 DEF Outgoing
<1> QED
    BY <1>9 DEF p

LEMMA CarriedKeeps ==
    ASSUME NEW t \in SockType, NEW x \in Socket, NEW D, NEW E, NEW G, NEW F,
           Receiver(x, t, D, E), NEW Q, \A q \in Q : Begins(x, q)
    PROVE  \A p \in Carried(t, {}, Q) : Outgoing(x, p, D, E, G, F)
<1> SUFFICES ASSUME NEW p \in Carried(t, {}, Q) PROVE Outgoing(x, p, D, E, G, F)
    OBVIOUS
<1>1. PICK q \in Q : p = prvTCPReturnPacket([t EXCEPT !.our = q],
         {"ACK", "PSH"} \cup (IF q \in {} THEN {"FIN"} ELSE {}), SegLen, FALSE)
    BY DEF Carried
<1>2. p.seq = q /\ p.ack = t.rx /\ p.len = SegLen /\ p.flags = {"ACK", "PSH"}
    BY <1>1 DEF prvTCPReturnPacket, SockType
<1>3. Begins(x, q) /\ Follows(x, q, F)
    BY BeginFacts DEF Follows
<1> QED
    BY <1>2, <1>3 DEF Outgoing, Receiver

SameReceiver(s, t) ==
    SameRx(s, t) /\ ("bFinRecv" \in t.bits <=> "bFinRecv" \in s.bits)

\* prvTCPSendRepeated, when nothing was asked to be closed after it.
SentTo(s, Q) ==
    [s EXCEPT !.nxt = High(s, Q), !.our = IF s.txStream THEN High(s, Q) ELSE @,
              !.bits = @ \ {"bWinChange"}]

ShutTo(s, Q) ==
    [SentTo(s, Q) EXCEPT !.bits = (@ \cup {"bFinSent"}) \ {"bUserShutdown"},
                         !.txfin = s.una, !.state = "eFIN_WAIT_1"]

LEMMA RepeatedCases ==
    ASSUME NEW s \in SockType, NEW Q \in SUBSET s.segs, "bCloseRequested" \notin s.bits
    PROVE  LET r == prvTCPSendRepeated(s, Q)
               t == SentTo(s, Q)
               u == ShutTo(s, Q)
           IN  \/ Q # {} /\ r = Result(t, Carried(t, {}, Q))
               \/ /\ Q = {} /\ ShutdownDue(s)
                  /\ r = Result(u, {prvTCPReturnPacket(u, {"ACK", "FIN"}, 0, FALSE)})
               \/ /\ Q = {} /\ "bWinChange" \in s.bits
                  /\ r = Result(t, {prvTCPReturnPacket(t, {"ACK"}, 0, FALSE)})
               \/ Q = {} /\ r = Result(t, {})
<1> DEFINE fin == {q \in Q : ClosesWith(s, q)}
           t == SentTo(s, Q)
           u == ShutTo(s, Q)
           t0 == [s EXCEPT !.nxt = High(s, Q),
                          !.our = IF s.txStream THEN High(s, Q) ELSE @,
                          !.txfin = IF fin = {} THEN @ ELSE s.next,
                          !.bits = (IF fin = {} THEN @ ELSE @ \cup {"bFinSent"}) \ {"bWinChange"}]
           u0 == [t0 EXCEPT !.bits = (@ \cup {"bFinSent"}) \ {"bUserShutdown"},
                             !.txfin = t0.una, !.state = "eFIN_WAIT_1"]
<1>1. fin = {}
    BY DEF ClosesWith
<1>2. prvTCPSendRepeated(s, Q) =
           CASE Q # {} -> Result(t0, Carried(t0, fin, Q))
          [] Q = {} /\ ShutdownDue(s) ->
               Result(u0, {prvTCPReturnPacket(u0, {"ACK", "FIN"}, 0, FALSE)})
          [] Q = {} /\ ~ShutdownDue(s) /\ "bWinChange" \in s.bits ->
               Result(t0, {prvTCPReturnPacket(t0, {"ACK"}, 0, FALSE)})
          [] OTHER -> Result(t0, {})
    BY DEF prvTCPSendRepeated, Carried, High
<1>3. t0 = t
    <2>1. ASSUME NEW h
          PROVE  [s EXCEPT !.nxt = h, !.our = IF s.txStream THEN h ELSE @,
                           !.txfin = s.txfin, !.bits = @ \ {"bWinChange"}] =
                 [s EXCEPT !.nxt = h, !.our = IF s.txStream THEN h ELSE @, !.bits = @ \ {"bWinChange"}]
        BY DEF SockType
    <2> QED BY <1>1, <2>1 DEF SentTo
<1>4. t.una = s.una
    BY DEF SentTo, SockType
<1>5. u0 = u
    BY <1>3, <1>4 DEF ShutTo
<1> HIDE DEF t0, u0, t, u, fin
<1>6. \/ Q # {} /\ prvTCPSendRepeated(s, Q) = Result(t, Carried(t, {}, Q))
      \/ /\ Q = {} /\ ShutdownDue(s)
         /\ prvTCPSendRepeated(s, Q) = Result(u, {prvTCPReturnPacket(u, {"ACK", "FIN"}, 0, FALSE)})
      \/ /\ Q = {} /\ "bWinChange" \in s.bits
         /\ prvTCPSendRepeated(s, Q) = Result(t, {prvTCPReturnPacket(t, {"ACK"}, 0, FALSE)})
      \/ Q = {} /\ prvTCPSendRepeated(s, Q) = Result(t, {})
    BY <1>1, <1>2, <1>3, <1>5
<1> QED
    BY <1>6 DEF t, u

\* Sending leaves what was received alone.
LEMMA SentFields ==
    ASSUME NEW s \in SockType, NEW Q \in SUBSET s.segs
    PROVE  LET t == SentTo(s, Q)
           IN  /\ t.nxt = High(s, Q) /\ t.our = (IF s.txStream THEN High(s, Q) ELSE s.our)
               /\ t.bits = s.bits \ {"bWinChange"} /\ t.state = s.state /\ t.first = s.first
               /\ t.rxfirst = s.rxfirst /\ t.segs = s.segs /\ t.todo = s.todo /\ t.next = s.next
               /\ t.una = s.una /\ t.txfin = s.txfin /\ t.ack = s.ack /\ SameRx(s, t)
<1>1. ASSUME NEW h
      PROVE  LET t == [s EXCEPT !.nxt = h, !.our = IF s.txStream THEN h ELSE @,
                                !.bits = @ \ {"bWinChange"}]
             IN  /\ t.nxt = h /\ t.our = (IF s.txStream THEN h ELSE s.our)
                 /\ t.bits = s.bits \ {"bWinChange"} /\ t.state = s.state /\ t.first = s.first
                 /\ t.rxfirst = s.rxfirst /\ t.segs = s.segs /\ t.todo = s.todo /\ t.next = s.next
                 /\ t.una = s.una /\ t.txfin = s.txfin /\ t.ack = s.ack
                 /\ t.stored = s.stored /\ t.rx = s.rx /\ t.got = s.got /\ t.rxfin = s.rxfin
    BY DEF SockType
<1> QED
    BY <1>1 DEF SentTo, SameRx

LEMMA ShutFields ==
    ASSUME NEW s \in SockType, NEW Q \in SUBSET s.segs
    PROVE  LET t == SentTo(s, Q)
               u == ShutTo(s, Q)
           IN  /\ u.bits = (t.bits \cup {"bFinSent"}) \ {"bUserShutdown"} /\ u.txfin = s.una
               /\ u.state = "eFIN_WAIT_1" /\ u.nxt = t.nxt /\ u.our = t.our /\ u.first = t.first
               /\ u.rxfirst = t.rxfirst /\ u.segs = t.segs /\ u.todo = t.todo /\ u.next = t.next
               /\ u.una = t.una /\ u.ack = t.ack /\ SameRx(t, u)
<1>1. ASSUME NEW t \in SockType
      PROVE  LET u == [t EXCEPT !.bits = (@ \cup {"bFinSent"}) \ {"bUserShutdown"},
                                !.txfin = s.una, !.state = "eFIN_WAIT_1"]
             IN  /\ u.bits = (t.bits \cup {"bFinSent"}) \ {"bUserShutdown"} /\ u.txfin = s.una
                 /\ u.state = "eFIN_WAIT_1" /\ u.nxt = t.nxt /\ u.our = t.our /\ u.first = t.first
                 /\ u.rxfirst = t.rxfirst /\ u.segs = t.segs /\ u.todo = t.todo /\ u.next = t.next
                 /\ u.una = t.una /\ u.ack = t.ack
                 /\ u.stored = t.stored /\ u.rx = t.rx /\ u.got = t.got /\ u.rxfin = t.rxfin
    BY DEF SockType
<1>2. SentTo(s, Q) \in SockType
    <2>1. ASSUME NEW h \in Nat
          PROVE  [s EXCEPT !.nxt = h, !.our = IF s.txStream THEN h ELSE @,
                           !.bits = @ \ {"bWinChange"}] \in SockType
        BY DEF SockType
    <2> QED BY <2>1, HighTyped DEF SentTo
<1> QED
    BY <1>1, <1>2 DEF ShutTo, SameRx

LEMMA RepeatedFrame ==
    ASSUME NEW s \in SockType, NEW Q \in SUBSET s.segs, "bCloseRequested" \notin s.bits
    PROVE  LET r == prvTCPSendRepeated(s, Q)
           IN  /\ SameReceiver(s, r.s) /\ r.s.ack = s.ack
               /\ s.state # "eESTABLISHED" => r.s.state = s.state
               /\ s.state = "eSYN_RECEIVED" /\ Q = {} /\ "bWinChange" \notin s.bits => r.out = {}
<1> DEFINE r == prvTCPSendRepeated(s, Q)
           t == SentTo(s, Q)
           u == ShutTo(s, Q)
<1>1. /\ r.s = t \/ (r.s = u /\ s.state = "eESTABLISHED")
      /\ s.state = "eSYN_RECEIVED" /\ Q = {} /\ "bWinChange" \notin s.bits => r.out = {}
    <2>1. ShutdownDue(s) => s.state = "eESTABLISHED"
        BY DEF ShutdownDue
    <2>2. \/ Q # {} /\ r = Result(t, Carried(t, {}, Q))
          \/ /\ Q = {} /\ ShutdownDue(s)
             /\ r = Result(u, {prvTCPReturnPacket(u, {"ACK", "FIN"}, 0, FALSE)})
          \/ /\ Q = {} /\ "bWinChange" \in s.bits
             /\ r = Result(t, {prvTCPReturnPacket(t, {"ACK"}, 0, FALSE)})
          \/ Q = {} /\ r = Result(t, {})
        BY RepeatedCases
    <2>3. \A v, w : Result(v, w).s = v /\ Result(v, w).out = w
        BY DEF Result
    <2> HIDE DEF r, t, u
    <2>4. r.s = t \/ (r.s = u /\ s.state = "eESTABLISHED")
        BY <2>1, <2>2, <2>3
    <2>5. s.state = "eSYN_RECEIVED" /\ Q = {} /\ "bWinChange" \notin s.bits => r.out = {}
        <3> SUFFICES ASSUME s.state = "eSYN_RECEIVED", Q = {}, "bWinChange" \notin s.bits
                     PROVE  r.out = {}
            OBVIOUS
        <3>1. r = Result(t, {})
            BY <2>1, <2>2
        <3> QED BY <2>3, <3>1
    <2> QED BY <2>4, <2>5
<1>2. SameRx(s, t) /\ t.ack = s.ack /\ t.state = s.state /\ t.bits = s.bits \ {"bWinChange"}
    BY SentFields
<1>3. SameRx(t, u) /\ u.ack = t.ack /\ u.bits = (t.bits \cup {"bFinSent"}) \ {"bUserShutdown"}
    BY ShutFields
<1> HIDE DEF r, t, u
<1>4. SameReceiver(s, t)
    BY <1>2 DEF SameReceiver
<1>5. SameReceiver(s, u) /\ u.ack = s.ack
    BY <1>2, <1>3 DEF SameReceiver, SameRx
<1>6. SameReceiver(s, r.s) /\ r.s.ack = s.ack
    BY <1>1, <1>2, <1>4, <1>5
<1>7. s.state # "eESTABLISHED" => r.s.state = s.state
    BY <1>1, <1>2
<1> QED
    BY <1>1, <1>6, <1>7 DEF r

LEMMA RepeatedKeeps ==
    ASSUME NEW s \in SockType, NEW x \in Socket, NEW D, NEW E, NEW G, NEW F,
           Conn(x, s, D, E, G, F), NEW Q \in SUBSET s.segs, ShutdownDue(s) => s.todo = 0
    PROVE  LET r == prvTCPSendRepeated(s, Q)
           IN  Conn(x, r.s, D, E, G, F) /\ \A p \in r.out : Outgoing(x, p, D, E, G, F)
<1> DEFINE r == prvTCPSendRepeated(s, Q)
           t == SentTo(s, Q)
           u == ShutTo(s, Q)
           h == High(s, Q)
<1>1. /\ t.nxt = h /\ t.our = (IF s.txStream THEN h ELSE s.our)
      /\ t.bits = s.bits \ {"bWinChange"} /\ t.state = s.state /\ t.first = s.first
      /\ t.rxfirst = s.rxfirst /\ t.segs = s.segs /\ t.todo = s.todo /\ t.next = s.next
      /\ t.una = s.una /\ t.txfin = s.txfin /\ t.ack = s.ack /\ SameRx(s, t)
    BY SentFields
<1>2. /\ u.bits = (t.bits \cup {"bFinSent"}) \ {"bUserShutdown"} /\ u.txfin = s.una
      /\ u.state = "eFIN_WAIT_1" /\ u.nxt = t.nxt /\ u.our = t.our /\ u.first = t.first
      /\ u.rxfirst = t.rxfirst /\ u.segs = t.segs /\ u.todo = t.todo /\ u.next = t.next
      /\ u.una = t.una /\ u.ack = t.ack /\ SameRx(t, u)
    BY ShutFields
<1>3. Sender(x, s, G, F) /\ Receiver(x, s, D, E) /\ Phase(x, s)
    BY DEF Conn
<1>4. h \in Nat /\ (h = s.nxt \/ \E q \in Q : h = q + SegLen)
    BY HighTyped
<1>5. h = Number(x) \/ Begins(x, h)
    BY <1>3, <1>4, BeginFacts DEF Sender
<1>6. Follows(x, h, F)
    BY <1>4, <1>5, BeginFacts, NoBegins, NumberTyped DEF Follows
<1>7. t \in SockType /\ u \in SockType
    <2>1. t \in SockType
        <3>1. ASSUME NEW k \in Nat
              PROVE  [s EXCEPT !.nxt = k, !.our = IF s.txStream THEN k ELSE @,
                               !.bits = @ \ {"bWinChange"}] \in SockType
            BY DEF SockType
        <3> QED BY <1>4, <3>1 DEF SentTo
    <2>2. s.una \in Nat
        BY DEF SockType
    <2>3. ASSUME NEW v \in SockType
          PROVE  [v EXCEPT !.bits = (@ \cup {"bFinSent"}) \ {"bUserShutdown"},
                           !.txfin = s.una, !.state = "eFIN_WAIT_1"] \in SockType
        BY <2>2 DEF SockType, Bit, State
    <2> QED BY <2>1, <2>3 DEF ShutTo
<1>8. \/ Q # {} /\ r = Result(t, Carried(t, {}, Q))
      \/ /\ Q = {} /\ ShutdownDue(s)
         /\ r = Result(u, {prvTCPReturnPacket(u, {"ACK", "FIN"}, 0, FALSE)})
      \/ Q = {} /\ r = Result(t, {prvTCPReturnPacket(t, {"ACK"}, 0, FALSE)})
      \/ Q = {} /\ r = Result(t, {})
    BY <1>3, RepeatedCases DEF Sender
<1>9. s.state = "eSYN_RECEIVED" => h = s.first
    BY <1>3, <1>4 DEF Phase
<1> HIDE DEF r, t, u, h
<1>10. Sender(x, t, G, F)
    BY <1>1, <1>3, <1>5, <1>6 DEF Sender
<1>11. Receiver(x, t, D, E)
    BY <1>1, <1>3 DEF Receiver, SameRx
<1>12. Phase(x, t)
    <2>1. t.bits \cap FinBits = s.bits \cap FinBits
        BY <1>1 DEF FinBits
    <2>2. s.state = "eSYN_RECEIVED" => t.nxt = s.first /\ t.our = s.first
        BY <1>1, <1>3, <1>9 DEF Phase
    <2> QED BY <1>1, <1>3, <2>1, <2>2 DEF Phase, SameRx
<1>13. CASE Q # {} /\ r = Result(t, Carried(t, {}, Q))
    <2>1. r.s = t /\ r.out = Carried(t, {}, Q)
        BY <1>13 DEF Result
    <2>2. \A q \in Q : Begins(x, q)
        BY <1>3 DEF Sender
    <2>3. \A p \in r.out : Outgoing(x, p, D, E, G, F)
        BY <1>7, <1>11, <2>1, <2>2, CarriedKeeps
    <2> QED BY <1>10, <1>11, <1>12, <2>1, <2>3 DEF r, Conn
<1>14. CASE Q = {} /\ ShutdownDue(s) /\ r = Result(u, {prvTCPReturnPacket(u, {"ACK", "FIN"}, 0, FALSE)})
    <2>1. r.s = u /\ r.out = {prvTCPReturnPacket(u, {"ACK", "FIN"}, 0, FALSE)}
        BY <1>14 DEF Result
    <2>2. s.state = "eESTABLISHED" /\ s.segs = {} /\ s.todo = 0 /\ "bFinSent" \notin s.bits
        BY <1>3, <1>14 DEF ShutdownDue, xTCPWindowTxDone, Phase
    <2>3. s.una = s.next
        <3>1. s.una + SegLen * Cardinality(s.segs) = s.next /\ Cardinality(s.segs) = 0
            BY <1>3, <2>2, FS_EmptySet DEF Sender
        <3>2. s.una \in Nat /\ s.next \in Nat
            BY DEF SockType
        <3> QED BY <3>1, <3>2 DEF SegLen
    <2>4. u.bits = (s.bits \cup {"bFinSent"}) \ {"bUserShutdown", "bWinChange"}
        BY <1>1, <1>2
    <2>5. /\ u.segs = {} /\ u.todo = 0 /\ u.txfin = s.next /\ u.next = s.next /\ u.una = s.una
          /\ u.nxt = h /\ u.our = t.our /\ u.first = s.first /\ u.rxfirst = s.rxfirst
          /\ SameRx(s, u)
        BY <1>1, <1>2, <2>2, <2>3 DEF SameRx
    <2>6. Begins(x, s.next) /\ s.next <= s.next /\ Upto(x, s.next) \ {} \subseteq G
        <3>1. s.next \in Nat
            BY DEF SockType
        <3> QED BY <1>3, <2>2, <3>1 DEF Sender
    <2>7. "bFinAcked" \notin u.bits /\ "bCloseRequested" \notin u.bits
        BY <1>3, <2>2, <2>4 DEF Sender
    <2>8. Follows(x, u.our, F) /\ Follows(x, u.una, F)
        BY <1>3, <1>10, <2>5 DEF Sender
    <2>9. Sender(x, u, G, F)
        BY <1>5, <2>4, <2>5, <2>6, <2>7, <2>8 DEF Sender
    <2>10. Receiver(x, u, D, E)
        BY <1>3, <2>4, <2>5 DEF Receiver, SameRx
    <2>11. Phase(x, u)
        BY <1>2, <1>3, <2>4, <2>5 DEF Phase
    <2>12. MayFlag(x, u, {"ACK", "FIN"})
        BY <2>4 DEF MayFlag
    <2>13. Outgoing(x, prvTCPReturnPacket(u, {"ACK", "FIN"}, 0, FALSE), D, E, G, F)
        BY <1>7, <2>9, <2>10, <2>12, AnswerKeeps
    <2>14. \A p \in r.out : Outgoing(x, p, D, E, G, F)
        BY <2>1, <2>13
    <2> QED BY <2>1, <2>9, <2>10, <2>11, <2>14 DEF r, Conn
<1>15. CASE Q = {} /\ r = Result(t, {prvTCPReturnPacket(t, {"ACK"}, 0, FALSE)})
    <2>1. r.s = t /\ r.out = {prvTCPReturnPacket(t, {"ACK"}, 0, FALSE)}
        BY <1>15 DEF Result
    <2>2. MayFlag(x, t, {"ACK"})
        BY DEF MayFlag
    <2>3. Outgoing(x, prvTCPReturnPacket(t, {"ACK"}, 0, FALSE), D, E, G, F)
        BY <1>7, <1>10, <1>11, <2>2, AnswerKeeps
    <2>4. \A p \in r.out : Outgoing(x, p, D, E, G, F)
        BY <2>1, <2>3
    <2> QED BY <1>10, <1>11, <1>12, <2>1, <2>4 DEF r, Conn
<1>16. CASE Q = {} /\ r = Result(t, {})
    <2>1. r.s = t /\ r.out = {}
        BY <1>16 DEF Result
    <2> QED BY <1>10, <1>11, <1>12, <2>1 DEF r, Conn
<1> QED
    BY <1>8, <1>13, <1>14, <1>15, <1>16

\* The answer to a packet.
Cleared(s) == [s EXCEPT !.ack = FALSE, !.bits = @ \ {"bWinChange"}]

LEMMA SendCases ==
    ASSUME NEW s \in SockType, NEW flags, NEW len, NEW options, NEW delay
    PROVE  LET r == prvSendData(s, flags, len, options, delay)
               more == prvTCPSendRepeated(Cleared(s), NotSent(Cleared(s)))
           IN  \/ s.state = "eESTABLISHED" /\ delay /\ r = Result([s EXCEPT !.ack = TRUE], {})
               \/ r = Result(more.s, more.out \cup {prvTCPReturnPacket(s, flags, 0, options)})
BY DEF prvSendData, Cleared

LEMMA ClearedKeeps ==
    ASSUME NEW s \in SockType
    PROVE  LET t == Cleared(s)
           IN  /\ t \in SockType /\ t.bits = s.bits \ {"bWinChange"} /\ t.ack = FALSE
               /\ SameReceiver(s, t) /\ t.state = s.state /\ t.segs = s.segs /\ t.todo = s.todo
               /\ ShutdownDue(t) => ShutdownDue(s)
               /\ \A x \in Socket : \A D, E, G, F : Conn(x, s, D, E, G, F) => Conn(x, t, D, E, G, F)
<1> DEFINE t == Cleared(s)
<1>1. t \in SockType
    BY DEF Cleared, SockType
<1>2. /\ t.bits = s.bits \ {"bWinChange"} /\ SameRx(s, t)
      /\ t.nxt = s.nxt /\ t.our = s.our /\ t.state = s.state /\ t.first = s.first
      /\ t.rxfirst = s.rxfirst /\ t.segs = s.segs /\ t.todo = s.todo /\ t.next = s.next
      /\ t.una = s.una /\ t.txfin = s.txfin
    BY DEF Cleared, SockType, SameRx
<1>3. t.ack = FALSE
    BY DEF Cleared, SockType
<1> HIDE DEF t
<1>4. SameReceiver(s, t)
    BY <1>2 DEF SameReceiver
<1>5. ASSUME NEW x \in Socket, NEW D, NEW E, NEW G, NEW F, Conn(x, s, D, E, G, F)
      PROVE  Conn(x, t, D, E, G, F)
    <2>1. Sender(x, t, G, F)
        BY <1>2, <1>5 DEF Conn, Sender
    <2>2. Receiver(x, t, D, E)
        BY <1>2, <1>5 DEF Conn, Receiver, SameRx
    <2>3. Phase(x, t)
        <3>1. t.bits \cap FinBits = s.bits \cap FinBits
            BY <1>2 DEF FinBits
        <3>2. Phase(x, s)
            BY <1>5 DEF Conn
        <3> QED BY <1>2, <1>3, <3>1, <3>2 DEF Phase, SameRx
    <2> QED BY <2>1, <2>2, <2>3 DEF Conn
<1>6. ShutdownDue(t) => ShutdownDue(s)
    BY <1>2 DEF ShutdownDue, xTCPWindowTxDone
<1> QED
    BY <1>1, <1>2, <1>3, <1>4, <1>5, <1>6 DEF t

LEMMA SendFrame ==
    ASSUME NEW s \in SockType, "bCloseRequested" \notin s.bits, NEW flags, NEW len, NEW options, NEW delay
    PROVE  LET r == prvSendData(s, flags, len, options, delay)
           IN  SameReceiver(s, r.s) /\ (s.state # "eESTABLISHED" => r.s.state = s.state)
<1> DEFINE r == prvSendData(s, flags, len, options, delay)
           t == Cleared(s)
           more == prvTCPSendRepeated(t, NotSent(t))
<1>1. \/ s.state = "eESTABLISHED" /\ r = Result([s EXCEPT !.ack = TRUE], {})
      \/ r = Result(more.s, more.out \cup {prvTCPReturnPacket(s, flags, 0, options)})
    BY SendCases
<1>2. /\ t \in SockType /\ t.bits = s.bits \ {"bWinChange"} /\ t.ack = FALSE
      /\ SameReceiver(s, t) /\ t.state = s.state /\ t.segs = s.segs
    BY ClearedKeeps
<1> HIDE DEF t
<1>3. NotSent(t) \in SUBSET t.segs /\ "bCloseRequested" \notin t.bits /\ "bWinChange" \notin t.bits
    BY <1>2 DEF NotSent
<1>4. /\ SameReceiver(t, more.s) /\ more.s.ack = t.ack
      /\ t.state # "eESTABLISHED" => more.s.state = t.state
      /\ t.state = "eSYN_RECEIVED" /\ NotSent(t) = {} /\ "bWinChange" \notin t.bits => more.out = {}
    BY <1>2, <1>3, RepeatedFrame
<1>5. SameReceiver(s, more.s)
    BY <1>2, <1>4 DEF SameReceiver, SameRx
<1>6. SameReceiver(s, [s EXCEPT !.ack = TRUE])
    BY DEF SameReceiver, SameRx, SockType
<1>7. \A v, w : Result(v, w).s = v /\ Result(v, w).out = w
    BY DEF Result
<1> HIDE DEF r, more
<1>8. SameReceiver(s, r.s) /\ (s.state # "eESTABLISHED" => r.s.state = s.state)
    BY <1>1, <1>2, <1>4, <1>5, <1>6, <1>7
<1> QED
    BY <1>8 DEF r

\* The answer to a SYN is all that is sent, and no acknowledgement stays delayed.
LEMMA SendAlone ==
    ASSUME NEW s \in SockType, s.bits \cap FinBits = {}, s.state = "eSYN_RECEIVED", s.segs = {}
    PROVE  LET r == prvSendData(s, {"SYN", "ACK"}, 0, TRUE, FALSE)
           IN  /\ SameReceiver(s, r.s) /\ r.s.state = s.state /\ r.s.ack = FALSE
               /\ r.out = {prvTCPReturnPacket(s, {"SYN", "ACK"}, 0, TRUE)}
<1> DEFINE r == prvSendData(s, {"SYN", "ACK"}, 0, TRUE, FALSE)
           t == Cleared(s)
           more == prvTCPSendRepeated(t, NotSent(t))
           one == {prvTCPReturnPacket(s, {"SYN", "ACK"}, 0, TRUE)}
<1>1. r = Result(more.s, more.out \cup one)
    BY DEF prvSendData, Cleared
<1>2. /\ t \in SockType /\ t.bits = s.bits \ {"bWinChange"} /\ t.ack = FALSE
      /\ t.state = s.state /\ t.segs = s.segs /\ SameReceiver(s, t)
    BY ClearedKeeps
<1> HIDE DEF t
<1>3. /\ NotSent(t) \in SUBSET t.segs /\ NotSent(t) = {} /\ "bCloseRequested" \notin t.bits
      /\ "bWinChange" \notin t.bits
    BY <1>2 DEF NotSent, FinBits
<1>4. /\ more.s.ack = t.ack /\ SameReceiver(t, more.s)
      /\ t.state # "eESTABLISHED" => more.s.state = t.state
      /\ t.state = "eSYN_RECEIVED" /\ NotSent(t) = {} /\ "bWinChange" \notin t.bits => more.out = {}
    BY <1>2, <1>3, RepeatedFrame
<1> HIDE DEF r, more, one
<1>5. r.s = more.s /\ r.out = more.out \cup one
    BY <1>1 DEF Result
<1>6. more.out = {}
    BY <1>2, <1>3, <1>4
<1>7. r.out = one
    BY <1>5, <1>6
<1>8. r.s.ack = FALSE
    BY <1>2, <1>4, <1>5
<1>9. SameReceiver(s, r.s) /\ r.s.state = s.state
    BY <1>2, <1>4, <1>5 DEF SameReceiver, SameRx
<1> QED
    BY <1>7, <1>8, <1>9 DEF r, one

LEMMA SendKeeps ==
    ASSUME NEW s \in SockType, NEW x \in Socket, NEW D, NEW E, NEW G, NEW F,
           Conn(x, s, D, E, G, F), ShutdownDue(s) => s.todo = 0,
           NEW flags, MayFlag(x, s, flags), NEW len, NEW options \in BOOLEAN, NEW delay
    PROVE  LET r == prvSendData(s, flags, len, options, delay)
           IN  Conn(x, r.s, D, E, G, F) /\ \A p \in r.out : Outgoing(x, p, D, E, G, F)
<1> DEFINE r == prvSendData(s, flags, len, options, delay)
           t == Cleared(s)
           more == prvTCPSendRepeated(t, NotSent(t))
<1>1. \/ s.state = "eESTABLISHED" /\ r = Result([s EXCEPT !.ack = TRUE], {})
      \/ r = Result(more.s, more.out \cup {prvTCPReturnPacket(s, flags, 0, options)})
    BY DEF prvSendData, Cleared
<1>2. /\ t \in SockType /\ Conn(x, t, D, E, G, F)
      /\ ShutdownDue(t) => t.todo = 0
    BY ClearedKeeps
<1> HIDE DEF t
<1>3. NotSent(t) \in SUBSET t.segs
    BY DEF NotSent
<1>4. Conn(x, more.s, D, E, G, F) /\ \A p \in more.out : Outgoing(x, p, D, E, G, F)
    BY <1>2, <1>3, RepeatedKeeps
<1>5. Outgoing(x, prvTCPReturnPacket(s, flags, 0, options), D, E, G, F)
    BY AnswerKeeps DEF Conn
<1>6. ASSUME s.state = "eESTABLISHED" PROVE Conn(x, [s EXCEPT !.ack = TRUE], D, E, G, F)
    <2> DEFINE w == [s EXCEPT !.ack = TRUE]
    <2>1. /\ w.bits = s.bits /\ w.nxt = s.nxt /\ w.our = s.our /\ w.state = s.state
          /\ w.first = s.first /\ w.rxfirst = s.rxfirst /\ w.segs = s.segs /\ w.todo = s.todo
          /\ w.next = s.next /\ w.una = s.una /\ w.txfin = s.txfin /\ SameRx(s, w)
        BY DEF SockType, SameRx
    <2> HIDE DEF w
    <2>2. Sender(x, w, G, F)
        BY <2>1 DEF Conn, Sender
    <2>3. Receiver(x, w, D, E)
        BY <2>1 DEF Conn, Receiver, SameRx
    <2>4. Phase(x, w)
        BY <1>6, <2>1 DEF Conn, Phase
    <2> QED BY <2>2, <2>3, <2>4 DEF Conn, w
<1>7. \A v, w : Result(v, w).s = v /\ Result(v, w).out = w
    BY DEF Result
<1> HIDE DEF r, more
<1>8. Conn(x, r.s, D, E, G, F) /\ \A p \in r.out : Outgoing(x, p, D, E, G, F)
    BY <1>1, <1>4, <1>5, <1>6, <1>7
<1> QED
    BY <1>8 DEF r

-----------------------------------------------------------------------------
(***************************************************************************)
(* A packet of the connection arrives.                                      *)
(***************************************************************************)
SameTx(s, t) ==
    /\ t.segs = s.segs /\ t.todo = s.todo /\ t.next = s.next /\ t.nxt = s.nxt
    /\ t.our = s.our /\ t.una = s.una /\ t.txfin = s.txfin

\* The packet carries the FIN of the peer for the first time.
FirstFin(s, p) == "FIN" \in p.flags /\ "bFinRecv" \notin s.bits

LEMMA ArrivedFrame ==
    ASSUME NEW s \in SockType, NEW p \in Packet
    PROVE  LET t == Arrived(s, p)
           IN  /\ t.state = s.state /\ t.first = s.first /\ t.rxfirst = s.rxfirst /\ t.ack = s.ack
               /\ SameTx(s, t) /\ s.bits \subseteq t.bits
               /\ t.bits \subseteq s.bits \cup {"bWinChange", "bFinRecv", "bFinLast"}
               /\ "FIN" \notin p.flags => t.bits \subseteq s.bits \cup {"bWinChange"}
               /\ FirstFin(s, p) => t.rxfin = p.seq + p.len
               /\ ~FirstFin(s, p) => /\ t.rxfin = s.rxfin
                                     /\ "bFinRecv" \in t.bits <=> "bFinRecv" \in s.bits
               /\ "FIN" \in p.flags => "bFinRecv" \in t.bits
               /\ \/ t.stored = s.stored /\ t.rx = s.rx /\ t.got = s.got
                  \/ /\ p.len = SegLen /\ p.seq = s.rx /\ s.state # "eCONNECT_SYN"
                     /\ t.rx = s.rx + SegLen * (1 + Cardinality(Run(s)))
                     /\ t.stored = s.stored \ Run(s) /\ t.got = s.got \cup {s.rx} \cup Run(s)
                  \/ /\ p.len = SegLen /\ p.seq > s.rx /\ s.state # "eCONNECT_SYN"
                     /\ t.stored = s.stored \cup {p.seq} /\ t.rx = s.rx /\ t.got = s.got
<1> DEFINE keep == s.state \in Atleast_eESTABLISHED /\ s.rx = p.seq + 1
           new  == FirstFin(s, p)
           u    == IF s.state \in Atleast_eESTABLISHED \cup {"eSYN_RECEIVED"}
                   THEN prvStoreRxData(s, p) ELSE s
           B(b) == b \cup (IF keep THEN {"bWinChange"} ELSE {})
                     \cup (IF new THEN {"bFinRecv"} ELSE {})
                     \cup (IF new /\ "bFinSent" \notin b THEN {"bFinLast"} ELSE {})
           h    == Max({u.rxhigh, p.seq + p.len})
           t    == Arrived(s, p)
<1>1. u \in SockType
    BY StoreTyped
<1>2. t = [u EXCEPT !.rxhigh = h, !.rxfin = IF new THEN p.seq + p.len ELSE u.rxfin,
                    !.bits = B(u.bits)]
    BY DEF Arrived, FirstFin
<1>3. \/ u = s
      \/ /\ p.len = SegLen /\ p.seq = s.rx /\ s.state # "eCONNECT_SYN"
         /\ u = [s EXCEPT !.rx = s.rx + SegLen * (1 + Cardinality(Run(s))),
                          !.stored = s.stored \ Run(s),
                          !.got = s.got \cup {s.rx} \cup Run(s)]
      \/ /\ p.len = SegLen /\ p.seq > s.rx /\ s.state # "eCONNECT_SYN"
         /\ u = [s EXCEPT !.stored = s.stored \cup {p.seq}]
    <2>1. u = s \/ (s.state # "eCONNECT_SYN" /\ u = prvStoreRxData(s, p))
        BY DEF Atleast_eESTABLISHED
    <2> HIDE DEF u
    <2> QED BY <2>1, StoreCases
<1>4. ASSUME NEW b
      PROVE  LET v == [s EXCEPT !.stored = b]
             IN  /\ v.rx = s.rx /\ v.stored = b /\ v.got = s.got
                 /\ v.state = s.state /\ v.first = s.first /\ v.rxfirst = s.rxfirst
                 /\ SameTx(s, v) /\ v.bits = s.bits /\ v.rxfin = s.rxfin /\ v.ack = s.ack
    BY DEF SockType, SameTx
<1>5. /\ u.state = s.state /\ u.first = s.first /\ u.rxfirst = s.rxfirst
      /\ SameTx(s, u) /\ u.bits = s.bits /\ u.rxfin = s.rxfin /\ u.ack = s.ack
      /\ \/ u.stored = s.stored /\ u.rx = s.rx /\ u.got = s.got
         \/ /\ p.len = SegLen /\ p.seq = s.rx /\ s.state # "eCONNECT_SYN"
            /\ u.rx = s.rx + SegLen * (1 + Cardinality(Run(s)))
            /\ u.stored = s.stored \ Run(s) /\ u.got = s.got \cup {s.rx} \cup Run(s)
         \/ /\ p.len = SegLen /\ p.seq > s.rx /\ s.state # "eCONNECT_SYN"
            /\ u.stored = s.stored \cup {p.seq} /\ u.rx = s.rx /\ u.got = s.got
    <2> DEFINE n == s.rx + SegLen * (1 + Cardinality(Run(s)))
               m == s.stored \ Run(s)
               g == s.got \cup {s.rx} \cup Run(s)
               k == s.stored \cup {p.seq}
    <2>1. CASE u = s
        <3>1. SameTx(s, s)
            BY DEF SameTx
        <3> QED BY <2>1, <3>1
    <2>2. CASE /\ p.len = SegLen /\ p.seq = s.rx /\ s.state # "eCONNECT_SYN"
               /\ u = [s EXCEPT !.rx = n, !.stored = m, !.got = g]
        <3> HIDE DEF u, n, m, g
        <3>1. /\ u.rx = n /\ u.stored = m /\ u.got = g
              /\ u.state = s.state /\ u.first = s.first /\ u.rxfirst = s.rxfirst
              /\ SameTx(s, u) /\ u.bits = s.bits /\ u.rxfin = s.rxfin /\ u.ack = s.ack
            <4> DEFINE v == [s EXCEPT !.rx = n, !.stored = m, !.got = g]
            <4>1. /\ v.rx = n /\ v.stored = m /\ v.got = g
                  /\ v.state = s.state /\ v.first = s.first /\ v.rxfirst = s.rxfirst
                  /\ SameTx(s, v) /\ v.bits = s.bits /\ v.rxfin = s.rxfin /\ v.ack = s.ack
                BY DEF SockType, SameTx
            <4>2. u = v
                BY <2>2
            <4> HIDE DEF v
            <4> QED BY <4>1, <4>2
        <3> QED BY <2>2, <3>1 DEF n, m, g
    <2>3. CASE /\ p.len = SegLen /\ p.seq > s.rx /\ s.state # "eCONNECT_SYN"
               /\ u = [s EXCEPT !.stored = k]
        <3> HIDE DEF u, k
        <3>1. /\ u.rx = s.rx /\ u.stored = k /\ u.got = s.got
              /\ u.state = s.state /\ u.first = s.first /\ u.rxfirst = s.rxfirst
              /\ SameTx(s, u) /\ u.bits = s.bits /\ u.rxfin = s.rxfin /\ u.ack = s.ack
            BY <1>4, <2>3
        <3> QED BY <2>3, <3>1 DEF k
    <2> HIDE DEF u
    <2> QED BY <1>3, <2>1, <2>2, <2>3
<1> HIDE DEF u, t, keep, new, h
<1>6. /\ t.state = u.state /\ t.first = u.first /\ t.rxfirst = u.rxfirst
      /\ SameTx(u, t) /\ t.stored = u.stored /\ t.rx = u.rx /\ t.got = u.got
      /\ t.bits = B(u.bits) /\ t.rxfin = (IF new THEN p.seq + p.len ELSE u.rxfin)
    <2> HIDE DEF B
    <2> QED BY <1>1, <1>2 DEF SockType, SameTx
<1>7. t.ack = u.ack
    <2> HIDE DEF B
    <2> QED BY <1>1, <1>2 DEF SockType
<1>8. t.bits = B(s.bits)
    BY <1>5, <1>6
<1>9. /\ s.bits \subseteq t.bits
      /\ t.bits \subseteq s.bits \cup {"bWinChange", "bFinRecv", "bFinLast"}
    BY <1>8
<1>10. "FIN" \notin p.flags => t.bits \subseteq s.bits \cup {"bWinChange"}
    BY <1>8 DEF new, FirstFin
<1>11. ~FirstFin(s, p) => ("bFinRecv" \in t.bits <=> "bFinRecv" \in s.bits)
    BY <1>8 DEF new
<1>12. "FIN" \in p.flags => "bFinRecv" \in t.bits
    BY <1>8 DEF new, FirstFin
<1>13. SameTx(s, t)
    BY <1>5, <1>6 DEF SameTx
<1>14. /\ FirstFin(s, p) => t.rxfin = p.seq + p.len
       /\ ~FirstFin(s, p) => t.rxfin = s.rxfin
    BY <1>5, <1>6 DEF new
<1>15. /\ t.state = s.state /\ t.first = s.first /\ t.rxfirst = s.rxfirst /\ t.ack = s.ack
       /\ t.stored = u.stored /\ t.rx = u.rx /\ t.got = u.got
    BY <1>5, <1>6, <1>7
<1> QED
    BY <1>5, <1>9, <1>10, <1>11, <1>12, <1>13, <1>14, <1>15 DEF t

\* What is passed on to the user was expected, what is stored may come later, and
\* the FIN is behind what was taken.
LEMMA ArrivedKeeps ==
    ASSUME NEW s \in SockType, NEW p \in Packet, NEW x \in Socket,
           NEW D, NEW E, NEW G, NEW F, NEW D1, NEW E1,
           Sender(x, s, G, F), Receiver(x, s, D, E),
           Outgoing(Peer(x), p, G, F, D, E), "RST" \notin p.flags,
           D \subseteq D1, E \subseteq E1, Arrived(s, p).got \subseteq D1
    PROVE  Sender(x, Arrived(s, p), G, F) /\ Receiver(x, Arrived(s, p), D1, E1)
<1> DEFINE t == Arrived(s, p)
           y == Peer(x)
<1>1. y \in Socket /\ Peer(y) = x
    BY PeerOf DEF Socket
<1>2. /\ SameTx(s, t) /\ s.bits \subseteq t.bits
      /\ t.bits \subseteq s.bits \cup {"bWinChange", "bFinRecv", "bFinLast"}
      /\ FirstFin(s, p) => t.rxfin = p.seq + p.len
      /\ ~FirstFin(s, p) => /\ t.rxfin = s.rxfin
                            /\ "bFinRecv" \in t.bits <=> "bFinRecv" \in s.bits
      /\ \/ t.stored = s.stored /\ t.rx = s.rx /\ t.got = s.got
         \/ /\ p.len = SegLen /\ p.seq = s.rx
            /\ t.rx = s.rx + SegLen * (1 + Cardinality(Run(s)))
            /\ t.stored = s.stored \ Run(s) /\ t.got = s.got \cup {s.rx} \cup Run(s)
         \/ /\ p.len = SegLen /\ p.seq > s.rx
            /\ t.stored = s.stored \cup {p.seq} /\ t.rx = s.rx /\ t.got = s.got
    BY ArrivedFrame
<1>3. t.got \subseteq D1
    OBVIOUS
<1> HIDE DEF t, y
<1>4. /\ p.len = SegLen => Begins(y, p.seq)
      /\ "FIN" \in p.flags => Begins(y, p.seq + p.len) /\ Upto(y, p.seq + p.len) \subseteq D
    BY <1>1 DEF Outgoing, y, SegLen
<1>5. Sender(x, t, G, F)
    BY <1>2 DEF Sender, SameTx
<1>6. /\ \A q \in s.stored : Begins(y, q)
      /\ Upto(y, s.rx) \subseteq D /\ s.got \subseteq D /\ Follows(y, s.rx, E)
      /\ "bFinRecv" \in s.bits => Begins(y, s.rxfin) /\ Upto(y, s.rxfin) \subseteq D
    BY DEF Receiver, y
<1>7. "bFinRecv" \in t.bits => Begins(y, t.rxfin) /\ Upto(y, t.rxfin) \subseteq D1
    <2>1. CASE FirstFin(s, p)
        BY <1>2, <1>4, <2>1 DEF FirstFin
    <2>2. CASE ~FirstFin(s, p)
        BY <1>2, <1>6, <2>2
    <2> QED BY <2>1, <2>2
<1>8. \A q \in t.stored : Begins(y, q)
    BY <1>2, <1>4, <1>6
<1>9. Upto(y, t.rx) \subseteq D1 /\ Follows(y, t.rx, E1)
    <2>1. CASE t.rx = s.rx
        BY <1>6, <2>1 DEF Follows
    <2>2. CASE /\ p.len = SegLen /\ p.seq = s.rx
               /\ t.rx = s.rx + SegLen * (1 + Cardinality(Run(s)))
               /\ t.got = s.got \cup {s.rx} \cup Run(s)
        <3>1. Begins(y, s.rx)
            BY <1>4, <2>2
        <3>2. Begins(y, t.rx) /\ Upto(y, t.rx) \subseteq Upto(y, s.rx) \cup {s.rx} \cup Run(s)
            BY <1>1, <1>6, <2>2, <3>1, RunIsConsecutive
        <3>3. Follows(y, t.rx, E1)
            BY <1>1, <3>2, BeginFacts DEF Follows
        <3> QED BY <1>3, <1>6, <2>2, <3>2, <3>3
    <2> QED BY <1>2, <2>1, <2>2
<1>10. Receiver(x, t, D1, E1)
    BY <1>3, <1>7, <1>8, <1>9 DEF Receiver, y
<1> QED
    BY <1>5, <1>10 DEF t

\* A FIN is exchanged: our FIN is behind all that was sent, and it is confirmed
\* only when the peer has taken it; the FIN of the peer is taken.
Ending(x, s) ==
    /\ s.first = Number(x) /\ s.rxfirst = Number(Peer(x))
    /\ x = "A" => "bConnPrepared" \in s.bits
    /\ s.state \in {"eESTABLISHED", "eFIN_WAIT_1", "eLAST_ACK"}
    /\ s.state = "eESTABLISHED" => "bFinSent" \notin s.bits
    /\ "bFinSent" \notin s.bits => s.segs = {} /\ s.todo = 0

LEMMA AfterFinFields ==
    ASSUME NEW s \in SockType, NEW p \in Packet
    PROVE  LET t == AfterFin(s, p)
               acked == FinConfirmed(s, p)
           IN  /\ t.rx = (IF "FIN" \in p.flags THEN s.rxfin + 1 ELSE s.rx)
               /\ t.txfin = FinAt(s) /\ t.una = (IF acked THEN FinAt(s) + 1 ELSE FinAt(s))
               /\ t.our = t.una
               /\ t.bits = s.bits \cup {"bFinSent"} \cup (IF acked THEN {"bFinAcked"} ELSE {})
               /\ ~acked => t.state = "eLAST_ACK"
               /\ acked => t.state \in {"eCLOSE_WAIT", s.state}
               /\ t.first = s.first /\ t.rxfirst = s.rxfirst /\ t.stored = s.stored
               /\ t.got = s.got /\ t.rxfin = s.rxfin /\ t.segs = s.segs /\ t.todo = s.todo
               /\ t.next = s.next /\ t.nxt = s.nxt
<1> DEFINE una == IF FinConfirmed(s, p) THEN FinAt(s) + 1 ELSE FinAt(s)
           rx == IF "FIN" \in p.flags THEN s.rxfin + 1 ELSE s.rx
           bits == s.bits \cup {"bFinSent"}
                       \cup (IF FinConfirmed(s, p) THEN {"bFinAcked"} ELSE {})
           state == IF ~FinConfirmed(s, p) THEN "eLAST_ACK"
                    ELSE IF FinConfirmed(s, p) /\ "bFinRecv" \in s.bits
                    THEN "eCLOSE_WAIT" ELSE s.state
           t == AfterFin(s, p)
<1>1. t = [s EXCEPT !.rx = rx, !.txfin = FinAt(s), !.una = una, !.our = una,
                    !.bits = bits, !.state = state]
    BY DEF AfterFin
<1>2. /\ ~FinConfirmed(s, p) => state = "eLAST_ACK"
      /\ FinConfirmed(s, p) => state \in {"eCLOSE_WAIT", s.state}
    OBVIOUS
<1> HIDE DEF una, rx, bits, state, t
<1>3. /\ t.rx = rx /\ t.txfin = FinAt(s) /\ t.una = una /\ t.our = una /\ t.bits = bits
      /\ t.state = state
      /\ t.first = s.first /\ t.rxfirst = s.rxfirst /\ t.stored = s.stored
      /\ t.got = s.got /\ t.rxfin = s.rxfin /\ t.segs = s.segs /\ t.todo = s.todo
      /\ t.next = s.next /\ t.nxt = s.nxt
    BY <1>1 DEF SockType
<1> QED
    BY <1>2, <1>3 DEF una, rx, bits, t

LEMMA FinFrame ==
    ASSUME NEW s \in SockType, NEW p \in Packet, NEW options \in BOOLEAN,
           "bCloseRequested" \notin s.bits
    PROVE  SameReceiver(AfterFin(s, p), prvTCPHandleFin(s, p, options).s)
<1> DEFINE t == AfterFin(s, p)
           r == prvTCPHandleFin(s, p, options)
           one == prvSendData(t, {"ACK", "FIN"}, p.len, options, FALSE)
           two == prvSendData(t, {"ACK"}, p.len, options, FALSE)
<1>1. t \in SockType
    BY FinTyped
<1>2. "bCloseRequested" \notin t.bits
    BY AfterFinFields
<1>3. r = one \/ r = two \/ r = Result(t, {})
    BY FinCases
<1>4. Result(t, {}).s = t
    BY DEF Result
<1> HIDE DEF t, r
<1>5. SameReceiver(t, one.s) /\ SameReceiver(t, two.s)
    BY <1>1, <1>2, SendFrame
<1>6. SameReceiver(t, t)
    BY DEF SameReceiver, SameRx
<1>7. SameReceiver(t, r.s)
    BY <1>3, <1>4, <1>5, <1>6
<1> QED
    BY <1>7 DEF t, r

LEMMA FinKeeps ==
    ASSUME NEW s \in SockType, NEW p \in Packet, NEW options \in BOOLEAN, NEW x \in Socket,
           NEW D, NEW E, NEW G, NEW F, Ending(x, s), Sender(x, s, G, F), Receiver(x, s, D, E),
           "FIN" \in p.flags => "bFinRecv" \in s.bits,
           Follows(x, p.ack, F),
           TakesFin(prvTCPHandleFin(s, p, options)) => s.rxfin \in E
    PROVE  LET r == prvTCPHandleFin(s, p, options)
           IN  /\ Conn(x, r.s, D, E, G, F) /\ \A q \in r.out : Outgoing(x, q, D, E, G, F)
               /\ r.s.got = s.got
<1> DEFINE t == AfterFin(s, p)
           r == prvTCPHandleFin(s, p, options)
           acked == FinConfirmed(s, p)
           y == Peer(x)
           n == FinAt(s)
<1>1. t \in SockType
    BY FinTyped
<1>2. /\ t.rx = (IF "FIN" \in p.flags THEN s.rxfin + 1 ELSE s.rx)
      /\ t.txfin = n /\ t.una = (IF acked THEN n + 1 ELSE n)
      /\ t.our = t.una
      /\ t.bits = s.bits \cup {"bFinSent"} \cup (IF acked THEN {"bFinAcked"} ELSE {})
      /\ ~acked => t.state = "eLAST_ACK"
      /\ acked => t.state \in {"eCLOSE_WAIT", s.state}
      /\ t.first = s.first /\ t.rxfirst = s.rxfirst /\ t.stored = s.stored
      /\ t.got = s.got /\ t.rxfin = s.rxfin /\ t.segs = s.segs /\ t.todo = s.todo
      /\ t.next = s.next /\ t.nxt = s.nxt
    BY AfterFinFields
<1>3. /\ ~acked => r = prvSendData(t, {"ACK", "FIN"}, p.len, options, FALSE)
      /\ acked => \/ r = prvSendData(t, {"ACK"}, p.len, options, FALSE)
                  \/ r = Result(t, {})
    BY FinCases
<1>4. SameReceiver(t, r.s)
    BY FinFrame DEF Sender
<1>5. TakesFin(r) => s.rxfin \in E
    OBVIOUS
<1>6. p.ack \in Nat /\ s.txfin \in Nat /\ s.una \in Nat /\ s.next \in Nat /\ s.rxfin \in Nat
    BY DEF Packet, SockType
<1>7. acked => "bFinSent" \in s.bits /\ s.txfin \in F
    <2>1. CASE "bFinAcked" \in s.bits
        BY <2>1 DEF Sender
    <2>2. CASE "bFinSent" \in s.bits /\ p.ack = s.txfin + 1
        <3>1. Begins(x, s.txfin) /\ p.ack - 1 = s.txfin
            BY <1>6, <2>2 DEF Sender
        <3> QED BY <2>2, <3>1 DEF Follows
    <2> QED BY <2>1, <2>2 DEF FinConfirmed
<1>8. Begins(x, n) /\ n <= s.next /\ s.segs = {} /\ s.todo = 0 /\ n \in Nat
    <2>1. CASE "bFinSent" \in s.bits
        BY <1>6, <2>1 DEF FinAt, Sender
    <2>2. CASE "bFinSent" \notin s.bits
        <3>1. s.segs = {} /\ s.todo = 0 /\ Cardinality(s.segs) = 0
            BY <2>2, FS_EmptySet DEF Ending
        <3>2. s.una + SegLen * Cardinality(s.segs) = s.next /\ Begins(x, s.next)
            BY <2>2 DEF Sender
        <3>3. s.una = s.next
            BY <1>6, <3>1, <3>2 DEF SegLen
        <3> QED BY <1>6, <2>2, <3>1, <3>2, <3>3 DEF FinAt
    <2> QED BY <2>1, <2>2
<1>9. acked => n \in F
    BY <1>7 DEF FinAt
<1> HIDE DEF t, r, acked, n
<1>10. Follows(x, t.una, F)
    <2>1. CASE acked
        <3>1. t.una - 1 = n
            BY <1>2, <1>8, <2>1
        <3> QED BY <1>9, <2>1, <3>1 DEF Follows
    <2>2. CASE ~acked
        BY <1>2, <1>8, <2>2, BeginFacts DEF Follows
    <2> QED BY <2>1, <2>2
<1>11. Sender(x, t, G, F)
    <2>1. "bFinSent" \in t.bits /\ ("bFinAcked" \in t.bits => n \in F) /\ "bCloseRequested" \notin t.bits
        <3>1. "bFinAcked" \in s.bits => acked
            BY DEF acked, FinConfirmed
        <3> QED BY <1>2, <1>9, <3>1 DEF Sender
    <2> QED BY <1>2, <1>8, <1>10, <2>1 DEF Sender
<1>12. Receiver(x, t, D, E)
    <2>1. y \in Socket
        BY PeerOf DEF Socket
    <2>2. /\ \A q \in s.stored : Begins(y, q)
          /\ Upto(y, s.rx) \subseteq D /\ s.got \subseteq D /\ Follows(y, s.rx, E)
          /\ "bFinRecv" \in s.bits => Begins(y, s.rxfin) /\ Upto(y, s.rxfin) \subseteq D
        BY DEF Receiver
    <2> HIDE DEF y
    <2>3. Upto(y, t.rx) \subseteq D /\ Follows(y, t.rx, E)
        <3>1. CASE "FIN" \in p.flags
            <4>1. t.rx = s.rxfin + 1 /\ Begins(y, s.rxfin) /\ "bFinRecv" \in s.bits
                BY <1>2, <2>2, <3>1
            <4>2. "bFinRecv" \in r.s.bits /\ r.s.rx = r.s.rxfin + 1
                BY <1>2, <1>4, <4>1 DEF SameReceiver, SameRx
            <4>3. s.rxfin \in E
                BY <1>5, <4>2 DEF TakesFin
            <4>4. t.rx - 1 = s.rxfin
                BY <1>6, <4>1
            <4>5. Upto(y, t.rx) = Upto(y, s.rxfin)
                BY <1>6, <2>1, <4>1, UptoFacts
            <4> QED BY <2>2, <4>1, <4>3, <4>4, <4>5 DEF Follows
        <3>2. CASE "FIN" \notin p.flags
            BY <1>2, <2>2, <3>2
        <3> QED BY <3>1, <3>2
    <2>4. "bFinRecv" \in t.bits <=> "bFinRecv" \in s.bits
        BY <1>2
    <2> QED BY <1>2, <2>2, <2>3, <2>4 DEF Receiver, y
<1>13. Phase(x, t)
    <2>1. t.state \in {"eLAST_ACK", "eCLOSE_WAIT", "eFIN_WAIT_1"}
        BY <1>2, <1>7 DEF Ending
    <2>2. "bFinSent" \in t.bits /\ (x = "A" => "bConnPrepared" \in t.bits)
        BY <1>2 DEF Ending
    <2> QED BY <1>2, <2>1, <2>2 DEF Phase, Ending
<1>14. Conn(x, t, D, E, G, F) /\ ~ShutdownDue(t)
    BY <1>2, <1>7, <1>11, <1>12, <1>13 DEF Conn, ShutdownDue, Ending
<1>15. MayFlag(x, t, {"ACK", "FIN"}) /\ MayFlag(x, t, {"ACK"})
    BY <1>2 DEF MayFlag
<1>16. \A flags \in {{"ACK", "FIN"}, {"ACK"}} :
          LET v == prvSendData(t, flags, p.len, options, FALSE)
          IN  Conn(x, v.s, D, E, G, F) /\ \A q \in v.out : Outgoing(x, q, D, E, G, F)
    BY <1>1, <1>14, <1>15, SendKeeps
<1>17. Conn(x, r.s, D, E, G, F) /\ \A q \in r.out : Outgoing(x, q, D, E, G, F)
    <2>1. \A v, w : Result(v, w).s = v /\ Result(v, w).out = w
        BY DEF Result
    <2> DEFINE one == prvSendData(t, {"ACK", "FIN"}, p.len, options, FALSE)
               two == prvSendData(t, {"ACK"}, p.len, options, FALSE)
    <2>2. /\ Conn(x, one.s, D, E, G, F) /\ \A q \in one.out : Outgoing(x, q, D, E, G, F)
          /\ Conn(x, two.s, D, E, G, F) /\ \A q \in two.out : Outgoing(x, q, D, E, G, F)
        BY <1>16
    <2>3. r = one \/ r = two \/ r = Result(t, {})
        BY <1>3
    <2> HIDE DEF one, two
    <2>4. CASE r = one \/ r = two
        BY <2>2, <2>4
    <2>5. CASE r = Result(t, {})
        BY <1>14, <2>1, <2>5
    <2> QED BY <2>3, <2>4, <2>5
<1>18. r.s.got = s.got
    BY <1>2, <1>4 DEF SameReceiver, SameRx
<1> QED
    BY <1>17, <1>18 DEF r

LEMMA AllSentKeeps ==
    ASSUME NEW c \in SockType, "bCloseRequested" \notin c.bits
    PROVE  LET r == AllSent(c)
           IN  /\ SameReceiver(c, r.s)
               /\ \A x \in Socket : \A D, E, G, F :
                     Conn(x, c, D, E, G, F) /\ (ShutdownDue(c) => c.todo = 0) =>
                        Conn(x, r.s, D, E, G, F) /\ \A p \in r.out : Outgoing(x, p, D, E, G, F)
<1> DEFINE v == prvTCPSendRepeated(c, NotSent(c))
           u == [v.s EXCEPT !.ack = v.s.ack /\ v.out = {}]
           r == AllSent(c)
<1>1. NotSent(c) \in SUBSET c.segs
    BY DEF NotSent
<1>2. v \in ResultType
    BY <1>1, RepeatedTyped
<1>3. v.s \in SockType
    BY <1>2, ResultTyped
<1>4. r.s = u /\ r.out = v.out
    BY DEF AllSent, Result
<1>5. SameReceiver(c, v.s)
    BY <1>1, RepeatedFrame
<1>6. ASSUME NEW x \in Socket, NEW D, NEW E, NEW G, NEW F, Conn(x, c, D, E, G, F),
             ShutdownDue(c) => c.todo = 0
      PROVE  Conn(x, v.s, D, E, G, F) /\ \A p \in v.out : Outgoing(x, p, D, E, G, F)
    BY <1>1, <1>6, RepeatedKeeps
<1> HIDE DEF v, r
<1>7. /\ u.bits = v.s.bits /\ u.nxt = v.s.nxt /\ u.our = v.s.our /\ u.state = v.s.state
      /\ u.first = v.s.first /\ u.rxfirst = v.s.rxfirst /\ u.segs = v.s.segs /\ u.todo = v.s.todo
      /\ u.next = v.s.next /\ u.una = v.s.una /\ u.txfin = v.s.txfin
      /\ u.stored = v.s.stored /\ u.rx = v.s.rx /\ u.got = v.s.got /\ u.rxfin = v.s.rxfin
    BY <1>3 DEF SockType
<1>8. v.s.ack = FALSE => u.ack = FALSE
    BY <1>3 DEF SockType
<1> HIDE DEF u
<1>9. SameReceiver(c, u)
    BY <1>5, <1>7 DEF SameReceiver, SameRx
<1>10. ASSUME NEW x \in Socket, NEW D, NEW E, NEW G, NEW F, Conn(x, v.s, D, E, G, F)
       PROVE  Conn(x, u, D, E, G, F)
    <2>1. Sender(x, u, G, F)
        BY <1>7, <1>10 DEF Conn, Sender
    <2>2. Receiver(x, u, D, E)
        BY <1>7, <1>10 DEF Conn, Receiver
    <2>3. Phase(x, v.s)
        BY <1>10 DEF Conn
    <2>4. Phase(x, u)
        BY <1>7, <1>8, <2>3 DEF Phase
    <2> QED BY <2>1, <2>2, <2>4 DEF Conn
<1>11. SameReceiver(c, r.s)
    BY <1>4, <1>9
<1>12. ASSUME NEW x \in Socket, NEW D, NEW E, NEW G, NEW F, Conn(x, c, D, E, G, F),
              ShutdownDue(c) => c.todo = 0
       PROVE  Conn(x, r.s, D, E, G, F) /\ \A p \in r.out : Outgoing(x, p, D, E, G, F)
    <2>1. Conn(x, v.s, D, E, G, F) /\ \A p \in v.out : Outgoing(x, p, D, E, G, F)
        BY <1>6, <1>12
    <2>2. Conn(x, u, D, E, G, F)
        BY <1>10, <2>1
    <2> QED BY <1>4, <2>1, <2>2
<1> QED
    BY <1>11, <1>12 DEF r

\* A FIN that may not be accepted yet is confirmed only when it is taken.
LEMMA PassedKeeps ==
    ASSUME NEW b \in SockType, NEW p \in Packet, Passed(b, p) \in SockType, NEW x \in Socket,
           NEW D, NEW E, NEW G, NEW F, Conn(x, b, D, E, G, F), b.state = "eESTABLISHED",
           b.todo = 0, "FIN" \in p.flags => "bFinRecv" \in b.bits,
           LET c == Passed(b, p)
           IN  "bFinRecv" \in c.bits /\ c.rx = c.rxfin + 1 => b.rxfin \in E
    PROVE  LET c == Passed(b, p)
           IN  /\ Conn(x, c, D, E, G, F) /\ c.todo = 0 /\ c.got = b.got
               /\ Conn(x, Answering(c), D, E, G, F) /\ Answering(c).todo = 0
<1> DEFINE c == Passed(b, p)
           d == Answering(c)
           y == Peer(x)
           n == IF c.txStream THEN c.nxt ELSE c.our
           m == IF RefusedInOrder(b, p) THEN b.rxfin + 1 ELSE b.rx
           k == IF p.len > 0 /\ "bFinSent" \in b.bits THEN b.txfin ELSE b.una
<1>1. Sender(x, b, G, F) /\ Receiver(x, b, D, E) /\ Phase(x, b)
    BY DEF Conn
<1>2. c = [b EXCEPT !.rx = m, !.una = k]
    BY DEF Passed
<1>3. k = b.una /\ (RefusedInOrder(b, p) => "bFinRecv" \in b.bits)
    BY <1>1 DEF Phase, RefusedInOrder, Closing
<1>4. "bFinRecv" \in c.bits /\ c.rx = c.rxfin + 1 => b.rxfin \in E
    OBVIOUS
<1>5. d = [c EXCEPT !.our = n]
    BY DEF Answering
<1>6. c \in SockType
    OBVIOUS
<1>7. y \in Socket /\ b.rxfin \in Nat
    BY PeerOf DEF Socket, SockType
<1> HIDE DEF c, d, k, m, n
<1>8. /\ c.bits = b.bits /\ c.nxt = b.nxt /\ c.our = b.our /\ c.state = b.state
      /\ c.first = b.first /\ c.rxfirst = b.rxfirst /\ c.segs = b.segs /\ c.todo = b.todo
      /\ c.next = b.next /\ c.una = b.una /\ c.txfin = b.txfin
      /\ c.stored = b.stored /\ c.rx = m /\ c.got = b.got /\ c.rxfin = b.rxfin
    BY <1>2, <1>3 DEF SockType
<1>9. /\ d.bits = c.bits /\ d.nxt = c.nxt /\ d.our = n /\ d.state = c.state
      /\ d.first = c.first /\ d.rxfirst = c.rxfirst /\ d.segs = c.segs /\ d.todo = c.todo
      /\ d.next = c.next /\ d.una = c.una /\ d.txfin = c.txfin
      /\ d.stored = c.stored /\ d.rx = c.rx /\ d.got = c.got /\ d.rxfin = c.rxfin
    BY <1>5, <1>6 DEF SockType
<1>10. Sender(x, c, G, F)
    BY <1>1, <1>8 DEF Sender
<1>11. Upto(y, c.rx) \subseteq D /\ Follows(y, c.rx, E)
    <2>1. CASE RefusedInOrder(b, p)
        <3>1. c.rx = b.rxfin + 1 /\ "bFinRecv" \in b.bits /\ c.rx - 1 = b.rxfin
            BY <1>3, <1>7, <1>8, <2>1 DEF m
        <3>2. b.rxfin \in E
            BY <1>4, <1>8, <3>1
        <3>3. Begins(y, b.rxfin) /\ Upto(y, b.rxfin) \subseteq D
            BY <1>1, <3>1 DEF Receiver
        <3>4. Upto(y, c.rx) = Upto(y, b.rxfin)
            <4> HIDE DEF y
            <4> QED BY <1>7, <3>1, <3>3, UptoFacts
        <3> QED BY <3>1, <3>2, <3>3, <3>4 DEF Follows
    <2>2. CASE ~RefusedInOrder(b, p)
        BY <1>1, <1>8, <2>2 DEF m, Receiver
    <2> QED BY <2>1, <2>2
<1>12. Receiver(x, c, D, E)
    BY <1>1, <1>8, <1>11 DEF Receiver
<1>13. Phase(x, c)
    BY <1>1, <1>8 DEF Phase
<1>14. Follows(x, n, F)
    <2>1. Follows(x, c.nxt, F)
        <3>1. c.nxt \in Nat /\ (c.nxt = Number(x) \/ Begins(x, c.nxt))
            BY <1>6, <1>10 DEF Sender, SockType
        <3> QED BY <3>1, BeginFacts, NoBegins, NumberTyped DEF Follows
    <2> QED BY <1>10, <2>1 DEF n, Sender
<1>15. Sender(x, d, G, F)
    BY <1>9, <1>10, <1>14 DEF Sender
<1>16. Receiver(x, d, D, E)
    BY <1>9, <1>12 DEF Receiver
<1>17. Phase(x, d)
    <2>1. d.state = "eESTABLISHED"
        BY <1>8, <1>9
    <2> QED BY <1>9, <1>13, <2>1 DEF Phase
<1>18. Conn(x, c, D, E, G, F) /\ Conn(x, d, D, E, G, F) /\ c.todo = 0 /\ d.todo = 0 /\ c.got = b.got
    BY <1>8, <1>9, <1>10, <1>12, <1>13, <1>15, <1>16, <1>17 DEF Conn
<1> QED
    BY <1>18 DEF c, d

LEMMA EstablishedKeeps ==
    ASSUME NEW s \in SockType, NEW p \in Packet, NEW options \in BOOLEAN, NEW delay,
           NEW x \in Socket, NEW D, NEW E, NEW G, NEW F,
           Conn(x, s, D, E, G, F), s.state = "eESTABLISHED",
           "FIN" \in p.flags => "bFinRecv" \in s.bits,
           Upto(x, p.ack) \subseteq G, Follows(x, p.ack, F),
           LET r == prvHandleEstablished(s, p, options, delay) IN TakesFin(r) => r.s.rxfin \in E
    PROVE  LET r == prvHandleEstablished(s, p, options, delay)
           IN  /\ Conn(x, r.s, D, E, G, F) /\ \A q \in r.out : Outgoing(x, q, D, E, G, F)
               /\ r.s.got = s.got
<1> DEFINE r == prvHandleEstablished(s, p, options, delay)
           b == Noted(s, p)
           c == Passed(b, p)
           d == Answering(c)
<1>1. b \in SockType /\ c \in SockType /\ d \in SockType /\ Accepts(b) \in SockType
    BY EstablishedParts
<1>2. Sender(x, s, G, F) /\ Receiver(x, s, D, E) /\ Phase(x, s)
    BY DEF Conn
<1>3. Sender(x, b, G, F) /\ SameState(s, b) /\ SameRx(s, b) /\ b.todo = 0 /\ b.ack = s.ack
    BY <1>2, NotedKeeps
<1>4. \/ Closing(b, p) /\ MayClose(b, p) /\ r = prvTCPHandleFin(Accepts(b), p, options)
      \/ \E o \in BOOLEAN : r = prvSendData(c, {"ACK"}, p.len, o, delay)
      \/ r = prvSendData(d, {"ACK"}, p.len, FALSE, delay)
      \/ r = AllSent(c)
    BY EstablishedCases
<1>5. TakesFin(r) => r.s.rxfin \in E
    OBVIOUS
<1> HIDE DEF b, r
<1>6. Conn(x, b, D, E, G, F) /\ b.state = "eESTABLISHED"
    <2>1. Receiver(x, b, D, E)
        BY <1>2, <1>3 DEF Receiver, SameState, SameRx
    <2>2. Phase(x, b)
        BY <1>2, <1>3 DEF Phase, SameState
    <2> QED BY <1>3, <2>1, <2>2 DEF Conn, SameState
<1>7. b.bits = s.bits /\ b.got = s.got
    BY <1>3 DEF SameState, SameRx
<1>8. CASE Closing(b, p) /\ MayClose(b, p) /\ r = prvTCPHandleFin(Accepts(b), p, options)
    <2> DEFINE a == Accepts(b)
    <2>1. /\ a.bits = b.bits \cup {"bFinAccepted"} /\ a.state = b.state /\ a.first = b.first
          /\ a.rxfirst = b.rxfirst /\ SameTx(b, a) /\ SameRx(b, a)
        BY <1>1 DEF Accepts, SockType, SameTx, SameRx
    <2> HIDE DEF a
    <2>2. Sender(x, a, G, F)
        BY <1>3, <2>1 DEF Sender, SameTx
    <2>3. Receiver(x, a, D, E)
        BY <1>6, <2>1 DEF Conn, Receiver, SameRx
    <2>4. Ending(x, a)
        <3>1. a.segs = {} /\ a.todo = 0 /\ "bFinSent" \notin a.bits
            <4>1. "bFinSent" \notin b.bits
                BY <1>6 DEF Conn, Phase
            <4> QED BY <1>3, <1>8, <2>1, <4>1 DEF MayClose, xTCPWindowTxDone, SameTx
        <3>2. Phase(x, b)
            BY <1>6 DEF Conn
        <3> QED BY <1>6, <2>1, <3>1, <3>2 DEF Ending, Phase
    <2>5. "bCloseRequested" \notin a.bits
        BY <2>2 DEF Sender
    <2>6. SameReceiver(AfterFin(a, p), r.s)
        BY <1>1, <1>8, <2>5, FinFrame DEF a
    <2>7. r.s.rxfin = a.rxfin
        <3>1. AfterFin(a, p).rxfin = a.rxfin
            BY <1>1, AfterFinFields DEF a
        <3> QED BY <2>6, <3>1 DEF SameReceiver, SameRx
    <2>8. TakesFin(prvTCPHandleFin(a, p, options)) => a.rxfin \in E
        BY <1>5, <1>8, <2>7 DEF a
    <2>9. "FIN" \in p.flags => "bFinRecv" \in a.bits
        BY <1>7, <2>1
    <2>10. LET v == prvTCPHandleFin(a, p, options)
           IN  /\ Conn(x, v.s, D, E, G, F) /\ \A q \in v.out : Outgoing(x, q, D, E, G, F)
               /\ v.s.got = a.got
        <3>1. a \in SockType
            BY <1>1 DEF a
        <3> QED BY <2>2, <2>3, <2>4, <2>8, <2>9, <3>1, FinKeeps
    <2>11. a.got = s.got
        BY <1>7, <2>1 DEF SameRx
    <2>12. r = prvTCPHandleFin(a, p, options)
        BY <1>8 DEF a
    <2> QED BY <2>10, <2>11, <2>12 DEF r
<1>9. CASE \/ \E o \in BOOLEAN : r = prvSendData(c, {"ACK"}, p.len, o, delay)
           \/ r = prvSendData(d, {"ACK"}, p.len, FALSE, delay)
           \/ r = AllSent(c)
    <2>1. c.bits = b.bits /\ d.bits = c.bits /\ SameRx(c, d) /\ c.rxfin = b.rxfin
        <3>1. c.bits = b.bits /\ c.rxfin = b.rxfin
            BY <1>1 DEF Passed, SockType
        <3>2. ASSUME NEW n PROVE LET v == [c EXCEPT !.our = n] IN v.bits = c.bits /\ SameRx(c, v)
            BY <1>1 DEF SockType, SameRx
        <3> HIDE DEF c
        <3> QED BY <3>1, <3>2 DEF Answering
    <2>2. "bCloseRequested" \notin c.bits /\ "bCloseRequested" \notin d.bits
        BY <1>3, <2>1 DEF Sender
    <2>3. SameReceiver(c, d)
        BY <2>1 DEF SameReceiver
    <2> HIDE DEF c, d
    <2>4. SameReceiver(c, r.s)
        <3>1. \A o \in BOOLEAN : SameReceiver(c, prvSendData(c, {"ACK"}, p.len, o, delay).s)
            BY <1>1, <2>2, SendFrame
        <3>2. SameReceiver(d, prvSendData(d, {"ACK"}, p.len, FALSE, delay).s)
            BY <1>1, <2>2, SendFrame
        <3>3. SameReceiver(c, AllSent(c).s)
            BY <1>1, <2>2, AllSentKeeps
        <3>4. SameReceiver(d, r.s) => SameReceiver(c, r.s)
            BY <2>3 DEF SameReceiver, SameRx
        <3> QED BY <1>9, <3>1, <3>2, <3>3, <3>4
    <2>5. "bFinRecv" \in c.bits /\ c.rx = c.rxfin + 1 => b.rxfin \in E
        BY <1>5, <2>1, <2>4 DEF SameReceiver, SameRx, TakesFin
    <2>6. "FIN" \in p.flags => "bFinRecv" \in b.bits
        BY <1>7
    <2>7. /\ Conn(x, c, D, E, G, F) /\ c.todo = 0 /\ c.got = b.got
          /\ Conn(x, d, D, E, G, F) /\ d.todo = 0
        BY <1>1, <1>3, <1>6, <2>5, <2>6, PassedKeeps DEF c, d
    <2>8. MayFlag(x, c, {"ACK"}) /\ MayFlag(x, d, {"ACK"})
        BY DEF MayFlag
    <2>9. \A o \in BOOLEAN :
            LET v == prvSendData(c, {"ACK"}, p.len, o, delay)
            IN  Conn(x, v.s, D, E, G, F) /\ \A q \in v.out : Outgoing(x, q, D, E, G, F)
        BY <1>1, <2>7, <2>8, SendKeeps
    <2>10. LET v == prvSendData(d, {"ACK"}, p.len, FALSE, delay)
           IN  Conn(x, v.s, D, E, G, F) /\ \A q \in v.out : Outgoing(x, q, D, E, G, F)
        BY <1>1, <2>7, <2>8, SendKeeps
    <2>11. LET v == AllSent(c)
           IN  Conn(x, v.s, D, E, G, F) /\ \A q \in v.out : Outgoing(x, q, D, E, G, F)
        BY <1>1, <2>2, <2>7, AllSentKeeps
    <2>12. Conn(x, r.s, D, E, G, F) /\ \A q \in r.out : Outgoing(x, q, D, E, G, F)
        BY <1>9, <2>9, <2>10, <2>11
    <2>13. r.s.got = s.got
        BY <1>7, <2>4, <2>7 DEF SameReceiver, SameRx
    <2> QED BY <2>12, <2>13 DEF r
<1> QED
    BY <1>4, <1>8, <1>9

-----------------------------------------------------------------------------
(***************************************************************************)
(* The hand shake.                                                          *)
(***************************************************************************)
Answered(t, p) ==
    [t EXCEPT !.state = "eSYN_RECEIVED", !.rx = p.seq + 1, !.rxhigh = p.seq + 1,
              !.next = t.first + 1, !.una = t.first + 1]

\* B answers the SYN of A.
LEMMA SynFirstKeeps ==
    ASSUME NEW t \in SockType, NEW p \in Packet, p.seq = Number("A"),
           t.first = Number("B"), t.rxfirst = Number("A"), t.our = t.first, t.nxt = t.first,
           t.segs = {}, t.stored = {}, t.todo = 0, t.bits \cap FinBits = {},
           NEW D, NEW E, NEW G, NEW F, t.got \subseteq D
    PROVE  LET r == HandleSynFirst(t, p)
           IN  /\ Conn("B", r.s, D, E, G, F) /\ r.s.got = t.got
               /\ r.s.state = "eSYN_RECEIVED" /\ r.s.ack = FALSE
               /\ \A q \in r.out : /\ Outgoing("B", q, D, E, G, F)
                                   /\ q.flags = {"SYN", "ACK"} /\ q.ack = Number("A") + 1
<1> DEFINE v == Answered(t, p)
           r == HandleSynFirst(t, p)
           out == prvTCPReturnPacket(v, {"SYN", "ACK"}, 0, TRUE)
<1>1. r = prvSendData(v, {"SYN", "ACK"}, 0, TRUE, FALSE)
    BY DEF HandleSynFirst, Answered
<1>2. /\ t.first \in Nat /\ p.seq \in Nat /\ "A" \in Socket /\ "B" \in Socket
      /\ Peer("B") = "A" /\ Peer("A") = "B"
    BY PeerOf DEF SockType, Packet, Socket
<1>3. v \in SockType
    <2>1. ASSUME NEW a \in Nat, NEW b \in Nat
          PROVE  [t EXCEPT !.state = "eSYN_RECEIVED", !.rx = a, !.rxhigh = a,
                           !.next = b, !.una = b] \in SockType
        BY DEF SockType, State
    <2>2. p.seq + 1 \in Nat /\ t.first + 1 \in Nat
        BY <1>2
    <2> QED BY <2>1, <2>2 DEF Answered
<1>4. /\ v.state = "eSYN_RECEIVED" /\ v.rx = p.seq + 1 /\ v.next = t.first + 1 /\ v.una = t.first + 1
      /\ v.first = t.first /\ v.rxfirst = t.rxfirst /\ v.our = t.our /\ v.nxt = t.nxt
      /\ v.segs = t.segs /\ v.stored = t.stored /\ v.todo = t.todo /\ v.bits = t.bits
      /\ v.got = t.got
    BY DEF Answered, SockType
<1>5. out.flags = {"SYN", "ACK"} /\ out.ack = v.rx
    BY DEF prvTCPReturnPacket
<1> HIDE DEF v, r, out
<1>6. Begins("B", v.next) /\ v.next = v.una
    BY <1>2, <1>4, FirstBegins
<1>7. Upto("B", v.next) = {}
    <2>1. v.next \in Int /\ v.next <= Number("B") + SegLen
        BY <1>2, <1>4 DEF SegLen
    <2> QED BY <1>2, <2>1, UptoFacts
<1>8. Follows("B", v.our, F) /\ Follows("B", v.una, F)
    <2>1. Follows("B", v.our, F)
        <3>1. v.our \in Int /\ v.our <= Number("B")
            BY <1>2, <1>4
        <3> QED BY <1>2, <3>1, NoBegins DEF Follows
    <2>2. Follows("B", v.una, F)
        BY <1>2, <1>6, BeginFacts DEF Follows
    <2> QED BY <2>1, <2>2
<1>9. v.una + SegLen * Cardinality(v.segs) = v.next
    <2>1. Cardinality(v.segs) = 0 /\ v.una \in Nat
        BY <1>2, <1>4, FS_EmptySet
    <2> QED BY <1>6, <2>1 DEF SegLen
<1>10. v.bits \cap FinBits = {} /\ \A b \in FinBits : b \notin v.bits
    BY <1>4
<1>11. Sender("B", v, G, F)
    BY <1>4, <1>6, <1>7, <1>8, <1>9, <1>10 DEF Sender, FinBits
<1>12. Upto("A", v.rx) = {} /\ Follows("A", v.rx, E)
    <2>1. v.rx \in Int /\ v.rx <= Number("A") + SegLen /\ v.rx = Number("A") + 1
        BY <1>2, <1>4 DEF SegLen
    <2>2. Begins("A", v.rx)
        BY <1>2, <2>1, FirstBegins
    <2> QED BY <1>2, <2>1, <2>2, UptoFacts, BeginFacts DEF Follows
<1>13. Receiver("B", v, D, E)
    BY <1>2, <1>4, <1>10, <1>12 DEF Receiver, FinBits
<1>14. Phase("B", v)
    BY <1>2, <1>4, <1>10 DEF Phase
<1>15. Conn("B", v, D, E, G, F) /\ ~ShutdownDue(v)
    BY <1>4, <1>11, <1>13, <1>14 DEF Conn, ShutdownDue
<1>16. MayFlag("B", v, {"SYN", "ACK"})
    BY <1>4 DEF MayFlag
<1>17. Conn("B", r.s, D, E, G, F) /\ \A q \in r.out : Outgoing("B", q, D, E, G, F)
    BY <1>1, <1>2, <1>3, <1>15, <1>16, SendKeeps
<1>18. SameReceiver(v, r.s) /\ r.s.state = v.state /\ r.s.ack = FALSE /\ r.out = {out}
    <2>1. v.state = "eSYN_RECEIVED" /\ v.segs = {}
        BY <1>4
    <2> DEFINE w == prvSendData(v, {"SYN", "ACK"}, 0, TRUE, FALSE)
    <2>2. SameReceiver(v, w.s) /\ w.s.state = v.state /\ w.s.ack = FALSE /\ w.out = {out}
        BY <1>3, <1>10, <2>1, SendAlone DEF out
    <2> HIDE DEF w
    <2>3. r = w
        BY <1>1 DEF w
    <2> QED BY <2>2, <2>3
<1>19. r.s.got = t.got /\ r.s.state = "eSYN_RECEIVED"
    BY <1>4, <1>18 DEF SameReceiver, SameRx
<1>20. \A q \in r.out : q.flags = {"SYN", "ACK"} /\ q.ack = Number("A") + 1
    BY <1>4, <1>5, <1>18
<1> QED
    BY <1>17, <1>18, <1>19, <1>20 DEF r

\* A socket that is not part of the connection: not yet, or not any more.
Idle(x, s) ==
    /\ s.state \in IF x = "A" THEN {"eCLOSED", "eCONNECT_SYN", "eCLOSE_WAIT", "none"}
                   ELSE {"eTCP_LISTEN", "none"}
    /\ s.segs = {} /\ s.stored = {} /\ s.got = {} /\ s.todo = 0 /\ s.rx = 0 /\ s.rxfirst = 0
    /\ s.bits \cap FinBits = {} /\ s.next \in {0, Number(x)} /\ s.una = s.next /\ s.nxt = s.next
    /\ s.first = s.next /\ s.our = s.next
    /\ s.state = "eCONNECT_SYN" /\ "bConnPrepared" \in s.bits => s.next = Number(x)
    /\ x = "A" => s.ack = FALSE /\ s.txStream = FALSE
    /\ x = "B" => s.next = 0 /\ s.bits = {}

LEMMA ListeningIdle ==
    ASSUME NEW s
    PROVE  Idle("B", Listening(s)) /\ Listening(s).ack = s.ack
<1> DEFINE t == Listening(s)
<1>1. /\ t.state = "eTCP_LISTEN" /\ t.segs = {} /\ t.stored = {} /\ t.got = {} /\ t.todo = 0
      /\ t.rx = 0 /\ t.rxfirst = 0 /\ t.bits = {} /\ t.next = 0 /\ t.una = 0 /\ t.nxt = 0
      /\ t.first = 0 /\ t.our = 0
    BY DEF Listening, NewSocket
<1>2. t.ack = s.ack
    BY DEF Listening, NewSocket
<1> HIDE DEF t
<1>3. Idle("B", t)
    BY <1>1 DEF Idle
<1> QED
    BY <1>2, <1>3 DEF t

LEMMA NotBoth ==
    ASSUME NEW x \in Socket, NEW s \in SockType, NEW D, NEW E, NEW G, NEW F,
           Conn(x, s, D, E, G, F)
    PROVE  ~Idle(x, s)
<1>1. s.next > Number(x) /\ s.next \in Nat /\ Number(x) \in Nat
    BY BeginFacts, NumberTyped DEF Conn, Sender
<1> QED
    BY <1>1 DEF Idle

\* A takes the answer of B.
LEMMA ConnectedKeeps ==
    ASSUME NEW s \in SockType, NEW p \in Packet, NEW delay, Idle("A", s),
           s.state = "eCONNECT_SYN", "bConnPrepared" \in s.bits,
           p.flags = {"SYN", "ACK"}, p.seq = Number("B"), NEW D, NEW E, NEW G, NEW F
    PROVE  LET r == prvTCPHandleState(s, p, delay)
           IN  /\ Conn("A", r.s, D, E, G, F) /\ r.s.got = {}
               /\ \A q \in r.out : Outgoing("A", q, D, E, G, F)
<1> DEFINE r == prvTCPHandleState(s, p, delay)
           t == Arrived(s, p)
           v == Connected(t, p)
           o == Options(s, p) /\ s.state # "eCONNECT_SYN"
<1>1. t \in SockType
    BY ArrivedTyped
<1>2. /\ t.state = s.state /\ SameTx(s, t) /\ s.bits \subseteq t.bits
      /\ t.bits \subseteq s.bits \cup {"bWinChange"}
      /\ t.stored = s.stored /\ t.got = s.got
    BY ArrivedFrame
<1>3. p.flags \ {"PSH"} = {"SYN", "ACK"}
    OBVIOUS
<1>4. o \in BOOLEAN
    BY DEF Options
<1>5. r = prvHandleSynReceived(t, p, o, delay)
    BY HandleCases DEF Handles
<1> HIDE DEF t, o, r
<1>6. r = prvSendData(v, {"ACK"}, p.len, o, delay)
    BY <1>2, <1>3, <1>5 DEF prvHandleSynReceived, Connected
<1>7. t.our = Number("A") /\ t.our \in Nat /\ p.seq \in Nat /\ "A" \in Socket /\ "B" \in Socket
    BY <1>1, <1>2 DEF Idle, SameTx, SockType, Packet, Socket
<1>8. v \in SockType
    BY <1>1, ConnectedTyped
<1>9. /\ v.state = "eESTABLISHED" /\ v.rx = p.seq + 1 /\ v.next = t.our + 1 /\ v.una = t.our + 1
      /\ v.first = t.our /\ v.rxfirst = p.seq /\ v.our = t.our + 1 /\ v.nxt = t.our
      /\ v.segs = t.segs /\ v.stored = t.stored /\ v.todo = t.todo /\ v.bits = t.bits
      /\ v.got = t.got
    BY <1>1, ConnectedTyped
<1> HIDE DEF v
<1>10. /\ v.segs = {} /\ v.stored = {} /\ v.todo = 0 /\ v.got = {}
       /\ \A b \in FinBits : b \notin v.bits
       /\ "bConnPrepared" \in v.bits
    BY <1>2, <1>9 DEF Idle, SameTx, FinBits
<1>11. v.next = Number("A") + 1 /\ v.rx = Number("B") + 1 /\ Number("A") \in Nat /\ Number("B") \in Nat
    BY <1>7, <1>9
<1>12. Begins("A", v.next) /\ Begins("B", v.rx)
    BY <1>7, <1>11, FirstBegins
<1>13. Upto("A", v.next) = {} /\ Upto("B", v.rx) = {}
    <2>1. v.next \in Int /\ v.next <= Number("A") + SegLen
        BY <1>11 DEF SegLen
    <2>2. v.rx \in Int /\ v.rx <= Number("B") + SegLen
        BY <1>11 DEF SegLen
    <2> QED BY <1>7, <2>1, <2>2, UptoFacts
<1>14. Follows("A", v.next, F) /\ Follows("B", v.rx, E)
    BY <1>7, <1>12, BeginFacts DEF Follows
<1>15. v.una + SegLen * Cardinality(v.segs) = v.next
    <2>1. Cardinality(v.segs) = 0 /\ v.una \in Nat /\ v.una = v.next
        BY <1>7, <1>9, <1>10, FS_EmptySet
    <2> QED BY <2>1 DEF SegLen
<1>16. Sender("A", v, G, F)
    BY <1>7, <1>9, <1>10, <1>12, <1>13, <1>14, <1>15 DEF Sender, FinBits
<1>17. Receiver("A", v, D, E)
    BY <1>10, <1>13, <1>14, PeerOf DEF Receiver, FinBits
<1>18. Phase("A", v)
    BY <1>7, <1>9, <1>10, PeerOf DEF Phase, FinBits
<1>19. Conn("A", v, D, E, G, F) /\ (ShutdownDue(v) => v.todo = 0) /\ MayFlag("A", v, {"ACK"})
    BY <1>10, <1>16, <1>17, <1>18 DEF Conn, MayFlag
<1>20. Conn("A", r.s, D, E, G, F) /\ \A q \in r.out : Outgoing("A", q, D, E, G, F)
    BY <1>4, <1>6, <1>7, <1>8, <1>19, SendKeeps
<1>21. r.s.got = {}
    <2>1. SameReceiver(v, r.s)
        BY <1>6, <1>8, <1>10, SendFrame DEF FinBits
    <2> QED BY <1>10, <2>1 DEF SameReceiver, SameRx
<1> QED
    BY <1>20, <1>21 DEF r

\* The acknowledgement that ends the hand shake, or what refuses it.  Its sequence
\* number is taken over: then B may have skipped segments.
LEMMA SynReceivedKeeps ==
    ASSUME NEW s \in SockType, NEW p \in Packet, NEW o \in BOOLEAN, NEW delay,
           NEW D, NEW E, NEW G, NEW F, NEW D1, NEW E1,
           Conn("B", s, D, E, G, F), s.state = "eSYN_RECEIVED",
           Outgoing("A", p, G, F, D, E), "RST" \notin p.flags,
           D \subseteq D1, E \subseteq E1,
           LET r == prvHandleSynReceived(Arrived(s, p), p, o, delay)
           IN  /\ r.s.got \subseteq D1
               /\ r.s.state = "eESTABLISHED" /\ r.s.rx > s.rx /\ p.len = 0 => D1 = Nat
    PROVE  LET r == prvHandleSynReceived(Arrived(s, p), p, o, delay)
           IN  /\ \/ Conn("B", r.s, D1, E1, G, F) /\ s.got \subseteq r.s.got
                  \/ Idle("B", r.s)
               /\ \A q \in r.out : Outgoing("B", q, D1, E1, G, F)
<1> DEFINE t == Arrived(s, p)
           r == prvHandleSynReceived(t, p, o, delay)
           v == Accepted(t, p)
           w == prvSendData(v, {"ACK"}, p.len, o, delay)
           f == Refused(t, p)
<1>1. t \in SockType
    BY ArrivedTyped
<1>2. /\ t.state = s.state /\ t.first = s.first /\ t.rxfirst = s.rxfirst
      /\ SameTx(s, t) /\ s.bits \subseteq t.bits
      /\ "FIN" \notin p.flags => t.bits \subseteq s.bits \cup {"bWinChange"}
      /\ s.got \subseteq t.got
    BY ArrivedFrame
<1>3. Sender("B", s, G, F) /\ Receiver("B", s, D, E) /\ Phase("B", s)
    BY DEF Conn
<1>4. "A" \in Socket /\ "B" \in Socket /\ Peer("B") = "A" /\ Peer("A") = "B"
    BY PeerOf DEF Socket
<1>5. /\ p.flags \ {"PSH"} # {"ACK"} =>
             r = Result(vTCPStateChange(f, "eCLOSE_WAIT"),
                        {prvTCPReturnPacket(f, {"ACK", "RST"}, 0, o)})
      /\ p.flags \ {"PSH"} = {"ACK"} => r = IF p.len = 0 THEN Result(v, {}) ELSE w
    BY <1>2 DEF prvHandleSynReceived, Refused, Accepted
<1>6. r.s.got \subseteq D1 /\ (r.s.state = "eESTABLISHED" /\ r.s.rx > s.rx /\ p.len = 0 => D1 = Nat)
    OBVIOUS
<1>7. Arrived(s, p).got = t.got
    OBVIOUS
<1> HIDE DEF t, r
<1>8. CASE p.flags \ {"PSH"} # {"ACK"}
    <2>1. f.state = "eSYN_RECEIVED"
        BY <1>1, <1>2 DEF Refused, SockType
    <2>2. vTCPStateChange(f, "eCLOSE_WAIT") = Listening(f)
        BY <2>1 DEF vTCPStateChange
    <2> HIDE DEF f
    <2>3. r.s = Listening(f) /\ r.out = {prvTCPReturnPacket(f, {"ACK", "RST"}, 0, o)}
        BY <1>5, <1>8, <2>2 DEF Result
    <2>4. Idle("B", r.s)
        BY <2>3, ListeningIdle
    <2>5. "RST" \in prvTCPReturnPacket(f, {"ACK", "RST"}, 0, o).flags
        BY DEF prvTCPReturnPacket
    <2>6. \A q \in r.out : Outgoing("B", q, D1, E1, G, F)
        BY <2>3, <2>5 DEF Outgoing
    <2> QED BY <2>4, <2>6 DEF r, t
<1>9. CASE p.flags \ {"PSH"} = {"ACK"}
    <2>1. "FIN" \notin p.flags
        BY <1>9
    <2>2. /\ v.state = "eESTABLISHED" /\ v.rx = (IF p.len = 0 THEN p.seq ELSE t.rx)
          /\ v.next = t.next /\ v.una = t.una /\ v.txfin = t.txfin
          /\ v.first = t.first /\ v.rxfirst = t.rxfirst /\ v.our = t.first + 1 /\ v.nxt = t.nxt
          /\ v.segs = t.segs /\ v.stored = t.stored /\ v.todo = t.todo /\ v.bits = t.bits
          /\ v.got = t.got /\ v.rxfin = t.rxfin
        BY <1>1 DEF Accepted, SockType
    <2>3. v \in SockType
        <3>1. ASSUME NEW a \in Nat, NEW b \in Nat
              PROVE  [t EXCEPT !.rx = a, !.our = b, !.state = "eESTABLISHED"] \in SockType
            BY <1>1 DEF SockType, State
        <3>2. (IF p.len = 0 THEN p.seq ELSE t.rx) \in Nat /\ t.first + 1 \in Nat
            BY <1>1 DEF SockType, Packet
        <3> QED BY <3>1, <3>2 DEF Accepted
    <2> HIDE DEF v
    <2>4. \A b \in FinBits : b \notin v.bits
        BY <1>2, <1>3, <2>1, <2>2 DEF Phase, FinBits
    <2>5. SameReceiver(v, w.s)
        BY <2>3, <2>4, SendFrame DEF FinBits
    <2>6. (r = Result(v, {}) /\ p.len = 0) \/ (r = w /\ p.len # 0)
        BY <1>5, <1>9
    <2>7. r.s.got = t.got
        BY <2>2, <2>5, <2>6 DEF Result, SameReceiver, SameRx
    <2>8. Sender("B", t, G, F) /\ Receiver("B", t, D1, E1)
        <3>1. Arrived(s, p).got \subseteq D1
            BY <1>6, <1>7, <2>7
        <3> QED BY <1>3, <1>4, <3>1, ArrivedKeeps DEF t
    <2>9. Begins("B", v.our) /\ s.first = Number("B") /\ v.our \in Nat
        BY <1>2, <1>3, <1>4, <2>2, FirstBegins, NumberTyped DEF Phase
    <2>10. Sender("B", v, G, F)
        <3>1. Follows("B", v.our, F)
            BY <1>4, <2>9, BeginFacts DEF Follows
        <3> QED BY <2>2, <2>8, <3>1 DEF Sender
    <2>11. Upto("A", v.rx) \subseteq D1 /\ Follows("A", v.rx, E1)
        <3>1. CASE p.len = 0
            <4>1. v.rx = p.seq /\ p.seq \in Nat /\ s.rx = Number("A") + 1 /\ Number("A") \in Nat
                BY <1>3, <1>4, <2>2, <3>1, NumberTyped DEF Phase, Packet
            <4>2. Follows("A", p.seq, E)
                BY DEF Outgoing
            <4>3. Upto("A", p.seq) \subseteq D1
                <5>1. CASE p.seq > s.rx
                    <6>1. D1 = Nat
                        BY <1>6, <2>2, <2>6, <3>1, <4>1, <5>1 DEF Result
                    <6>2. \A q \in Upto("A", p.seq) : q \in Nat
                        BY <1>4, <4>1, UptoElements, BeginFacts
                    <6> QED BY <6>1, <6>2
                <5>2. CASE ~(p.seq > s.rx)
                    <6>1. p.seq <= Number("A") + SegLen
                        BY <4>1, <5>2 DEF SegLen
                    <6>2. Upto("A", p.seq) = {}
                        BY <1>4, <4>1, <6>1, UptoFacts
                    <6> QED BY <6>2
                <5> QED BY <5>1, <5>2
            <4> QED BY <4>1, <4>2, <4>3 DEF Follows
        <3>2. CASE p.len # 0
            BY <1>4, <2>2, <2>8, <3>2 DEF Receiver
        <3> QED BY <3>1, <3>2
    <2>12. Receiver("B", v, D1, E1)
        BY <1>4, <2>2, <2>8, <2>11 DEF Receiver
    <2>13. Phase("B", v)
        BY <1>2, <1>3, <2>2, <2>4 DEF Phase, FinBits
    <2>14. Conn("B", v, D1, E1, G, F) /\ (ShutdownDue(v) => v.todo = 0) /\ MayFlag("B", v, {"ACK"})
        <3>1. ~ShutdownDue(v)
            BY <2>4 DEF ShutdownDue, FinBits
        <3> QED BY <2>10, <2>12, <2>13, <3>1 DEF Conn, MayFlag
    <2>15. Conn("B", w.s, D1, E1, G, F) /\ \A q \in w.out : Outgoing("B", q, D1, E1, G, F)
        BY <1>4, <2>3, <2>14, SendKeeps
    <2> HIDE DEF w
    <2>16. Conn("B", r.s, D1, E1, G, F) /\ \A q \in r.out : Outgoing("B", q, D1, E1, G, F)
        <3>1. CASE r = w
            BY <2>15, <3>1
        <3>2. CASE r = Result(v, {})
            <4>1. r.s = v /\ r.out = {}
                BY <3>2 DEF Result
            <4> QED BY <2>14, <4>1
        <3> QED BY <2>6, <3>1, <3>2
    <2>17. s.got \subseteq r.s.got
        BY <1>2, <2>7
    <2> QED BY <2>16, <2>17 DEF r, t
<1> QED
    BY <1>8, <1>9

-----------------------------------------------------------------------------
(***************************************************************************)
(* Whatever packet of the connection arrives, and whenever the timer runs,   *)
(* the socket stays in the connection or listens again.                     *)
(***************************************************************************)
Stays(x, s, r, D, E, G, F) ==
    /\ \/ Conn(x, r.s, D, E, G, F) /\ s.got \subseteq r.s.got
       \/ x = "B" /\ Idle(x, r.s)
    /\ \A q \in r.out : Outgoing(x, q, D, E, G, F)

\* What the history of x holds after the packet p.
Remembers(s, p, r, D, E) ==
    /\ r.s.got \subseteq D
    /\ TakesFin(r) => r.s.rxfin \in E
    /\ s.state = "eSYN_RECEIVED" /\ r.s.state = "eESTABLISHED" /\ r.s.rx > s.rx /\ p.len = 0 => D = Nat

LEMMA HandleSynKeeps ==
    ASSUME NEW s \in SockType, NEW p \in Packet, NEW delay, NEW x \in Socket,
           NEW D, NEW E, NEW G, NEW F, NEW D1, NEW E1,
           Conn(x, s, D, E, G, F), s.state = "eSYN_RECEIVED",
           Outgoing(Peer(x), p, G, F, D, E), "RST" \notin p.flags, D \subseteq D1, E \subseteq E1,
           Remembers(s, p, prvTCPHandleState(s, p, delay), D1, E1)
    PROVE  Stays(x, s, prvTCPHandleState(s, p, delay), D1, E1, G, F)
<1> DEFINE r == prvTCPHandleState(s, p, delay)
           t == Arrived(s, p)
           o == Options(s, p) /\ s.state # "eCONNECT_SYN"
<1>1. x = "B" /\ Peer(x) = "A"
    BY PeerOf DEF Conn, Phase
<1>2. o \in BOOLEAN
    BY DEF Options
<1>3. /\ p.flags = {"SYN"} => r = HandleSynFirst(t, p)
      /\ p.flags # {"SYN"} => r = prvHandleSynReceived(t, p, o, delay)
    BY HandleCases DEF Handles
<1>4. t \in SockType
    BY ArrivedTyped
<1>5. Remembers(s, p, r, D1, E1)
    OBVIOUS
<1> HIDE DEF r, o
<1>6. CASE p.flags = {"SYN"}
    <2>1. p.seq = Number("A") /\ p.len = 0
        BY <1>1, <1>6 DEF Outgoing
    <2>2. /\ t.first = s.first /\ t.rxfirst = s.rxfirst /\ SameTx(s, t)
          /\ t.bits \subseteq s.bits \cup {"bWinChange"} /\ t.stored = s.stored /\ t.got = s.got
        BY <1>6, <2>1, ArrivedFrame DEF SegLen
    <2> HIDE DEF t
    <2>3. Phase("B", s) /\ Receiver("B", s, D, E)
        BY <1>1 DEF Conn
    <2>4. /\ t.first = Number("B") /\ t.rxfirst = Number("A") /\ t.our = t.first /\ t.nxt = t.first
          /\ t.segs = {} /\ t.stored = {} /\ t.todo = 0
        BY <2>2, <2>3, PeerOf DEF Phase, SameTx
    <2>5. t.bits \cap FinBits = {}
        BY <2>2, <2>3 DEF Phase, FinBits
    <2>6. t.got \subseteq D1
        BY <2>2, <2>3 DEF Receiver
    <2>7. LET v == HandleSynFirst(t, p)
          IN  /\ Conn("B", v.s, D1, E1, G, F) /\ v.s.got = t.got
              /\ \A q \in v.out : Outgoing("B", q, D1, E1, G, F)
        BY <1>4, <2>1, <2>4, <2>5, <2>6, SynFirstKeeps
    <2>8. Stays(x, s, r, D1, E1, G, F)
        BY <1>1, <1>3, <1>6, <2>2, <2>7 DEF Stays
    <2> QED BY <2>8 DEF r
<1>7. CASE p.flags # {"SYN"}
    <2> DEFINE v == prvHandleSynReceived(Arrived(s, p), p, o, delay)
    <2>1. r = v
        BY <1>3, <1>7
    <2>2. v.s.got \subseteq D1 /\ (v.s.state = "eESTABLISHED" /\ v.s.rx > s.rx /\ p.len = 0 => D1 = Nat)
        <3> HIDE DEF v
        <3> QED BY <1>5, <2>1 DEF Remembers
    <2>3. Conn("B", s, D, E, G, F) /\ Outgoing("A", p, G, F, D, E)
        BY <1>1
    <2>4. /\ \/ Conn("B", v.s, D1, E1, G, F) /\ s.got \subseteq v.s.got
             \/ Idle("B", v.s)
          /\ \A q \in v.out : Outgoing("B", q, D1, E1, G, F)
        BY <1>2, <2>2, <2>3, SynReceivedKeeps
    <2> HIDE DEF v
    <2>5. Stays(x, s, v, D1, E1, G, F)
        BY <1>1, <2>4 DEF Stays
    <2> QED BY <2>1, <2>5 DEF r
<1> QED
    BY <1>6, <1>7

LEMMA HandleOpenKeeps ==
    ASSUME NEW s \in SockType, NEW p \in Packet, NEW delay, NEW x \in Socket,
           NEW D, NEW E, NEW G, NEW F, NEW D1, NEW E1,
           Conn(x, s, D, E, G, F), s.state \in {"eESTABLISHED", "eFIN_WAIT_1", "eLAST_ACK"},
           Outgoing(Peer(x), p, G, F, D, E), "RST" \notin p.flags, D \subseteq D1, E \subseteq E1,
           Remembers(s, p, prvTCPHandleState(s, p, delay), D1, E1)
    PROVE  Stays(x, s, prvTCPHandleState(s, p, delay), D1, E1, G, F)
<1> DEFINE r == prvTCPHandleState(s, p, delay)
           t == Arrived(s, p)
           o == Options(s, p) /\ s.state # "eCONNECT_SYN"
           D2 == D1 \cup t.got
<1>1. Peer(x) \in Socket /\ Peer(Peer(x)) = x
    BY PeerOf DEF Socket
<1>2. o \in BOOLEAN
    BY DEF Options
<1>3. /\ s.state = "eESTABLISHED" => r = prvHandleEstablished(t, p, o, delay)
      /\ s.state \in {"eFIN_WAIT_1", "eLAST_ACK"} => r = prvTCPHandleFin(t, p, o)
    BY HandleCases DEF Handles
<1>4. t \in SockType
    BY ArrivedTyped
<1>5. r.s.got \subseteq D1 /\ (TakesFin(r) => r.s.rxfin \in E1)
    BY DEF Remembers
<1>6. Sender(x, s, G, F) /\ Receiver(x, s, D, E) /\ Phase(x, s)
    BY DEF Conn
<1>7. Sender(x, t, G, F) /\ Receiver(x, t, D2, E1)
    <2>1. t.got \subseteq D2 /\ D \subseteq D2
        OBVIOUS
    <2> HIDE DEF D2
    <2> QED BY <1>6, <2>1, ArrivedKeeps
<1>8. /\ t.state = s.state /\ t.first = s.first /\ t.rxfirst = s.rxfirst
      /\ SameTx(s, t) /\ s.bits \subseteq t.bits
      /\ t.bits \subseteq s.bits \cup {"bWinChange", "bFinRecv", "bFinLast"}
      /\ "FIN" \in p.flags => "bFinRecv" \in t.bits
      /\ s.got \subseteq t.got
    BY ArrivedFrame
<1>9. Upto(x, p.ack) \subseteq G /\ Follows(x, p.ack, F)
    BY <1>1 DEF Outgoing
<1> HIDE DEF r, t, o, D2
<1>10. /\ Conn(x, r.s, D2, E1, G, F) /\ (\A q \in r.out : Outgoing(x, q, D2, E1, G, F))
       /\ r.s.got = t.got
    <2>1. CASE s.state = "eESTABLISHED"
        <3>1. Phase(x, t) /\ t.state = "eESTABLISHED"
            BY <1>6, <1>8, <2>1 DEF Phase
        <3>2. Conn(x, t, D2, E1, G, F)
            BY <1>7, <3>1 DEF Conn
        <3> DEFINE v == prvHandleEstablished(t, p, o, delay)
        <3>3. r = v
            BY <1>3, <2>1
        <3>4. TakesFin(v) => v.s.rxfin \in E1
            <4> HIDE DEF v
            <4> QED BY <1>5, <3>3
        <3>5. /\ Conn(x, v.s, D2, E1, G, F) /\ (\A q \in v.out : Outgoing(x, q, D2, E1, G, F))
              /\ v.s.got = t.got
            BY <1>2, <1>4, <1>8, <1>9, <3>1, <3>2, <3>4, EstablishedKeeps
        <3> HIDE DEF v
        <3> QED BY <3>3, <3>5
    <2>2. CASE s.state \in {"eFIN_WAIT_1", "eLAST_ACK"}
        <3>1. Ending(x, t)
            BY <1>6, <1>8, <2>2 DEF Ending, Phase
        <3> DEFINE v == prvTCPHandleFin(t, p, o)
        <3>2. r = v
            BY <1>3, <2>2
        <3>3. v.s.rxfin = t.rxfin
            <4>1. "bCloseRequested" \notin t.bits
                BY <1>7 DEF Sender
            <4>2. SameReceiver(AfterFin(t, p), v.s)
                BY <1>2, <1>4, <4>1, FinFrame
            <4>3. AfterFin(t, p).rxfin = t.rxfin
                BY <1>4, AfterFinFields
            <4> HIDE DEF v
            <4> QED BY <4>2, <4>3 DEF SameReceiver, SameRx
        <3>4. TakesFin(v) => t.rxfin \in E1
            <4> HIDE DEF v
            <4> QED BY <1>5, <3>2, <3>3
        <3>5. /\ Conn(x, v.s, D2, E1, G, F) /\ (\A q \in v.out : Outgoing(x, q, D2, E1, G, F))
              /\ v.s.got = t.got
            BY <1>2, <1>4, <1>7, <1>8, <1>9, <3>1, <3>4, FinKeeps
        <3> HIDE DEF v
        <3> QED BY <3>2, <3>5
    <2> QED BY <2>1, <2>2
<1>11. D2 = D1
    BY <1>5, <1>10 DEF D2
<1>12. Stays(x, s, r, D1, E1, G, F)
    BY <1>8, <1>10, <1>11 DEF Stays
<1> QED
    BY <1>12 DEF r

\* Changes of a socket that the connection does not depend on.
LEMMA RestartedKeeps ==
    ASSUME NEW s \in SockType
    PROVE  LET t == Restarted(s)
           IN  /\ t \in SockType /\ t.state = s.state /\ t.rx = s.rx /\ t.got = s.got
               /\ \A x, D, E, G, F : Conn(x, s, D, E, G, F) => Conn(x, t, D, E, G, F)
<1> DEFINE t == Restarted(s)
<1>1. t \in SockType
    BY DEF Restarted, SockType
<1>2. /\ t.bits = s.bits /\ t.state = s.state /\ t.first = s.first /\ t.rxfirst = s.rxfirst
      /\ SameTx(s, t) /\ SameRx(s, t)
    BY DEF Restarted, SockType, SameTx, SameRx
<1> HIDE DEF t
<1>3. ASSUME NEW x, NEW D, NEW E, NEW G, NEW F, Conn(x, s, D, E, G, F)
      PROVE  Conn(x, t, D, E, G, F)
    <2>1. Sender(x, t, G, F)
        BY <1>2, <1>3 DEF Conn, Sender, SameTx
    <2>2. Receiver(x, t, D, E)
        BY <1>2, <1>3 DEF Conn, Receiver, SameRx
    <2>3. Phase(x, t)
        BY <1>2, <1>3 DEF Conn, Phase, SameTx, SameRx
    <2> QED BY <2>1, <2>2, <2>3 DEF Conn
<1> QED
    BY <1>1, <1>2, <1>3 DEF t, SameRx

LEMMA EndedKeeps ==
    ASSUME NEW s \in SockType, NEW x, NEW D, NEW E, NEW G, NEW F, Conn(x, s, D, E, G, F),
           NEW new \in {"eCLOSED", "eCLOSE_WAIT"}, new = "eCLOSE_WAIT" => "bFinSent" \in s.bits
    PROVE  Conn(x, [s EXCEPT !.state = new], D, E, G, F)
<1> DEFINE t == [s EXCEPT !.state = new]
<1>1. /\ t.bits = s.bits /\ t.state = new /\ t.first = s.first /\ t.rxfirst = s.rxfirst
      /\ SameTx(s, t) /\ SameRx(s, t)
    BY DEF SockType, SameTx, SameRx
<1> HIDE DEF t
<1>2. Sender(x, t, G, F)
    BY <1>1 DEF Conn, Sender, SameTx
<1>3. Receiver(x, t, D, E)
    BY <1>1 DEF Conn, Receiver, SameRx
<1>4. Phase(x, t)
    BY <1>1 DEF Conn, Phase
<1> QED
    BY <1>2, <1>3, <1>4 DEF Conn, t

\* A reset ends the connection of the socket, or is answered with what it expects.
LEMMA ResetKeeps ==
    ASSUME NEW s \in SockType, NEW p \in Packet, NEW x \in Socket, NEW D, NEW E, NEW G, NEW F,
           Conn(x, s, D, E, G, F)
    PROVE  Stays(x, s, HandleReset(s, p), D, E, G, F)
<1> DEFINE r == HandleReset(s, p)
           u == [s EXCEPT !.state = "eCLOSED"]
           k == prvTCPReturnPacket(s, {"ACK"}, 0, FALSE)
<1>1. s.state # "eCONNECT_SYN"
    BY DEF Conn, Phase
<1>2. vTCPStateChange(s, "eCLOSED") = u
    BY DEF vTCPStateChange
<1>3. prvTCPSendChallengeAck(s) = k
    BY DEF prvTCPSendChallengeAck, prvTCPReturnPacket
<1>4. r = Result(s, {}) \/ r = Result(u, {}) \/ r = Result(s, {k})
    BY <1>1, <1>2, <1>3 DEF HandleReset
<1>5. Conn(x, u, D, E, G, F) /\ u.got = s.got
    BY EndedKeeps DEF SockType
<1>6. Outgoing(x, k, D, E, G, F)
    <2>1. MayFlag(x, s, {"ACK"})
        BY DEF MayFlag
    <2> QED BY <2>1, AnswerKeeps DEF Conn
<1>7. \A v, w : Result(v, w).s = v /\ Result(v, w).out = w
    BY DEF Result
<1> HIDE DEF r, u, k
<1>8. Stays(x, s, r, D, E, G, F)
    BY <1>4, <1>5, <1>6, <1>7 DEF Stays
<1> QED
    BY <1>8 DEF r

LEMMA ProcessKeeps ==
    ASSUME NEW s \in SockType, NEW p \in Packet, NEW iss, NEW delay, NEW x \in Socket,
           NEW D, NEW E, NEW G, NEW F, NEW D1, NEW E1,
           Conn(x, s, D, E, G, F), Outgoing(Peer(x), p, G, F, D, E), D \subseteq D1, E \subseteq E1,
           Remembers(s, p, xProcessReceivedTCPPacket(s, p, iss, delay), D1, E1)
    PROVE  Stays(x, s, xProcessReceivedTCPPacket(s, p, iss, delay), D1, E1, G, F)
<1> DEFINE r == xProcessReceivedTCPPacket(s, p, iss, delay)
           t == Restarted(s)
           k == prvTCPSendReset(p)
<1>1. /\ t \in SockType /\ t.state = s.state /\ t.rx = s.rx /\ t.got = s.got
      /\ Conn(x, t, D, E, G, F)
    BY RestartedKeeps
<1>2. Conn(x, s, D1, E1, G, F) /\ Conn(x, t, D1, E1, G, F)
    BY <1>1, TakenMore
<1>3. "RST" \in k.flags
    BY DEF prvTCPSendReset
<1>4. Outgoing(x, k, D1, E1, G, F)
    BY <1>3 DEF Outgoing
<1>5. s.state \in {"eCLOSED", "eCLOSE_WAIT"} \cup Handles
    BY DEF Conn, Phase, Handles
<1>6. Remembers(s, p, r, D1, E1)
    OBVIOUS
<1>7. \A v, w : Result(v, w).s = v /\ Result(v, w).out = w
    BY DEF Result
<1>8. /\ s.state \in {"eCLOSED", "eCLOSE_WAIT"} => r = Result(s, {}) \/ r = Result(s, {k})
      /\ s.state \in Handles /\ "RST" \in p.flags => r = HandleReset(t, p)
      /\ s.state \in Handles /\ "RST" \notin p.flags =>
            r = Result(t, {}) \/ r = prvTCPHandleState(t, p, delay)
    BY ProcessCases
<1> HIDE DEF r, t, k
<1>9. CASE r = Result(s, {}) \/ r = Result(s, {k}) \/ r = Result(t, {})
    <2>1. Stays(x, s, r, D1, E1, G, F)
        BY <1>1, <1>2, <1>4, <1>7, <1>9 DEF Stays
    <2> QED BY <2>1 DEF r
<1>10. CASE r = HandleReset(t, p)
    <2>1. Stays(x, t, r, D1, E1, G, F)
        BY <1>1, <1>2, <1>10, ResetKeeps
    <2>2. Stays(x, s, r, D1, E1, G, F)
        BY <1>1, <2>1 DEF Stays
    <2> QED BY <2>2 DEF r
<1>11. CASE s.state \in Handles /\ "RST" \notin p.flags /\ r = prvTCPHandleState(t, p, delay)
    <2>1. Remembers(t, p, r, D1, E1)
        BY <1>1, <1>6 DEF Remembers
    <2>2. Remembers(t, p, prvTCPHandleState(t, p, delay), D1, E1)
        BY <1>11, <2>1
    <2>3. t.state \in {"eSYN_RECEIVED", "eESTABLISHED", "eFIN_WAIT_1", "eLAST_ACK"}
        BY <1>1, <1>11 DEF Conn, Phase, Handles
    <2>4. Stays(x, t, prvTCPHandleState(t, p, delay), D1, E1, G, F)
        <3>1. CASE t.state = "eSYN_RECEIVED"
            BY <1>1, <1>11, <2>2, <3>1, HandleSynKeeps
        <3>2. CASE t.state \in {"eESTABLISHED", "eFIN_WAIT_1", "eLAST_ACK"}
            BY <1>1, <1>11, <2>2, <3>2, HandleOpenKeeps
        <3> QED BY <2>3, <3>1, <3>2
    <2>5. Stays(x, s, r, D1, E1, G, F)
        BY <1>1, <1>11, <2>4 DEF Stays
    <2> QED BY <2>5 DEF r
<1> QED
    BY <1>5, <1>8, <1>9, <1>10, <1>11

LEMMA FilledKeeps ==
    ASSUME NEW s \in SockType, NEW x \in Socket, NEW D, NEW E, NEW G, NEW F,
           Conn(x, s, D, E, G, F)
    PROVE  LET a == Filled(s)
               b == Freed(a)
           IN  /\ Conn(x, a, D, E, G, F) /\ Conn(x, b, D, E, G, F)
               /\ a.state = s.state /\ b.state = s.state /\ b.got = s.got
               /\ s.state \in Atleast_eESTABLISHED => b.todo = 0
<1> DEFINE a == Filled(s)
           b == Freed(a)
           n == IF Confirming(a) THEN a.bits \ {"bWinChange"} ELSE a.bits
<1>1. a \in SockType /\ b \in SockType
    BY FilledTyped
<1>2. Sender(x, s, G, F) /\ Receiver(x, s, D, E) /\ Phase(x, s)
    BY DEF Conn
<1>3. /\ Sender(x, a, G, F) /\ SameState(s, a) /\ SameRx(s, a)
      /\ s.state \in Atleast_eESTABLISHED => a.todo = 0
      /\ s.state \notin Atleast_eESTABLISHED => a = s
    <2>1. CASE s.state \in Atleast_eESTABLISHED
        BY <1>2, <2>1, AddKeeps DEF Filled
    <2>2. CASE s.state \notin Atleast_eESTABLISHED
        BY <1>2, <2>2 DEF Filled, SameState, SameRx
    <2> QED BY <2>1, <2>2
<1>4. b = [a EXCEPT !.ack = FALSE, !.bits = n]
    BY DEF Freed
<1>5. \A v \in FinBits \cup {"bConnPrepared"} : v \in n <=> v \in a.bits
    BY DEF FinBits
<1> HIDE DEF a, b, n
<1>6. /\ b.bits = n /\ b.state = a.state /\ b.first = a.first /\ b.rxfirst = a.rxfirst
      /\ SameTx(a, b) /\ SameRx(a, b)
    BY <1>1, <1>4 DEF SockType, SameTx, SameRx
<1>7. Receiver(x, a, D, E)
    BY <1>2, <1>3 DEF Receiver, SameState, SameRx
<1>8. Phase(x, a)
    BY <1>2, <1>3 DEF Phase, SameState, Atleast_eESTABLISHED
<1>9. Sender(x, b, G, F)
    BY <1>3, <1>5, <1>6 DEF Sender, SameTx, FinBits
<1>10. Receiver(x, b, D, E)
    BY <1>5, <1>6, <1>7 DEF Receiver, SameRx, FinBits
<1>11. Phase(x, b)
    <2>1. b.bits \cap FinBits = a.bits \cap FinBits
        BY <1>5, <1>6
    <2>2. \A v \in {"bFinSent", "bFinAccepted", "bConnPrepared"} : v \in b.bits <=> v \in a.bits
        BY <1>5, <1>6 DEF FinBits
    <2> QED BY <1>6, <1>8, <2>1, <2>2 DEF Phase, SameTx, SameRx
<1>12. /\ Conn(x, a, D, E, G, F) /\ Conn(x, b, D, E, G, F)
       /\ a.state = s.state /\ b.state = s.state /\ b.got = s.got
       /\ s.state \in Atleast_eESTABLISHED => b.todo = 0
    BY <1>3, <1>6, <1>7, <1>8, <1>9, <1>10, <1>11 DEF Conn, SameState, SameRx, SameTx
<1> QED
    BY <1>12 DEF a, b

LEMMA CheckKeeps ==
    ASSUME NEW s \in SockType, NEW resend, NEW old, NEW resolved, NEW x \in Socket,
           NEW D, NEW E, NEW G, NEW F, Conn(x, s, D, E, G, F)
    PROVE  LET r == xTCPSocketCheck(s, resend, old, resolved)
           IN  Stays(x, s, r, D, E, G, F) /\ (r.s.got = s.got \/ (x = "B" /\ Idle(x, r.s)))
<1> DEFINE a == Filled(s)
           b == Freed(a)
           Q == Due(a, resend)
           c == CheckSends(s, resend, resolved)
           rep == prvTCPSendRepeated(b, Q)
           k == prvTCPReturnPacket(a, {"ACK"}, 0, FALSE)
           r == xTCPSocketCheck(s, resend, old, resolved)
<1>1. a \in SockType /\ b \in SockType /\ Q \in SUBSET b.segs
    BY FilledTyped
<1>2. /\ Conn(x, a, D, E, G, F) /\ Conn(x, b, D, E, G, F)
      /\ a.state = s.state /\ b.state = s.state /\ b.got = s.got
      /\ s.state \in Atleast_eESTABLISHED => b.todo = 0
    BY FilledKeeps
<1>3. s.state # "eCONNECT_SYN"
    BY DEF Conn, Phase
<1>4. c = Result(b, {}) \/ (s.state \in Atleast_eESTABLISHED /\ c = rep)
    <2>1. c = SendsNow(a, Q, resolved)
        BY DEF CheckSends
    <2> HIDE DEF a, Q
    <2> QED BY <1>2, <1>3, <2>1 DEF SendsNow
<1>5. c \in ResultType
    BY SendsNowTyped
<1>6. PICK u \in CheckEnds(s, c) : r = Result(u, CheckOut(s, c))
    BY CheckCases
<1>7. \A q \in CheckOut(s, c) : q \in c.out \/ q = k
    BY DEF CheckOut
<1>8. u = c.s \/ (u = vTCPStateChange(c.s, "eCLOSE_WAIT") /\ MayHang(s) /\ c.s.state = s.state)
    BY DEF CheckEnds
<1> HIDE DEF a, b, c, Q, r
<1>9. Outgoing(x, k, D, E, G, F)
    <2>1. MayFlag(x, a, {"ACK"})
        BY DEF MayFlag
    <2> QED BY <1>1, <1>2, <2>1, AnswerKeeps DEF Conn
<1>10. /\ Conn(x, c.s, D, E, G, F) /\ c.s.got = s.got
       /\ \A q \in c.out : Outgoing(x, q, D, E, G, F)
    <2>1. CASE c = Result(b, {})
        <3>1. c.s = b /\ c.out = {}
            BY <2>1 DEF Result
        <3> QED BY <1>2, <3>1
    <2>2. CASE s.state \in Atleast_eESTABLISHED /\ c = rep
        <3>1. ShutdownDue(b) => b.todo = 0
            BY <1>2, <2>2
        <3>2. "bCloseRequested" \notin b.bits
            BY <1>2 DEF Conn, Sender
        <3>3. Conn(x, rep.s, D, E, G, F) /\ \A q \in rep.out : Outgoing(x, q, D, E, G, F)
            BY <1>1, <1>2, <3>1, RepeatedKeeps
        <3>4. SameReceiver(b, rep.s)
            BY <1>1, <3>2, RepeatedFrame
        <3> HIDE DEF rep
        <3> QED BY <1>2, <2>2, <3>3, <3>4 DEF SameReceiver, SameRx
    <2> QED BY <1>4, <2>1, <2>2
<1>11. c.s \in SockType
    BY <1>5, ResultTyped
<1>12. \/ Conn(x, u, D, E, G, F) /\ u.got = s.got
       \/ x = "B" /\ Idle(x, u)
    <2>1. CASE u = c.s
        BY <1>10, <2>1
    <2>2. CASE u = vTCPStateChange(c.s, "eCLOSE_WAIT") /\ MayHang(s) /\ c.s.state = s.state
        <3>1. CASE s.state = "eSYN_RECEIVED"
            <4>1. u = Listening(c.s)
                BY <2>2, <3>1 DEF vTCPStateChange
            <4>2. x = "B"
                BY <3>1 DEF Conn, Phase
            <4> QED BY <4>1, <4>2, ListeningIdle
        <3>2. CASE s.state \in {"eFIN_WAIT_1", "eLAST_ACK"}
            <4>1. u = [c.s EXCEPT !.state = "eCLOSE_WAIT"]
                BY <2>2, <3>2 DEF vTCPStateChange
            <4>2. "bFinSent" \in c.s.bits
                BY <1>10, <2>2, <3>2 DEF Conn, Phase
            <4>3. Conn(x, u, D, E, G, F)
                BY <1>10, <1>11, <4>1, <4>2, EndedKeeps
            <4>4. u.got = c.s.got
                BY <1>11, <4>1 DEF SockType
            <4> QED BY <1>10, <4>3, <4>4
        <3> QED BY <1>3, <2>2, <3>1, <3>2 DEF MayHang
    <2> QED BY <1>8, <2>1, <2>2
<1>13. r.s = u /\ r.out = CheckOut(s, c)
    BY <1>6 DEF Result
<1>14. \A q \in r.out : Outgoing(x, q, D, E, G, F)
    BY <1>7, <1>9, <1>10, <1>13
<1>15. Stays(x, s, r, D, E, G, F)
    BY <1>12, <1>13, <1>14 DEF Stays
<1>16. r.s.got = s.got \/ (x = "B" /\ Idle(x, r.s))
    BY <1>12, <1>13
<1> QED
    BY <1>15, <1>16 DEF r

-----------------------------------------------------------------------------
(***************************************************************************)
(* Sockets that are not part of the connection.                             *)
(***************************************************************************)
SameIdle(s, t) ==
    /\ t.segs = s.segs /\ t.stored = s.stored /\ t.got = s.got /\ t.todo = s.todo
    /\ t.rx = s.rx /\ t.rxfirst = s.rxfirst /\ t.next = s.next /\ t.una = s.una
    /\ t.nxt = s.nxt /\ t.first = s.first /\ t.our = s.our

LEMMA IdleSame ==
    ASSUME NEW x \in Socket, NEW s \in SockType, NEW t \in SockType, Idle(x, s), SameIdle(s, t),
           t.bits \subseteq s.bits,
           t.state = s.state \/ (x = "A" /\ t.state \in {"eCLOSE_WAIT", "eCLOSED"}),
           x = "A" => t.ack = FALSE /\ t.txStream = FALSE
    PROVE  Idle(x, t)
<1>1. t.bits \cap FinBits = {} /\ (x = "B" => t.bits = {})
    BY DEF Idle
<1>2. t.state \in IF x = "A" THEN {"eCLOSED", "eCONNECT_SYN", "eCLOSE_WAIT", "none"}
                  ELSE {"eTCP_LISTEN", "none"}
    BY DEF Idle
<1>3. t.state = "eCONNECT_SYN" /\ "bConnPrepared" \in t.bits => t.next = Number(x)
    BY DEF Idle, SameIdle
<1> QED
    BY <1>1, <1>2, <1>3 DEF Idle, SameIdle

LEMMA FreedSame ==
    ASSUME NEW a \in SockType, Freed(a) \in SockType
    PROVE  LET b == Freed(a)
           IN  /\ SameIdle(a, b) /\ b.bits \subseteq a.bits /\ b.state = a.state
               /\ b.ack = FALSE /\ b.txStream = a.txStream
               /\ ~Confirming(a) => b.bits = a.bits
<1> DEFINE b == Freed(a)
           n == IF Confirming(a) THEN a.bits \ {"bWinChange"} ELSE a.bits
<1>1. b = [a EXCEPT !.ack = FALSE, !.bits = n]
    BY DEF Freed
<1>2. n \subseteq a.bits /\ (~Confirming(a) => n = a.bits)
    OBVIOUS
<1> HIDE DEF b, n
<1>3. SameIdle(a, b) /\ b.bits = n /\ b.state = a.state
    BY <1>1 DEF SockType, SameIdle
<1>4. b.ack = FALSE /\ b.txStream = a.txStream
    BY <1>1 DEF SockType
<1> QED
    BY <1>2, <1>3, <1>4 DEF b

\* What an idle socket may say names no position of the connection.
LEMMA IdleAnswers ==
    ASSUME NEW x \in Socket, NEW s \in SockType, Idle(x, s), NEW D, NEW E, NEW G, NEW F
    PROVE  /\ Outgoing(x, prvTCPReturnPacket(s, {"ACK"}, 0, FALSE), D, E, G, F)
           /\ x = "A" /\ s.our = Number(x) =>
                 /\ Outgoing(x, prvTCPReturnPacket(s, {"SYN"}, 0, TRUE), D, E, G, F)
                 /\ prvTCPReturnPacket(s, {"SYN"}, 0, TRUE).flags = {"SYN"}
<1> DEFINE p == prvTCPReturnPacket(s, {"ACK"}, 0, FALSE)
           q == prvTCPReturnPacket(s, {"SYN"}, 0, TRUE)
<1>1. p.flags = {"ACK"} /\ p.seq = s.our /\ p.ack = s.rx /\ p.len = 0
    BY DEF prvTCPReturnPacket
<1>2. q.flags = {"SYN"} /\ q.seq = s.our /\ q.ack = s.rx /\ q.len = 0
    BY DEF prvTCPReturnPacket
<1>3. s.our \in Int /\ s.our <= Number(x) /\ s.rx = 0
    BY NumberTyped DEF Idle
<1>4. Follows(x, s.our, F)
    BY <1>3, NoBegins DEF Follows
<1>5. Upto(Peer(x), s.rx) = {} /\ Follows(Peer(x), s.rx, E)
    <2>1. Peer(x) \in Socket
        BY PeerOf DEF Socket
    <2>2. s.rx \in Int /\ s.rx <= Number(Peer(x)) + SegLen /\ s.rx <= Number(Peer(x))
        BY <1>3, <2>1, NumberTyped DEF SegLen
    <2> QED BY <2>1, <2>2, UptoFacts, NoBegins DEF Follows
<1> HIDE DEF p, q
<1>6. Outgoing(x, p, D, E, G, F)
    BY <1>1, <1>4, <1>5 DEF Outgoing
<1>7. x = "A" /\ s.our = Number(x) => Outgoing(x, q, D, E, G, F)
    BY <1>2, <1>4, <1>5 DEF Outgoing
<1> QED
    BY <1>2, <1>6, <1>7 DEF p, q

BareAck(s) == prvTCPReturnPacket(s, {"ACK"}, 0, FALSE)

\* The timer of a listening socket, or of one whose hand shake has not ended.
LEMMA QuietTimer ==
    ASSUME NEW s \in SockType, NEW resend, NEW old, NEW resolved,
           s.state \in {"eTCP_LISTEN", "eSYN_RECEIVED", "eCLOSED"}
    PROVE  LET r == xTCPSocketCheck(s, resend, old, resolved)
           IN  /\ r.s = Freed(s) \/ (s.state = "eSYN_RECEIVED" /\ r.s = Listening(Freed(s)))
               /\ r.out \subseteq {BareAck(s)}
               /\ ~Confirming(s) => r.out = {}
<1> DEFINE r == xTCPSocketCheck(s, resend, old, resolved)
           b == Freed(s)
           c == CheckSends(s, resend, resolved)
           k == BareAck(s)
<1>1. Filled(s) = s
    BY DEF Filled, Atleast_eESTABLISHED
<1>2. b \in SockType
    BY <1>1, FilledTyped
<1>3. b.state = s.state
    BY <1>2, FreedSame
<1>4. c = Result(b, {})
    <2>1. c = SendsNow(s, Due(s, resend), resolved)
        BY <1>1 DEF CheckSends
    <2> QED BY <1>3, <2>1 DEF SendsNow, Atleast_eESTABLISHED
<1>5. c.s = b /\ c.out = {}
    <2> HIDE DEF c, b
    <2> QED BY <1>4 DEF Result
<1>6. PICK u \in CheckEnds(s, c) : r = Result(u, CheckOut(s, c))
    BY CheckCases
<1>7. CheckOut(s, c) = IF Confirming(s) THEN {k} ELSE {}
    BY <1>1, <1>5 DEF CheckOut, BareAck
<1>8. u = c.s \/ (u = vTCPStateChange(c.s, "eCLOSE_WAIT") /\ MayHang(s))
    BY DEF CheckEnds
<1> HIDE DEF c, b, r, k
<1>9. u = b \/ (s.state = "eSYN_RECEIVED" /\ u = Listening(b))
    BY <1>3, <1>5, <1>8 DEF MayHang, vTCPStateChange
<1>10. r.s = u /\ r.out = CheckOut(s, c)
    BY <1>6 DEF Result
<1>11. r.out \subseteq {k} /\ (~Confirming(s) => r.out = {})
    BY <1>7, <1>10
<1> QED
    BY <1>9, <1>10, <1>11 DEF r, b, k

\* The timer of a listening socket.
LEMMA IdleTimerB ==
    ASSUME NEW s \in SockType, NEW resend, NEW old, NEW resolved, Idle("B", s), s.state # "none",
           NEW D, NEW E, NEW G, NEW F
    PROVE  LET r == xTCPSocketCheck(s, resend, old, resolved)
           IN  Idle("B", r.s) /\ \A q \in r.out : Outgoing("B", q, D, E, G, F)
<1> DEFINE r == xTCPSocketCheck(s, resend, old, resolved)
           b == Freed(s)
           k == BareAck(s)
<1>1. s.state = "eTCP_LISTEN" /\ "B" \in Socket
    BY DEF Idle, Socket
<1>2. b \in SockType
    BY <1>1, FilledTyped DEF Filled, Atleast_eESTABLISHED
<1>3. r.s = b /\ r.out \subseteq {k}
    BY <1>1, QuietTimer
<1>4. SameIdle(s, b) /\ b.bits \subseteq s.bits /\ b.state = s.state
    BY <1>2, FreedSame
<1>5. Outgoing("B", k, D, E, G, F)
    BY <1>1, IdleAnswers DEF BareAck
<1> HIDE DEF r, b, k
<1>6. Idle("B", b)
    BY <1>1, <1>2, <1>4, IdleSame
<1> QED
    BY <1>3, <1>5, <1>6 DEF r

\* A socket that has taken no part only sends SYNs, and only when it is prepared.
Waits(s, r) ==
    r.s.state \in {"eCLOSED", "eCONNECT_SYN"} =>
        /\ s.state \in {"eCLOSED", "eCONNECT_SYN"}
        /\ \A q \in r.out : q.flags = {"SYN"}
        /\ r.out = {} \/ "bConnPrepared" \in r.s.bits
        /\ "bConnPrepared" \in s.bits => "bConnPrepared" \in r.s.bits

LEMMA ClosedTimer ==
    ASSUME NEW s \in SockType, NEW resend, NEW old, NEW resolved, Idle("A", s), s.state = "eCLOSED",
           NEW D, NEW E, NEW G, NEW F
    PROVE  LET r == xTCPSocketCheck(s, resend, old, resolved)
           IN  Idle("A", r.s) /\ (\A q \in r.out : Outgoing("A", q, D, E, G, F)) /\ Waits(s, r)
<1> DEFINE r == xTCPSocketCheck(s, resend, old, resolved)
           b == Freed(s)
           k == BareAck(s)
<1>1. s.ack = FALSE /\ s.txStream = FALSE /\ "A" \in Socket
    BY DEF Idle, Socket
<1>2. b \in SockType
    BY FilledTyped DEF Filled, Atleast_eESTABLISHED
<1>3. ~Confirming(s)
    BY <1>1 DEF Confirming, Delayed
<1>4. r.s = b /\ r.out = {}
    BY <1>3, QuietTimer
<1>5. SameIdle(s, b) /\ b.bits \subseteq s.bits /\ b.state = s.state
    BY <1>2, FreedSame
<1>6. b.ack = FALSE /\ b.txStream = s.txStream
    BY <1>2, FreedSame
<1>7. b.bits = s.bits
    BY <1>2, <1>3, FreedSame
<1> HIDE DEF r, b, k
<1>8. Idle("A", b)
    BY <1>1, <1>2, <1>5, <1>6, IdleSame
<1>9. Waits(s, r)
    BY <1>4, <1>7 DEF Waits
<1> QED
    BY <1>4, <1>8, <1>9 DEF r

LEMMA SentStream ==
    ASSUME NEW s \in SockType, NEW Q \in SUBSET s.segs
    PROVE  SentTo(s, Q) \in SockType /\ SentTo(s, Q).txStream = s.txStream
<1>1. ASSUME NEW h \in Nat
      PROVE  LET t == [s EXCEPT !.nxt = h, !.our = IF s.txStream THEN h ELSE @,
                                !.bits = @ \ {"bWinChange"}]
             IN  t \in SockType /\ t.txStream = s.txStream
    BY DEF SockType
<1> QED
    BY <1>1, HighTyped DEF SentTo

\* A socket that gave up connecting.
LEMMA EndedTimer ==
    ASSUME NEW s \in SockType, NEW resend, NEW old, NEW resolved, Idle("A", s),
           s.state = "eCLOSE_WAIT", NEW D, NEW E, NEW G, NEW F
    PROVE  LET r == xTCPSocketCheck(s, resend, old, resolved)
           IN  Idle("A", r.s) /\ (\A q \in r.out : Outgoing("A", q, D, E, G, F)) /\ Waits(s, r)
<1> DEFINE r == xTCPSocketCheck(s, resend, old, resolved)
           a == Filled(s)
           b == Freed(a)
           Q == Due(a, resend)
           c == CheckSends(s, resend, resolved)
           t == SentTo(b, Q)
           k == prvTCPReturnPacket(t, {"ACK"}, 0, FALSE)
<1>1. s.ack = FALSE /\ s.txStream = FALSE /\ "A" \in Socket
    BY DEF Idle, Socket
<1>2. a \in SockType /\ b \in SockType /\ Q \in SUBSET b.segs
    BY FilledTyped
<1>3. /\ SameIdle(s, a) /\ a.bits = s.bits /\ a.state = s.state
      /\ a.ack = s.ack /\ a.txStream = s.txStream
    <2>1. a = [s EXCEPT !.segs = s.segs \cup Spaced(s.next, s.todo),
                        !.next = s.next + SegLen * s.todo, !.todo = 0]
        BY DEF Filled, Atleast_eESTABLISHED, prvTCPAddTxData, Spaced
    <2>2. s.todo = 0 /\ s.next \in Nat
        BY DEF Idle, SockType
    <2>3. Spaced(s.next, 0) = {} /\ s.next + SegLen * 0 = s.next
        BY <2>2 DEF Spaced, SegLen
    <2>4. a = [s EXCEPT !.segs = s.segs, !.next = s.next, !.todo = 0]
        BY <2>1, <2>2, <2>3
    <2> HIDE DEF a
    <2>5. SameIdle(s, a) /\ a.bits = s.bits /\ a.state = s.state
        BY <2>2, <2>4 DEF SockType, SameIdle
    <2>6. a.ack = s.ack /\ a.txStream = s.txStream
        BY <2>4 DEF SockType
    <2> QED BY <2>5, <2>6
<1> HIDE DEF a
<1>4. SameIdle(a, b) /\ b.bits \subseteq a.bits /\ b.state = a.state
    BY <1>2, FreedSame
<1>5. b.ack = FALSE /\ b.txStream = a.txStream
    BY <1>2, FreedSame
<1>6. ~Delayed(a) /\ ~Confirming(a)
    BY <1>1, <1>3 DEF Confirming, Delayed
<1>7. c = prvTCPSendRepeated(b, Q)
    <2>1. c = SendsNow(a, Q, resolved)
        BY DEF CheckSends, a
    <2>2. b.state \in Atleast_eESTABLISHED
        BY <1>3, <1>4 DEF Atleast_eESTABLISHED
    <2>3. SendsNow(a, Q, resolved) = prvTCPSendRepeated(Freed(a), Q)
        <3>1. ~(Delayed(a) /\ Q = {})
            BY <1>6
        <3>2. Freed(a).state = "eCLOSE_WAIT"
            BY <1>3, <1>4
        <3> HIDE DEF Q, c, b
        <3> QED BY <3>1, <3>2 DEF SendsNow, Atleast_eESTABLISHED
    <2> QED BY <2>1, <2>3
<1>8. b.segs = {} /\ Q = {} /\ "bCloseRequested" \notin b.bits
    BY <1>2, <1>3, <1>4 DEF Idle, SameIdle, FinBits
<1>9. PICK u \in CheckEnds(s, c) : r = Result(u, CheckOut(s, c))
    BY CheckCases
<1>10. u = c.s
    BY <1>9 DEF CheckEnds, MayHang
<1>11. CheckOut(s, c) = c.out
    BY <1>6 DEF CheckOut, a
<1>12. t \in SockType /\ t.txStream = b.txStream
    BY <1>2, SentStream
<1>13. /\ t.nxt = High(b, Q) /\ t.our = (IF b.txStream THEN High(b, Q) ELSE b.our)
       /\ t.bits = b.bits \ {"bWinChange"} /\ t.state = b.state /\ t.first = b.first
       /\ t.rxfirst = b.rxfirst /\ t.segs = b.segs /\ t.todo = b.todo /\ t.next = b.next
       /\ t.una = b.una /\ SameRx(b, t)
    BY <1>2, SentFields
<1>14. t.ack = b.ack
    BY <1>2, SentFields
<1>15. High(b, Q) = b.nxt
    BY <1>2, <1>8, HighTyped
<1>16. c = Result(t, {k}) \/ c = Result(t, {})
    <2>1. ~ShutdownDue(b)
        BY <1>3, <1>4 DEF ShutdownDue
    <2> HIDE DEF b, Q, c, t, k
    <2> QED BY <1>2, <1>7, <1>8, <2>1, RepeatedCases DEF t, k
<1> HIDE DEF r, b, Q, c, t, k
<1>17. SameIdle(s, t) /\ t.bits \subseteq s.bits /\ t.state = s.state
    BY <1>1, <1>3, <1>4, <1>5, <1>13, <1>15 DEF SameIdle, SameRx
<1>18. t.ack = FALSE /\ t.txStream = FALSE
    BY <1>1, <1>3, <1>5, <1>12, <1>14
<1>19. Idle("A", t)
    BY <1>1, <1>12, <1>17, <1>18, IdleSame
<1>20. Outgoing("A", k, D, E, G, F)
    BY <1>1, <1>12, <1>19, IdleAnswers DEF k
<1>21. r.s = t /\ r.out \subseteq {k}
    <2>1. \A v, w : Result(v, w).s = v /\ Result(v, w).out = w
        BY DEF Result
    <2> QED BY <1>9, <1>10, <1>11, <1>16, <2>1
<1>22. Waits(s, r)
    BY <1>17, <1>21 DEF Waits
<1> QED
    BY <1>19, <1>20, <1>21, <1>22 DEF r

LEMMA CountedIdle ==
    ASSUME NEW s \in SockType, s.ucRepCount < 3, Idle("A", s)
    PROVE  LET t == Counted(s)
           IN  t \in SockType /\ Idle("A", t) /\ t.state = s.state /\ t.bits = s.bits
<1> DEFINE t == Counted(s)
<1>1. t \in SockType
    BY PreparedTyped
<1>2. SameIdle(s, t) /\ t.bits = s.bits /\ t.state = s.state
    BY DEF Counted, SockType, SameIdle
<1>3. t.ack = s.ack /\ t.txStream = s.txStream
    BY DEF Counted, SockType
<1>4. s.ack = FALSE /\ s.txStream = FALSE /\ "A" \in Socket
    BY DEF Idle, Socket
<1> HIDE DEF t
<1>5. t.ack = FALSE /\ t.txStream = FALSE
    BY <1>3, <1>4
<1>6. Idle("A", t)
    BY <1>1, <1>2, <1>4, <1>5, IdleSame
<1> QED
    BY <1>1, <1>2, <1>6 DEF t

LEMMA PreparedIdle ==
    ASSUME NEW s \in SockType, s.ucRepCount < 3, Idle("A", s), s.state = "eCONNECT_SYN"
    PROVE  LET t == Prepared(s)
           IN  /\ t \in SockType /\ Idle("A", t) /\ t.state = s.state /\ t.ucRepCount < 3
               /\ "bConnPrepared" \in t.bits /\ t.our = Number("A")
<1> DEFINE t == Prepared(s)
<1>1. t \in SockType
    BY PreparedTyped
<1>2. CASE "bConnPrepared" \in s.bits
    <2>1. t = s
        BY <1>2 DEF Prepared
    <2>2. s.our = Number("A")
        BY <1>2 DEF Idle
    <2> QED BY <1>1, <1>2, <2>1, <2>2
<1>3. CASE "bConnPrepared" \notin s.bits
    <2>1. t = [vTCPWindowInit(s, 0, IssA) EXCEPT !.ucRepCount = 0, !.bits = s.bits \cup {"bConnPrepared"}]
        BY <1>3 DEF Prepared, vTCPWindowInit, SockType
    <2>2. /\ t.state = s.state /\ t.bits = s.bits \cup {"bConnPrepared"} /\ t.ucRepCount = 0
          /\ t.segs = s.segs /\ t.stored = s.stored /\ t.got = s.got /\ t.todo = s.todo
          /\ t.rx = 0 /\ t.rxfirst = 0 /\ t.next = IssA /\ t.una = IssA /\ t.nxt = IssA
          /\ t.first = IssA /\ t.our = IssA
        BY <2>1 DEF vTCPWindowInit, SockType
    <2>3. t.ack = s.ack /\ t.txStream = s.txStream
        BY <2>1 DEF vTCPWindowInit, SockType
    <2>4. s.ack = FALSE /\ s.txStream = FALSE
        BY DEF Idle
    <2> HIDE DEF t
    <2>5. t.bits \cap FinBits = {}
        BY <2>2 DEF Idle, FinBits
    <2>6. IssA = Number("A")
        BY DEF Number
    <2>7. Idle("A", t)
        <3>1. t.ack = FALSE /\ t.txStream = FALSE
            BY <2>3, <2>4
        <3>2. /\ s.segs = {} /\ s.stored = {} /\ s.got = {} /\ s.todo = 0
            BY DEF Idle
        <3>3. t.state \in {"eCLOSED", "eCONNECT_SYN", "eCLOSE_WAIT", "none"}
            BY <2>2
        <3> QED BY <2>2, <2>5, <2>6, <3>1, <3>2, <3>3 DEF Idle
    <2>8. t.ucRepCount < 3 /\ "bConnPrepared" \in t.bits
        BY <2>2
    <2>9. t.our = Number("A") /\ t.state = s.state
        BY <2>2, <2>6
    <2> QED BY <1>1, <2>7, <2>8, <2>9 DEF t
<1> QED
    BY <1>2, <1>3

\* prvTCPSendPacket in eCONNECT_SYN.
LEMMA ConnectIdle ==
    ASSUME NEW b \in SockType, NEW resolved, Idle("A", b), b.state = "eCONNECT_SYN",
           NEW D, NEW E, NEW G, NEW F
    PROVE  LET c == ConnectSyn(b, resolved)
           IN  /\ c.s \in SockType /\ Idle("A", c.s)
               /\ \A q \in c.out : Outgoing("A", q, D, E, G, F)
               /\ Waits(b, c)
<1> DEFINE c == ConnectSyn(b, resolved)
           v == Prepared(b)
           w == [b EXCEPT !.state = "eCLOSE_WAIT"]
           k == prvTCPReturnPacket(v, {"SYN"}, 0, TRUE)
<1>1. \/ c = Result(w, {})
      \/ b.ucRepCount < 3 /\ "bConnPrepared" \notin b.bits /\ c = Result(Counted(b), {})
      \/ b.ucRepCount < 3 /\ c = Result(Counted(v), {k})
    <2>1. vTCPStateChange(b, "eCLOSE_WAIT") = w
        BY DEF vTCPStateChange
    <2> QED BY <2>1, ConnectCases
<1>2. \A y, z : Result(y, z).s = y /\ Result(y, z).out = z
    BY DEF Result
<1>3. w \in SockType /\ w.state = "eCLOSE_WAIT"
    BY DEF SockType, State
<1>4. Idle("A", w)
    <2>1. SameIdle(b, w) /\ w.bits = b.bits
        BY DEF SockType, SameIdle
    <2>2. w.ack = b.ack /\ w.txStream = b.txStream
        BY DEF SockType
    <2>3. b.ack = FALSE /\ b.txStream = FALSE /\ "A" \in Socket
        BY DEF Idle, Socket
    <2> HIDE DEF w
    <2>4. w.ack = FALSE /\ w.txStream = FALSE
        BY <2>2, <2>3
    <2> QED BY <1>3, <2>1, <2>3, <2>4, IdleSame
<1> HIDE DEF c, v, w, k
<1>5. CASE c = Result(w, {})
    <2>1. c.s = w /\ c.out = {}
        BY <1>2, <1>5
    <2>2. Waits(b, c)
        BY <1>3, <2>1 DEF Waits
    <2> QED BY <1>3, <1>4, <2>1, <2>2 DEF c
<1>6. CASE b.ucRepCount < 3 /\ "bConnPrepared" \notin b.bits /\ c = Result(Counted(b), {})
    <2> DEFINE t == Counted(b)
    <2>1. t \in SockType /\ Idle("A", t) /\ t.state = b.state
        BY <1>6, CountedIdle
    <2>2. c.s = t /\ c.out = {}
        BY <1>2, <1>6
    <2> HIDE DEF t
    <2>3. Waits(b, c)
        BY <1>6, <2>1, <2>2 DEF Waits
    <2> QED BY <2>1, <2>2, <2>3 DEF c
<1>7. CASE b.ucRepCount < 3 /\ c = Result(Counted(v), {k})
    <2> DEFINE t == Counted(v)
    <2>1. /\ v \in SockType /\ Idle("A", v) /\ v.state = b.state /\ v.ucRepCount < 3
          /\ "bConnPrepared" \in v.bits /\ v.our = Number("A")
        BY <1>7, PreparedIdle DEF v
    <2>2. t \in SockType /\ Idle("A", t) /\ t.state = v.state /\ t.bits = v.bits
        BY <2>1, CountedIdle
    <2>3. Outgoing("A", k, D, E, G, F) /\ k.flags = {"SYN"}
        <3>1. "A" \in Socket
            BY DEF Socket
        <3> QED BY <2>1, <3>1, IdleAnswers DEF k
    <2>4. c.s = t /\ c.out = {k}
        BY <1>2, <1>7
    <2> HIDE DEF t
    <2>5. Waits(b, c)
        BY <2>1, <2>2, <2>3, <2>4 DEF Waits
    <2> QED BY <2>2, <2>3, <2>4, <2>5 DEF c
<1> QED
    BY <1>1, <1>5, <1>6, <1>7

LEMMA ConnectTimer ==
    ASSUME NEW s \in SockType, NEW resend, NEW old, NEW resolved, Idle("A", s),
           s.state = "eCONNECT_SYN", NEW D, NEW E, NEW G, NEW F
    PROVE  LET r == xTCPSocketCheck(s, resend, old, resolved)
           IN  Idle("A", r.s) /\ (\A q \in r.out : Outgoing("A", q, D, E, G, F)) /\ Waits(s, r)
<1> DEFINE r == xTCPSocketCheck(s, resend, old, resolved)
           b == Freed(s)
           c == CheckSends(s, resend, resolved)
           w == [c.s EXCEPT !.state = "eCLOSE_WAIT"]
<1>1. s.ack = FALSE /\ s.txStream = FALSE /\ "A" \in Socket
    BY DEF Idle, Socket
<1>2. Filled(s) = s
    BY DEF Filled, Atleast_eESTABLISHED
<1>3. b \in SockType
    BY <1>2, FilledTyped
<1>4. ~Delayed(s) /\ ~Confirming(s)
    BY <1>1 DEF Confirming, Delayed
<1>5. SameIdle(s, b) /\ b.bits = s.bits /\ b.state = s.state
    BY <1>3, <1>4, FreedSame
<1>6. b.ack = FALSE /\ b.txStream = s.txStream
    BY <1>3, FreedSame
<1>7. c = ConnectSyn(b, resolved)
    <2> DEFINE Q == Due(s, resend)
    <2>1. c = SendsNow(s, Q, resolved)
        BY <1>2 DEF CheckSends
    <2>2. ~(Delayed(s) /\ Q = {})
        BY <1>4
    <2>3. Freed(s).state = "eCONNECT_SYN"
        BY <1>5
    <2>4. SendsNow(s, Q, resolved) = ConnectSyn(Freed(s), resolved)
        <3> HIDE DEF Q, c, b
        <3> QED BY <2>2, <2>3 DEF SendsNow, Atleast_eESTABLISHED
    <2> QED BY <2>1, <2>4
<1>8. PICK u \in CheckEnds(s, c) : r = Result(u, CheckOut(s, c))
    BY CheckCases
<1>9. CheckOut(s, c) = c.out
    BY <1>2, <1>4 DEF CheckOut
<1>10. u = c.s \/ (u = vTCPStateChange(c.s, "eCLOSE_WAIT") /\ c.s.state = s.state)
    BY <1>8 DEF CheckEnds
<1> HIDE DEF r, b, c
<1>11. Idle("A", b)
    BY <1>1, <1>3, <1>5, <1>6, IdleSame
<1>12. /\ c.s \in SockType /\ Idle("A", c.s)
       /\ \A q \in c.out : Outgoing("A", q, D, E, G, F)
       /\ Waits(b, c)
    BY <1>3, <1>5, <1>7, <1>11, ConnectIdle
<1>13. u = c.s \/ u = w
    BY <1>10 DEF vTCPStateChange
<1>14. w \in SockType /\ w.state = "eCLOSE_WAIT"
    BY <1>12 DEF SockType, State
<1>15. Idle("A", w)
    <2>1. SameIdle(c.s, w) /\ w.bits = c.s.bits
        BY <1>12 DEF SockType, SameIdle
    <2>2. w.ack = c.s.ack /\ w.txStream = c.s.txStream
        BY <1>12 DEF SockType
    <2>3. c.s.ack = FALSE /\ c.s.txStream = FALSE
        BY <1>12 DEF Idle
    <2> HIDE DEF w
    <2>4. w.ack = FALSE /\ w.txStream = FALSE
        BY <2>2, <2>3
    <2> QED BY <1>1, <1>12, <1>14, <2>1, <2>4, IdleSame
<1> HIDE DEF w
<1>16. r.s = u /\ r.out = c.out
    BY <1>8, <1>9 DEF Result
<1>17. Waits(s, r)
    <2>1. CASE u = c.s
        BY <1>5, <1>12, <1>16, <2>1 DEF Waits
    <2>2. CASE u = w
        BY <1>14, <1>16, <2>2 DEF Waits
    <2> QED BY <1>13, <2>1, <2>2
<1>18. Idle("A", r.s)
    BY <1>12, <1>13, <1>15, <1>16
<1> QED
    BY <1>12, <1>16, <1>17, <1>18 DEF r

LEMMA IdleTimer ==
    ASSUME NEW s \in SockType, NEW resend, NEW old, NEW resolved, NEW x \in Socket, Idle(x, s),
           s.state # "none", NEW D, NEW E, NEW G, NEW F
    PROVE  LET r == xTCPSocketCheck(s, resend, old, resolved)
           IN  /\ Idle(x, r.s) /\ \A q \in r.out : Outgoing(x, q, D, E, G, F)
               /\ x = "A" => Waits(s, r)
<1> DEFINE r == xTCPSocketCheck(s, resend, old, resolved)
<1>1. CASE x = "A"
    <2>1. Idle("A", s) /\ s.state \in {"eCLOSED", "eCONNECT_SYN", "eCLOSE_WAIT"}
        BY <1>1 DEF Idle
    <2>2. Idle("A", r.s) /\ (\A q \in r.out : Outgoing("A", q, D, E, G, F)) /\ Waits(s, r)
        BY <2>1, ClosedTimer, EndedTimer, ConnectTimer
    <2> QED BY <1>1, <2>2
<1>2. CASE x = "B"
    <2>1. Idle("B", r.s) /\ \A q \in r.out : Outgoing("B", q, D, E, G, F)
        BY <1>2, IdleTimerB
    <2> QED BY <1>2, <2>1
<1> QED
    BY <1>1, <1>2 DEF Socket

\* What an idle socket makes of a packet, unless it connects or is connected to.
LEMMA IdleReceives ==
    ASSUME NEW s \in SockType, NEW p \in Packet, NEW iss, NEW delay, NEW x \in Socket, Idle(x, s),
           s.state = "eTCP_LISTEN" => p.flags # {"SYN"},
           s.state = "eCONNECT_SYN" => "RST" \in p.flags
    PROVE  LET r == xProcessReceivedTCPPacket(s, p, iss, delay)
           IN  /\ Idle(x, r.s) /\ r.out \subseteq {prvTCPSendReset(p)}
               /\ r.s.bits = s.bits /\ r.s.ack = s.ack
               /\ s.state = "eCONNECT_SYN" => r.out = {} /\ r.s.state \in {"eCLOSED", "eCONNECT_SYN"}
               /\ s.state # "eCONNECT_SYN" => r.s.state = s.state
               /\ s.state = "eCLOSED" /\ "RST" \in p.flags => r.out = {}
<1> DEFINE r == xProcessReceivedTCPPacket(s, p, iss, delay)
           t == Restarted(s)
           k == prvTCPSendReset(p)
           w == [t EXCEPT !.state = "eCLOSED"]
<1>1. t \in SockType /\ SameIdle(s, t) /\ t.bits = s.bits /\ t.state = s.state
    BY DEF Restarted, SockType, SameIdle
<1>2. t.ack = s.ack /\ t.txStream = s.txStream
    BY DEF Restarted, SockType
<1>3. x = "A" => s.ack = FALSE /\ s.txStream = FALSE
    BY DEF Idle
<1>4. s.state \in {"eCLOSED", "eCLOSE_WAIT", "none", "eTCP_LISTEN", "eCONNECT_SYN"}
    BY DEF Idle
<1>5. s.state = "eCONNECT_SYN" => x = "A"
    BY DEF Idle
<1>6. \/ s.state # "eCONNECT_SYN" /\ (r = Result(s, {}) \/ (r = Result(s, {k}) /\ "RST" \notin p.flags))
      \/ s.state \notin {"eCONNECT_SYN", "eCLOSED"} /\ (r = Result(t, {}) \/ r = Result(t, {k}))
      \/ s.state = "eCONNECT_SYN" /\ r = HandleReset(t, p)
    <2>1. s.state = "eCONNECT_SYN" => s.state \in Handles
        BY DEF Handles
    <2> QED BY <1>4, <2>1, ProcessCases
<1> HIDE DEF t
<1>7. w \in SockType /\ SameIdle(t, w) /\ w.bits = t.bits /\ w.state = "eCLOSED"
    BY <1>1 DEF SockType, State, SameIdle
<1>8. w.ack = t.ack /\ w.txStream = t.txStream
    BY <1>1 DEF SockType
<1>9. HandleReset(t, p) = Result(w, {}) \/ HandleReset(t, p) = Result(t, {})
        \/ s.state # "eCONNECT_SYN"
    <2>1. vTCPStateChange(t, "eCLOSED") = w
        BY <1>1 DEF vTCPStateChange
    <2> QED BY <1>1, <2>1 DEF HandleReset
<1> HIDE DEF w, r, k
<1>10. x = "A" => t.ack = FALSE /\ t.txStream = FALSE
    BY <1>2, <1>3
<1>11. x = "A" => w.ack = FALSE /\ w.txStream = FALSE
    BY <1>8, <1>10
<1>12. Idle(x, t)
    BY <1>1, <1>10, IdleSame
<1>13. x = "A" => Idle(x, w)
    BY <1>1, <1>7, <1>11, <1>12, IdleSame
<1>14. \A v, z : Result(v, z).s = v /\ Result(v, z).out = z
    BY DEF Result
<1>15. /\ r.s \in {s, t} \/ (s.state = "eCONNECT_SYN" /\ r.s = w)
       /\ r.out \subseteq {k} /\ (s.state = "eCONNECT_SYN" => r.out = {})
       /\ s.state = "eCLOSED" /\ "RST" \in p.flags => r.out = {}
    BY <1>6, <1>9, <1>14
<1>16. Idle(x, r.s) /\ r.s.bits = s.bits
    BY <1>1, <1>5, <1>7, <1>12, <1>13, <1>15
<1>17. r.s.ack = s.ack
    BY <1>2, <1>8, <1>15
<1>18. /\ s.state = "eCONNECT_SYN" => r.s.state \in {"eCLOSED", "eCONNECT_SYN"}
       /\ s.state # "eCONNECT_SYN" => r.s.state = s.state
    BY <1>1, <1>7, <1>15
<1> QED
    BY <1>15, <1>16, <1>17, <1>18 DEF r, k

-----------------------------------------------------------------------------
(***************************************************************************)
(* The invariant of the connection.                                         *)
(***************************************************************************)
\* The segments that x has taken, as its history l says: any, when B has skipped
\* some at the end of the hand shake.
Had(x, l) == IF Number(x) \in l.skipped THEN Nat ELSE l.data

\* A socket of the connection, or an idle one; l and m are the histories of x and
\* of its peer.
End(x, s, l, m) ==
    \/ Conn(x, s, Had(x, l), l.fin, Had(Peer(x), m), m.fin) /\ s.got = l.data
    \/ Idle(x, s)

Carries(x, p, l, m) == Outgoing(x, p, Had(x, l), l.fin, Had(Peer(x), m), m.fin)

\* A has not taken part yet.
Waiting(s) == Idle("A", s) /\ s.state \in {"eCLOSED", "eCONNECT_SYN"}

FromA(p) == p.flags = {"SYN"} \/ ("RST" \in p.flags /\ p.seq = Number("A") + 1)

FromB(p) == (p.flags = {"SYN", "ACK"} /\ p.ack = Number("A") + 1) \/ "RST" \in p.flags

Quiet(t) == t.state \in {"eTCP_LISTEN", "eSYN_RECEIVED", "eCLOSED", "none"} /\ t.ack = FALSE

\* As long as it has not, there is only the hand shake.
Early ==
    Waiting(sock["A"]) =>
        /\ \A p \in net["B"] : FromA(p)
        /\ \A p \in net["A"] : FromB(p)
        /\ Quiet(sock["B"]) /\ log["A"].data = {}
        /\ "bConnPrepared" \notin sock["A"].bits => net["A"] = {} /\ net["B"] = {}

Ends ==
    \A x \in Socket :
        /\ End(x, sock[x], log[x], log[Peer(x)])
        /\ \A p \in net[Peer(x)] : Carries(x, p, log[x], log[Peer(x)])

Unanswered == listens = 0 => Idle("B", sock["B"]) /\ log["B"].data = {}

ConnInv == Ends /\ Early /\ Unanswered

\* A history only grows.
Grows(l, m) == l.data \subseteq m.data /\ l.fin \subseteq m.fin /\ l.skipped \subseteq m.skipped

LEMMA EndGrows ==
    ASSUME NEW x, NEW l \in LogType, NEW m \in LogType, NEW l1 \in LogType, NEW m1 \in LogType,
           Grows(l, l1), Grows(m, m1)
    PROVE  /\ \A s : End(x, s, l, m) => End(x, s, l, m1)
           /\ \A p : Carries(x, p, l, m) => Carries(x, p, l1, m1)
           /\ Had(x, l) \subseteq Had(x, l1)
<1>1. Had(x, l) \subseteq Had(x, l1) /\ Had(Peer(x), m) \subseteq Had(Peer(x), m1)
    BY DEF Had, Grows, LogType
<1>2. l.fin \subseteq l1.fin /\ m.fin \subseteq m1.fin
    BY DEF Grows
<1> DEFINE D == Had(x, l)
           D1 == Had(x, l1)
           G == Had(Peer(x), m)
           G1 == Had(Peer(x), m1)
<1>3. D \subseteq D /\ l.fin \subseteq l.fin /\ D \subseteq D1 /\ G \subseteq G1
    BY <1>1
<1> HIDE DEF D, D1, G, G1
<1>4. \A s : Conn(x, s, D, l.fin, G, m.fin) => Conn(x, s, D, l.fin, G1, m1.fin)
    BY <1>2, <1>3, TakenMore
<1>5. \A p : Outgoing(x, p, D, l.fin, G, m.fin) => Outgoing(x, p, D1, l1.fin, G1, m1.fin)
    BY <1>2, <1>3, TakenMore
<1> QED
    BY <1>1, <1>4, <1>5 DEF End, Carries, D, D1, G, G1

LEMMA PeerFacts ==
    ASSUME NEW x \in Socket
    PROVE  /\ Peer(x) \in Socket /\ Peer(x) # x /\ Peer(Peer(x)) = x
           /\ \A y \in Socket : y = x \/ y = Peer(x)
BY PeerOf DEF Socket

\* A step of x: it becomes u and sends out.
LEMMA EndsKept ==
    ASSUME Ends, NEW x \in Socket, NEW u, NEW out, sock \in [Socket -> SockType],
           log \in [Socket -> LogType], log' \in [Socket -> LogType],
           sock' = [sock EXCEPT ![x] = u],
           Grows(log[x], log'[x]), log'[Peer(x)] = log[Peer(x)],
           net'[x] \subseteq net[x], net'[Peer(x)] \subseteq net[Peer(x)] \cup out,
           End(x, u, log'[x], log[Peer(x)]),
           \A q \in out : Carries(x, q, log'[x], log[Peer(x)])
    PROVE  Ends'
<1> DEFINE y == Peer(x)
<1>1. y \in Socket /\ y # x /\ Peer(y) = x /\ \A z \in Socket : z = x \/ z = y
    BY PeerFacts
<1>2. sock'[x] = u /\ sock'[y] = sock[y]
    BY <1>1
<1>3. /\ log[x] \in LogType /\ log[y] \in LogType /\ log'[x] \in LogType
      /\ Grows(log[y], log[y])
    BY <1>1 DEF Grows
<1>4. /\ End(y, sock[y], log[y], log[x])
      /\ \A p \in net[x] : Carries(y, p, log[y], log[x])
      /\ \A p \in net[y] : Carries(x, p, log[x], log[y])
    BY <1>1 DEF Ends
<1>5. End(x, sock'[x], log'[x], log'[y])
    BY <1>2
<1>6. \A p \in net'[y] : Carries(x, p, log'[x], log'[y])
    BY <1>3, <1>4, EndGrows
<1>7. End(y, sock'[y], log'[y], log'[x])
    BY <1>2, <1>3, <1>4, EndGrows
<1>8. \A p \in net'[x] : Carries(y, p, log'[y], log'[x])
    BY <1>3, <1>4, EndGrows
<1> HIDE DEF y
<1>9. ASSUME NEW z \in Socket
      PROVE  /\ End(z, sock'[z], log'[z], log'[Peer(z)])
             /\ \A p \in net'[Peer(z)] : Carries(z, p, log'[z], log'[Peer(z)])
    <2>1. CASE z = x
        BY <1>5, <1>6, <2>1 DEF y
    <2>2. CASE z = y
        BY <1>1, <1>7, <1>8, <2>2
    <2> QED BY <1>1, <2>1, <2>2
<1> QED
    BY <1>9 DEF Ends

LEMMA NetParts ==
    ASSUME TypeInv, NEW x \in Socket, NEW out, NEW left \in [Socket -> Packets],
           left[x] \subseteq net[x], left[Peer(x)] = net[Peer(x)], Sends(x, out, left)
    PROVE  net'[x] \subseteq net[x] /\ net'[Peer(x)] \subseteq net[Peer(x)] \cup out
BY SendsAdd

LEMMA LeftParts ==
    ASSUME TypeInv, NEW x \in Socket, NEW p, NEW again
    PROVE  LET left == Left(x, p, again)
           IN  /\ left \in [Socket -> Packets] /\ left[x] \subseteq net[x]
               /\ left[Peer(x)] = net[Peer(x)]
<1>1. net \in [Socket -> Packets] /\ net[x] \ {p} \in Packets
    BY PacketsFacts DEF TypeInv
<1> QED
    BY <1>1, PeerFacts DEF Left

LEMMA LogGrows ==
    ASSUME NEW x \in Socket, NEW p, NEW r, Logs(x, p, r)
    PROVE  Grows(log[x], log'[x]) /\ log'[Peer(x)] = log[Peer(x)]
BY DEF Logs, Grows

\* B answers the SYN, once.
LEMMA AnswersSyn ==
    ASSUME NEW s \in SockType, NEW p \in Packet, NEW delay, Idle("B", s), s.state = "eTCP_LISTEN",
           p.flags = {"SYN"}, p.seq = Number("A"), NEW D, NEW E, NEW G, NEW F
    PROVE  LET r == xProcessReceivedTCPPacket(s, p, IssB(1), delay)
           IN  /\ Conn("B", r.s, D, E, G, F) /\ r.s.got = {} /\ Quiet(r.s)
               /\ \A q \in r.out : Outgoing("B", q, D, E, G, F) /\ FromB(q)
<1> DEFINE v == Restarted(s)
           t == vTCPWindowInit(v, p.seq, IssB(1))
           r == xProcessReceivedTCPPacket(s, p, IssB(1), delay)
<1>1. r = HandleSynFirst(t, p)
    BY ProcessCases
<1>2. v \in SockType /\ SameIdle(s, v) /\ v.bits = s.bits
    BY DEF Restarted, SockType, SameIdle
<1>3. IssB(1) \in Nat /\ p.seq \in Nat /\ IssB(1) = Number("B")
    BY DEF IssB, Packet, Number
<1> HIDE DEF v, r
<1>4. t \in SockType
    BY <1>2, <1>3, InitTyped
<1>5. /\ t.first = IssB(1) /\ t.rxfirst = p.seq /\ t.our = IssB(1) /\ t.nxt = IssB(1)
      /\ t.segs = v.segs /\ t.stored = v.stored /\ t.todo = v.todo /\ t.bits = v.bits
      /\ t.got = v.got
    BY <1>2 DEF vTCPWindowInit, SockType
<1> HIDE DEF t
<1>6. /\ s.segs = {} /\ s.stored = {} /\ s.todo = 0 /\ s.bits \cap FinBits = {} /\ s.got = {}
    BY DEF Idle
<1>7. /\ t.first = Number("B") /\ t.rxfirst = Number("A") /\ t.our = t.first /\ t.nxt = t.first
      /\ t.segs = {} /\ t.stored = {} /\ t.todo = 0 /\ t.bits \cap FinBits = {} /\ t.got = {}
      /\ t.got \subseteq D
    BY <1>2, <1>3, <1>5, <1>6 DEF SameIdle
<1>8. /\ Conn("B", r.s, D, E, G, F) /\ r.s.got = t.got
      /\ r.s.state = "eSYN_RECEIVED" /\ r.s.ack = FALSE
      /\ \A q \in r.out : /\ Outgoing("B", q, D, E, G, F)
                          /\ q.flags = {"SYN", "ACK"} /\ q.ack = Number("A") + 1
    BY <1>1, <1>4, <1>7, SynFirstKeeps, ZenonT(60)
<1>9. r.s.got = {}
    BY <1>7, <1>8
<1>10. Quiet(r.s) /\ \A q \in r.out : FromB(q)
    BY <1>8 DEF Quiet, FromB
<1> QED
    BY <1>8, <1>9, <1>10 DEF r

\* A connects.
LEMMA Connects ==
    ASSUME NEW s \in SockType, NEW p \in Packet, NEW iss, NEW delay, Idle("A", s),
           s.state = "eCONNECT_SYN", "bConnPrepared" \in s.bits,
           p.flags = {"SYN", "ACK"}, p.seq = Number("B"), NEW D, NEW E, NEW G, NEW F
    PROVE  LET r == xProcessReceivedTCPPacket(s, p, iss, delay)
           IN  /\ Conn("A", r.s, D, E, G, F) /\ r.s.got = {}
               /\ \A q \in r.out : Outgoing("A", q, D, E, G, F)
<1> DEFINE t == Restarted(s)
           r == xProcessReceivedTCPPacket(s, p, iss, delay)
<1>1. r = prvTCPHandleState(t, p, delay)
    BY ProcessCases, ZenonT(60)
<1>2. t \in SockType /\ SameIdle(s, t) /\ t.bits = s.bits /\ t.state = s.state
    BY DEF Restarted, SockType, SameIdle
<1>3. t.ack = s.ack /\ t.txStream = s.txStream
    BY DEF Restarted, SockType
<1>4. s.ack = FALSE /\ s.txStream = FALSE /\ "A" \in Socket
    BY DEF Idle, Socket
<1> HIDE DEF t, r
<1>5. t.ack = FALSE /\ t.txStream = FALSE
    BY <1>3, <1>4
<1>6. Idle("A", t) /\ t.state = "eCONNECT_SYN" /\ "bConnPrepared" \in t.bits
    BY <1>2, <1>4, <1>5, IdleSame
<1>7. /\ Conn("A", r.s, D, E, G, F) /\ r.s.got = {}
      /\ \A q \in r.out : Outgoing("A", q, D, E, G, F)
    BY <1>1, <1>2, <1>6, ConnectedKeeps
<1> QED
    BY <1>7 DEF r

\* A packet reaches a socket of the connection.
LEMMA ConnReceives ==
    ASSUME TypeInv, Ends, NEW x \in Socket, NEW p \in net[x], NEW again, NEW delay,
           Receives(x, p, again, Handled(x, p, delay)), ~Idle(x, sock[x])
    PROVE  LET r == Handled(x, p, delay)
           IN  /\ \/ /\ Conn(x, r.s, Had(x, log'[x]), log'[x].fin, Had(Peer(x), log[Peer(x)]),
                             log[Peer(x)].fin)
                     /\ r.s.got = log'[x].data
                  \/ x = "B" /\ Idle(x, r.s)
               /\ \A q \in r.out : Carries(x, q, log'[x], log[Peer(x)])
<1> DEFINE r == Handled(x, p, delay)
           s == sock[x]
           l == log[x]
           l1 == log'[x]
           m == log[Peer(x)]
           D == Had(x, l)
           D1 == Had(x, l1)
           G == Had(Peer(x), m)
<1>1. Logs(x, p, r) /\ p \in Packet /\ r \in ResultType
    BY DEF Receives
<1>2. s \in SockType /\ l \in LogType /\ m \in LogType /\ l1 \in LogType
    BY <1>1, PeerFacts DEF TypeInv, Logs
<1>3. Grows(l, l1)
    BY <1>1, LogGrows
<1>4. Conn(x, s, D, l.fin, G, m.fin) /\ s.got = l.data
    BY DEF Ends, End
<1>5. Outgoing(Peer(x), p, G, m.fin, D, l.fin)
    <2>1. Peer(x) \in Socket /\ Peer(Peer(x)) = x
        BY PeerFacts
    <2>2. Carries(Peer(x), p, m, l)
        BY <2>1 DEF Ends
    <2> QED BY <2>1, <2>2 DEF Carries
<1>6. D \subseteq D1 /\ l.fin \subseteq l1.fin
    <2>1. Grows(m, m)
        BY DEF Grows
    <2> QED BY <1>2, <1>3, <2>1, EndGrows DEF Grows
<1>7. s.first = Number(x)
    BY <1>4 DEF Conn, Phase
<1>8. r.s \in SockType
    BY <1>1, ResultTyped
<1>9. r = xProcessReceivedTCPPacket(s, p, IssB(listens + 1), delay)
    BY DEF Handled
<1>10. /\ l1.data = l.data \cup r.s.got
       /\ TakesFin(r) => r.s.rxfin \in l1.fin
       /\ Skips(x, p, r) => Number(x) \in l1.skipped
    <2> HIDE DEF r
    <2> QED BY <1>1, <1>7 DEF Logs
<1>11. /\ s.state = "eSYN_RECEIVED" /\ r.s.state = "eESTABLISHED" /\ r.s.rx > s.rx /\ p.len = 0
            => Skips(x, p, r)
    BY DEF Skips
<1> HIDE DEF r, s, l, l1, m
<1>12. r.s.got \subseteq D1
    <2>1. r.s.got \subseteq Nat
        BY <1>8 DEF SockType, FinNat
    <2> QED BY <1>10, <2>1 DEF Had
<1>13. Skips(x, p, r) => D1 = Nat
    BY <1>10 DEF Had
<1> HIDE DEF D, D1, G
<1>14. Remembers(s, p, r, D1, l1.fin)
    BY <1>10, <1>11, <1>12, <1>13 DEF Remembers
<1>15. Stays(x, s, r, D1, l1.fin, G, m.fin)
    <2>1. Remembers(s, p, xProcessReceivedTCPPacket(s, p, IssB(listens + 1), delay), D1, l1.fin)
        BY <1>9, <1>14
    <2>2. Stays(x, s, xProcessReceivedTCPPacket(s, p, IssB(listens + 1), delay), D1, l1.fin, G, m.fin)
        BY <1>1, <1>2, <1>4, <1>5, <1>6, <2>1, ProcessKeeps
    <2> QED BY <1>9, <2>2
<1>16. \/ Conn(x, r.s, D1, l1.fin, G, m.fin) /\ r.s.got = l1.data
       \/ x = "B" /\ Idle(x, r.s)
    BY <1>4, <1>10, <1>15 DEF Stays
<1>17. \A q \in r.out : Carries(x, q, l1, m)
    BY <1>15 DEF Stays, Carries, D1, G
<1> QED
    BY <1>16, <1>17 DEF r, l1, m, D1, G

\* A packet reaches an idle socket, which stays idle or becomes part of the connection.
LEMMA IdleHandles ==
    ASSUME TypeInv, ConnInv, MaxListens = 1, NEW x \in Socket, NEW p \in net[x], NEW again,
           NEW delay, Receives(x, p, again, Handled(x, p, delay)), Idle(x, sock[x])
    PROVE  LET r == Handled(x, p, delay)
           IN  /\ \/ /\ Conn(x, r.s, Had(x, log'[x]), log'[x].fin, Had(Peer(x), log[Peer(x)]),
                             log[Peer(x)].fin)
                     /\ r.s.got = log'[x].data
                  \/ Idle(x, r.s)
               /\ \A q \in r.out : Carries(x, q, log'[x], log[Peer(x)])
<1> DEFINE r == Handled(x, p, delay)
           s == sock[x]
           l1 == log'[x]
           m == log[Peer(x)]
           D1 == Had(x, l1)
           G == Had(Peer(x), m)
<1>1. Logs(x, p, r) /\ p \in Packet
    BY DEF Receives
<1>2. s \in SockType /\ Idle(x, s)
    BY DEF TypeInv
<1>3. l1.data = log[x].data \cup r.s.got
    BY <1>1 DEF Logs
<1>4. Carries(Peer(x), p, m, log[x])
    <2>1. Peer(x) \in Socket /\ Peer(Peer(x)) = x
        BY PeerFacts
    <2> QED BY <2>1 DEF ConnInv, Ends
<1>5. r = xProcessReceivedTCPPacket(s, p, IssB(listens + 1), delay)
    BY DEF Handled
<1>6. CASE s.state = "eTCP_LISTEN" /\ p.flags = {"SYN"}
    <2>1. x = "B" /\ Peer(x) = "A"
        BY <1>2, <1>6, PeerOf DEF Idle, Socket
    <2>2. p.seq = Number("A")
        BY <1>4, <1>6, <2>1 DEF Carries, Outgoing
    <2>3. listens = 0
        BY <1>6 DEF Receives, Joins, TypeInv
    <2>4. log[x].data = {} /\ listens + 1 = 1
        BY <2>1, <2>3 DEF ConnInv, Unanswered
    <2>5. r = xProcessReceivedTCPPacket(s, p, IssB(1), delay)
        BY <1>5, <2>4
    <2> HIDE DEF r, s, l1, m, D1, G
    <2>6. /\ Conn("B", r.s, D1, l1.fin, G, m.fin) /\ r.s.got = {}
          /\ \A q \in r.out : Outgoing("B", q, D1, l1.fin, G, m.fin)
        BY <1>1, <1>2, <1>6, <2>1, <2>2, <2>5, AnswersSyn
    <2>7. r.s.got = l1.data
        BY <1>3, <2>4, <2>6
    <2>8. \A q \in r.out : Carries(x, q, l1, m)
        BY <2>1, <2>6 DEF Carries, D1, G
    <2> QED BY <2>1, <2>6, <2>7, <2>8 DEF r, l1, m, D1, G
<1>7. CASE s.state = "eCONNECT_SYN" /\ "RST" \notin p.flags
    <2>1. x = "A" /\ Peer(x) = "B"
        BY <1>2, <1>7, PeerOf DEF Idle, Socket
    <2>2. Waiting(sock["A"])
        BY <1>2, <1>7, <2>1 DEF Waiting
    <2>3. FromB(p) /\ log[x].data = {} /\ "bConnPrepared" \in s.bits
        BY <2>1, <2>2 DEF ConnInv, Early
    <2>4. p.flags = {"SYN", "ACK"}
        BY <1>7, <2>3 DEF FromB
    <2>5. p.seq = Number("B")
        BY <1>4, <2>1, <2>4 DEF Carries, Outgoing
    <2> HIDE DEF r, s, l1, m, D1, G
    <2>6. /\ Conn("A", r.s, D1, l1.fin, G, m.fin) /\ r.s.got = {}
          /\ \A q \in r.out : Outgoing("A", q, D1, l1.fin, G, m.fin)
        BY <1>1, <1>2, <1>5, <1>7, <2>1, <2>3, <2>4, <2>5, Connects
    <2>7. r.s.got = l1.data
        BY <1>3, <2>3, <2>6
    <2>8. \A q \in r.out : Carries(x, q, l1, m)
        BY <2>1, <2>6 DEF Carries, D1, G
    <2> QED BY <2>1, <2>6, <2>7, <2>8 DEF r, l1, m, D1, G
<1>8. CASE /\ s.state = "eTCP_LISTEN" => p.flags # {"SYN"}
           /\ s.state = "eCONNECT_SYN" => "RST" \in p.flags
    <2> DEFINE k == prvTCPSendReset(p)
    <2>1. Idle(x, r.s) /\ r.out \subseteq {k}
        BY <1>1, <1>2, <1>5, <1>8, IdleReceives
    <2>2. "RST" \in k.flags
        BY DEF prvTCPSendReset
    <2> HIDE DEF r, k, l1, m
    <2>3. \A q \in r.out : Carries(x, q, l1, m)
        BY <2>1, <2>2 DEF Carries, Outgoing
    <2> QED BY <2>1, <2>3 DEF r, l1, m
<1> QED
    BY <1>6, <1>7, <1>8

\* B in the hand shake.
LEMMA HandshakeIdle ==
    ASSUME NEW s \in SockType, NEW p \in Packet, NEW iss, NEW delay, Idle("B", s), Quiet(s),
           FromA(p), p.flags = {"SYN"} => p.seq = Number("A"),
           s.state = "eTCP_LISTEN" /\ p.flags = {"SYN"} => iss = IssB(1)
    PROVE  LET r == xProcessReceivedTCPPacket(s, p, iss, delay)
           IN  Quiet(r.s) /\ \A q \in r.out : FromB(q)
<1> DEFINE r == xProcessReceivedTCPPacket(s, p, iss, delay)
           k == prvTCPSendReset(p)
<1>1. CASE s.state = "eTCP_LISTEN" /\ p.flags = {"SYN"}
    <2>1. r = xProcessReceivedTCPPacket(s, p, IssB(1), delay)
        BY <1>1
    <2> HIDE DEF r
    <2>2. ASSUME NEW D
          PROVE  Conn("B", r.s, D, D, D, D) /\ Quiet(r.s) /\ \A q \in r.out : FromB(q)
        BY <1>1, <2>1, AnswersSyn
    <2> QED BY <2>2 DEF r
<1>2. CASE ~(s.state = "eTCP_LISTEN" /\ p.flags = {"SYN"})
    <2>1. s.state \in {"eTCP_LISTEN", "none"} /\ "B" \in Socket
        BY DEF Idle, Socket
    <2>2. r.out \subseteq {k} /\ r.s.state = s.state
        BY <1>2, <2>1, IdleReceives
    <2>3. r.s.ack = s.ack
        BY <1>2, <2>1, IdleReceives
    <2>4. "RST" \in k.flags
        BY DEF prvTCPSendReset
    <2>5. s.ack = FALSE
        BY DEF Quiet
    <2> HIDE DEF r, k
    <2>6. r.s.ack = FALSE
        BY <2>3, <2>5
    <2> QED BY <2>1, <2>2, <2>4, <2>6 DEF Quiet, FromB, r
<1> QED
    BY <1>1, <1>2

LEMMA HandshakeConn ==
    ASSUME NEW s \in SockType, NEW p \in Packet, NEW iss, NEW delay, NEW D, NEW E, NEW G, NEW F,
           Conn("B", s, D, E, G, F), Quiet(s), FromA(p), p.flags = {"SYN"} => p.seq = Number("A"),
           p.flags = {"SYN"} => p.len = 0
    PROVE  LET r == xProcessReceivedTCPPacket(s, p, iss, delay)
           IN  Quiet(r.s) /\ \A q \in r.out : FromB(q)
<1> DEFINE r == xProcessReceivedTCPPacket(s, p, iss, delay)
           k == prvTCPSendReset(p)
           t == Restarted(s)
           v == Arrived(t, p)
           w == [t EXCEPT !.state = "eCLOSED"]
<1>1. s.state \in {"eSYN_RECEIVED", "eCLOSED"} /\ s.ack = FALSE
    BY DEF Quiet, Conn, Phase
<1>2. \A y, z : Result(y, z).s = y /\ Result(y, z).out = z
    BY DEF Result
<1>3. "RST" \in k.flags
    BY DEF prvTCPSendReset
<1>4. CASE s.state = "eCLOSED"
    <2>1. r = Result(s, {}) \/ r = Result(s, {k})
        BY <1>4, ProcessCases
    <2> HIDE DEF r, k
    <2>2. r.s = s /\ r.out \subseteq {k}
        BY <1>2, <2>1
    <2> QED BY <1>3, <2>2 DEF FromB, r
<1>5. /\ t \in SockType /\ t.state = s.state /\ t.rx = s.rx /\ t.got = s.got
      /\ Conn("B", t, D, E, G, F)
    BY RestartedKeeps
<1>6. CASE s.state = "eSYN_RECEIVED" /\ p.flags = {"SYN"}
    <2>1. r = prvTCPHandleState(t, p, delay)
        BY <1>6, ProcessCases
    <2> HIDE DEF r, t
    <2>2. r = HandleSynFirst(v, p)
        BY <1>5, <1>6, <2>1, HandleCases DEF Handles
    <2>3. v \in SockType
        BY <1>5, ArrivedTyped
    <2>4. /\ v.first = t.first /\ v.rxfirst = t.rxfirst /\ SameTx(t, v)
          /\ v.bits \subseteq t.bits \cup {"bWinChange"} /\ v.stored = t.stored /\ v.got = t.got
        BY <1>5, <1>6, ArrivedFrame DEF SegLen
    <2> HIDE DEF v
    <2>5. Phase("B", t) /\ Receiver("B", t, D, E)
        BY <1>5 DEF Conn
    <2>6. /\ v.first = Number("B") /\ v.rxfirst = Number("A") /\ v.our = v.first /\ v.nxt = v.first
          /\ v.segs = {} /\ v.stored = {} /\ v.todo = 0
        BY <1>5, <1>6, <2>4, <2>5, PeerOf DEF Phase, SameTx
    <2>7. v.bits \cap FinBits = {}
        BY <1>5, <1>6, <2>4, <2>5 DEF Phase, FinBits
    <2>8. v.got \subseteq D
        BY <2>4, <2>5 DEF Receiver
    <2>9. /\ r.s.state = "eSYN_RECEIVED" /\ r.s.ack = FALSE
          /\ \A q \in r.out : q.flags = {"SYN", "ACK"} /\ q.ack = Number("A") + 1
        BY <1>6, <2>2, <2>3, <2>6, <2>7, <2>8, SynFirstKeeps, ZenonT(60)
    <2> QED BY <2>9 DEF Quiet, FromB, r
<1>7. CASE s.state = "eSYN_RECEIVED" /\ p.flags # {"SYN"}
    <2>1. "RST" \in p.flags /\ p.seq = Number("A") + 1
        BY <1>7 DEF FromA
    <2>2. r = HandleReset(t, p)
        BY <1>7, <2>1, ProcessCases DEF Handles
    <2>3. t.ack = s.ack
        BY DEF Restarted, SockType
    <2> HIDE DEF r, t
    <2>4. t.rx = p.seq
        BY <1>5, <1>7, <2>1, PeerOf DEF Conn, Phase
    <2>5. r = Result(w, {})
        BY <1>5, <1>7, <2>2, <2>4 DEF HandleReset, vTCPStateChange
    <2>6. w.state = "eCLOSED"
        BY <1>5 DEF SockType
    <2>7. w.ack = t.ack
        BY <1>5 DEF SockType
    <2> HIDE DEF w
    <2>8. w.ack = FALSE
        BY <1>1, <2>3, <2>7
    <2>9. r.s = w /\ r.out = {}
        BY <1>2, <2>5
    <2> QED BY <2>6, <2>8, <2>9 DEF Quiet, r
<1> QED
    BY <1>1, <1>4, <1>6, <1>7

LEMMA ReceiveNet ==
    ASSUME TypeInv, NEW x \in Socket, NEW p, NEW again, NEW r, Receives(x, p, again, r)
    PROVE  /\ net'[x] \subseteq net[x] /\ net'[Peer(x)] \subseteq net[Peer(x)] \cup r.out
           /\ sock'[x] = r.s /\ sock'[Peer(x)] = sock[Peer(x)]
           /\ log'[Peer(x)] = log[Peer(x)] /\ log'[x].data = log[x].data \cup r.s.got
<1>1. net'[x] \subseteq net[x] /\ net'[Peer(x)] \subseteq net[Peer(x)] \cup r.out
    BY LeftParts, NetParts DEF Receives
<1>2. sock'[x] = r.s /\ sock'[Peer(x)] = sock[Peer(x)]
    BY PeerFacts DEF Receives, TypeInv
<1> QED
    BY <1>1, <1>2 DEF Receives, Logs

\* What the receipt of a packet does to the connection.
LEMMA ReceiveEnds ==
    ASSUME TypeInv, ConnInv, MaxListens = 1, NEW x \in Socket, NEW p \in net[x], NEW again,
           NEW delay, Receives(x, p, again, Handled(x, p, delay))
    PROVE  Ends'
<1> DEFINE r == Handled(x, p, delay)
<1>1. /\ End(x, r.s, log'[x], log[Peer(x)])
      /\ \A q \in r.out : Carries(x, q, log'[x], log[Peer(x)])
    <2>1. CASE Idle(x, sock[x])
        BY <2>1, IdleHandles DEF End
    <2>2. CASE ~Idle(x, sock[x])
        <3>1. Ends
            BY DEF ConnInv
        <3> QED BY <2>2, <3>1, ConnReceives DEF End
    <2> QED BY <2>1, <2>2
<1>2. net'[x] \subseteq net[x] /\ net'[Peer(x)] \subseteq net[Peer(x)] \cup r.out
    BY ReceiveNet
<1>3. Grows(log[x], log'[x]) /\ log'[Peer(x)] = log[Peer(x)]
    <2>1. Logs(x, p, r)
        BY DEF Receives
    <2> QED BY <2>1, LogGrows
<1>4. /\ sock \in [Socket -> SockType] /\ log \in [Socket -> LogType]
      /\ log' \in [Socket -> LogType] /\ sock' = [sock EXCEPT ![x] = r.s] /\ Ends
    BY DEF TypeInv, Receives, Logs, ConnInv
<1> HIDE DEF r
<1> QED
    BY <1>1, <1>2, <1>3, <1>4, EndsKept

LEMMA ReceiveEarlyA ==
    ASSUME TypeInv, ConnInv, NEW p \in net["A"], NEW again,
           NEW delay, Receives("A", p, again, Handled("A", p, delay)),
           Waiting(sock'["A"])
    PROVE  /\ \A q \in net'["B"] : FromA(q)
           /\ \A q \in net'["A"] : FromB(q)
           /\ Quiet(sock'["B"]) /\ log'["A"].data = {}
           /\ "bConnPrepared" \in sock'["A"].bits
<1> DEFINE r == Handled("A", p, delay)
           s == sock["A"]
           k == prvTCPSendReset(p)
<1>1. "A" \in Socket /\ "B" \in Socket /\ Peer("A") = "B" /\ Peer("B") = "A"
    BY PeerOf DEF Socket
<1>2. /\ net'["A"] \subseteq net["A"] /\ net'["B"] \subseteq net["B"] \cup r.out
      /\ sock'["A"] = r.s /\ sock'["B"] = sock["B"] /\ log'["A"].data = log["A"].data \cup r.s.got
    BY <1>1, ReceiveNet
<1>3. s \in SockType /\ p \in Packet /\ r.s \in SockType
    BY <1>1, ResultTyped DEF TypeInv, Receives
<1>4. r = xProcessReceivedTCPPacket(s, p, IssB(listens + 1), delay)
    BY DEF Handled
<1>5. Idle("A", r.s) /\ r.s.state \in {"eCLOSED", "eCONNECT_SYN"}
    BY <1>2 DEF Waiting
<1>6. Idle("A", s)
    <2> SUFFICES ASSUME ~Idle("A", s) PROVE FALSE
        OBVIOUS
    <2>1. Conn("A", r.s, Had("A", log'["A"]), log'["A"].fin, Had("B", log["B"]), log["B"].fin)
        BY <1>1, ConnReceives DEF ConnInv
    <2> QED BY <1>1, <1>3, <1>5, <2>1, NotBoth
<1>7. Waiting(s)
    <2> SUFFICES ASSUME s.state \notin {"eCLOSED", "eCONNECT_SYN"} PROVE FALSE
        BY <1>6 DEF Waiting
    <2>1. s.state # "eTCP_LISTEN"
        BY <1>6 DEF Idle
    <2>2. r.s.state = s.state
        BY <1>1, <1>3, <1>4, <1>6, <2>1, IdleReceives
    <2> QED BY <1>5, <2>2
<1>8. /\ \A q \in net["B"] : FromA(q)
      /\ \A q \in net["A"] : FromB(q)
      /\ Quiet(sock["B"]) /\ log["A"].data = {}
      /\ "bConnPrepared" \in s.bits
    BY <1>7 DEF ConnInv, Early
<1>9. s.state = "eCONNECT_SYN" => "RST" \in p.flags
    <2> SUFFICES ASSUME s.state = "eCONNECT_SYN", "RST" \notin p.flags PROVE FALSE
        OBVIOUS
    <2>1. p.flags = {"SYN", "ACK"}
        BY <1>8 DEF FromB
    <2>2. p.seq = Number("B")
        <3>1. Carries("B", p, log["B"], log["A"])
            BY <1>1 DEF ConnInv, Ends
        <3> QED BY <2>1, <3>1 DEF Carries, Outgoing
    <2>3. ASSUME NEW D PROVE Conn("A", r.s, D, D, D, D)
        <3> HIDE DEF r, s
        <3> QED BY <1>3, <1>4, <1>6, <1>8, <2>1, <2>2, Connects
    <2> QED BY <1>1, <1>3, <1>5, <2>3, NotBoth
<1>10. s.state \in {"eCLOSED", "eCONNECT_SYN"}
    BY <1>7 DEF Waiting
<1>11. /\ r.out \subseteq {k} /\ r.s.bits = s.bits
       /\ s.state = "eCONNECT_SYN" => r.out = {}
       /\ s.state = "eCLOSED" /\ "RST" \in p.flags => r.out = {}
    BY <1>1, <1>3, <1>4, <1>6, <1>9, <1>10, IdleReceives
<1>12. "RST" \in k.flags /\ k.seq = p.ack
    BY DEF prvTCPSendReset
<1> HIDE DEF r, s, k
<1>13. \A q \in r.out : FromA(q)
    <2> SUFFICES ASSUME NEW q \in r.out PROVE FromA(q)
        OBVIOUS
    <2>1. q = k /\ "RST" \notin p.flags
        BY <1>10, <1>11
    <2>2. p.ack = Number("A") + 1
        BY <1>8, <2>1 DEF FromB
    <2> QED BY <1>12, <2>1, <2>2 DEF FromA
<1>14. r.s.got = {}
    BY <1>5 DEF Idle
<1> QED
    BY <1>2, <1>8, <1>11, <1>13, <1>14

LEMMA ReceiveEarlyB ==
    ASSUME TypeInv, ConnInv, MaxListens = 1, NEW p \in net["B"], NEW again,
           NEW delay, Receives("B", p, again, Handled("B", p, delay)),
           Waiting(sock'["A"])
    PROVE  /\ \A q \in net'["B"] : FromA(q)
           /\ \A q \in net'["A"] : FromB(q)
           /\ Quiet(sock'["B"]) /\ log'["A"].data = {}
           /\ "bConnPrepared" \in sock'["A"].bits
<1> DEFINE r == Handled("B", p, delay)
           s == sock["B"]
           l == log["B"]
           m == log["A"]
<1>1. "A" \in Socket /\ "B" \in Socket /\ Peer("A") = "B" /\ Peer("B") = "A"
    BY PeerOf DEF Socket
<1>2. /\ net'["B"] \subseteq net["B"] /\ net'["A"] \subseteq net["A"] \cup r.out
      /\ sock'["B"] = r.s /\ sock'["A"] = sock["A"] /\ log'["A"] = log["A"]
    BY <1>1, ReceiveNet
<1>3. s \in SockType /\ p \in Packet
    BY <1>1 DEF TypeInv, Receives
<1>4. r = xProcessReceivedTCPPacket(s, p, IssB(listens + 1), delay)
    BY DEF Handled
<1>5. /\ \A q \in net["B"] : FromA(q)
      /\ \A q \in net["A"] : FromB(q)
      /\ Quiet(s) /\ log["A"].data = {}
      /\ "bConnPrepared" \in sock["A"].bits
    BY <1>2 DEF ConnInv, Early
<1>6. p.flags = {"SYN"} => p.seq = Number("A") /\ p.len = 0
    <2>1. Carries("A", p, log["A"], log["B"])
        BY <1>1 DEF ConnInv, Ends
    <2> QED BY <2>1 DEF Carries, Outgoing
<1>7. s.state = "eTCP_LISTEN" /\ p.flags = {"SYN"} => IssB(listens + 1) = IssB(1)
    <2> SUFFICES ASSUME s.state = "eTCP_LISTEN", p.flags = {"SYN"} PROVE IssB(listens + 1) = IssB(1)
        OBVIOUS
    <2>1. listens = 0
        BY DEF Receives, Joins, TypeInv
    <2> QED BY <2>1 DEF IssB
<1>8. Idle("B", s) \/ Conn("B", s, Had("B", l), l.fin, Had("A", m), m.fin)
    BY <1>1 DEF ConnInv, Ends, End
<1>9. Quiet(r.s) /\ \A q \in r.out : FromB(q)
    <2>1. FromA(p)
        BY <1>5
    <2>2. CASE Idle("B", s)
        BY <1>3, <1>4, <1>5, <1>6, <1>7, <2>1, <2>2, HandshakeIdle
    <2>3. CASE Conn("B", s, Had("B", l), l.fin, Had("A", m), m.fin)
        BY <1>3, <1>4, <1>5, <1>6, <2>1, <2>3, HandshakeConn
    <2> QED BY <1>8, <2>2, <2>3
<1> QED
    BY <1>2, <1>5, <1>9

LEMMA ReceiveKeeps ==
    ASSUME TypeInv, ConnInv, MaxListens = 1, NEW x \in Socket, Receive(x)
    PROVE  ConnInv'
<1>1. PICK p \in net[x], again \in BOOLEAN : \E delay \in {FALSE, p.len > 0} :
              Receives(x, p, again, Handled(x, p, delay))
    BY ReceiveParts
<1>2. PICK delay \in {FALSE, p.len > 0} : Receives(x, p, again, Handled(x, p, delay))
    BY <1>1
<1> DEFINE r == Handled(x, p, delay)
<1>3. Ends'
    BY <1>2, ReceiveEnds
<1>4. "A" \in Socket /\ "B" \in Socket /\ Peer("A") = "B" /\ Peer("B") = "A"
    BY PeerOf DEF Socket
<1>5. Early'
    <2> SUFFICES ASSUME Waiting(sock'["A"])
                 PROVE  /\ \A q \in net'["B"] : FromA(q)
                        /\ \A q \in net'["A"] : FromB(q)
                        /\ Quiet(sock'["B"]) /\ log'["A"].data = {}
                        /\ "bConnPrepared" \in sock'["A"].bits
        BY DEF Early
    <2>1. CASE x = "A"
        BY <1>2, <2>1, ReceiveEarlyA
    <2>2. CASE x = "B"
        BY <1>2, <2>2, ReceiveEarlyB
    <2> QED BY <2>1, <2>2 DEF Socket
<1>6. Unanswered'
    <2> SUFFICES ASSUME listens' = 0
                 PROVE  Idle("B", sock'["B"]) /\ log'["B"].data = {}
        BY DEF Unanswered
    <2>1. listens = 0 /\ ~Joins(x, p)
        BY <1>2 DEF Receives, TypeInv
    <2>2. Idle("B", sock["B"]) /\ log["B"].data = {}
        BY <2>1 DEF ConnInv, Unanswered
    <2>3. CASE x = "A"
        BY <1>2, <1>4, <2>2, <2>3, ReceiveNet
    <2>4. CASE x = "B"
        <3>1. sock'["B"] = r.s /\ log'["B"].data = log["B"].data \cup r.s.got
            BY <1>2, <1>4, <2>4, ReceiveNet
        <3>2. sock["B"] \in SockType /\ p \in Packet
            BY <1>2, <1>4 DEF TypeInv, Receives
        <3>3. /\ sock["B"].state = "eTCP_LISTEN" => p.flags # {"SYN"}
              /\ sock["B"].state # "eCONNECT_SYN"
            BY <2>1, <2>2, <2>4 DEF Joins, Idle
        <3>4. r = xProcessReceivedTCPPacket(sock["B"], p, IssB(listens + 1), delay)
            BY <2>4 DEF Handled
        <3>5. Idle("B", r.s)
            BY <1>4, <2>2, <3>2, <3>3, <3>4, IdleReceives
        <3>6. r.s.got = {}
            <4> HIDE DEF r
            <4> QED BY <3>5 DEF Idle
        <3> QED BY <2>2, <3>1, <3>5, <3>6
    <2> QED BY <2>3, <2>4 DEF Socket
<1> QED
    BY <1>3, <1>5, <1>6 DEF ConnInv

\* The timer.
LEMMA TimerKeeps ==
    ASSUME TypeInv, ConnInv, NEW x \in Socket, NEW resend, NEW old, NEW resolved,
           Timer(x, resend, old, resolved)
    PROVE  ConnInv'
<1> DEFINE r == xTCPSocketCheck(sock[x], resend, old, resolved)
           s == sock[x]
           l == log[x]
           m == log[Peer(x)]
           D == Had(x, l)
           G == Had(Peer(x), m)
<1>1. /\ s \in SockType /\ s.state # "none" /\ sock' = [sock EXCEPT ![x] = r.s]
      /\ Sends(x, r.out, net) /\ listens' = listens /\ log' = log
    BY DEF Timer, TypeInv
<1>2. r \in ResultType
    BY <1>1, CheckTyped
<1>3. r.s \in SockType
    BY <1>2, ResultTyped
<1>4. "A" \in Socket /\ "B" \in Socket /\ Peer("A") = "B" /\ Peer("B") = "A"
    BY PeerOf DEF Socket
<1>5. sock'[x] = r.s /\ sock'[Peer(x)] = sock[Peer(x)]
    BY <1>1, PeerFacts DEF TypeInv
<1>6. net'[x] \subseteq net[x] /\ net'[Peer(x)] \subseteq net[Peer(x)] \cup r.out
    <2>1. net \in [Socket -> Packets]
        BY DEF TypeInv
    <2> QED BY <1>1, <2>1, NetParts
<1>7. (Conn(x, s, D, l.fin, G, m.fin) /\ s.got = l.data) \/ Idle(x, s)
    BY DEF ConnInv, Ends, End
<1>8. Idle(x, s) =>
        /\ Idle(x, r.s) /\ (x = "A" => Waits(s, r))
        /\ \A q \in r.out : Outgoing(x, q, D, l.fin, G, m.fin)
    BY <1>1, IdleTimer
<1>9. Conn(x, s, D, l.fin, G, m.fin) =>
        Stays(x, s, r, D, l.fin, G, m.fin) /\ (r.s.got = s.got \/ (x = "B" /\ Idle(x, r.s)))
    BY <1>1, CheckKeeps
<1>10. s.ack = FALSE => ~Confirming(s)
    BY DEF Confirming, Delayed
<1>11. s.state \in {"eTCP_LISTEN", "eSYN_RECEIVED", "eCLOSED"} =>
          /\ r.s = Freed(s) \/ r.s = Listening(Freed(s))
          /\ ~Confirming(s) => r.out = {}
    BY <1>1, QuietTimer
<1> HIDE DEF r, s, l, m, D, G
<1>12. /\ (Conn(x, r.s, D, l.fin, G, m.fin) /\ r.s.got = l.data) \/ Idle(x, r.s)
       /\ \A q \in r.out : Outgoing(x, q, D, l.fin, G, m.fin)
    <2>1. CASE Idle(x, s)
        BY <1>8, <2>1
    <2>2. CASE Conn(x, s, D, l.fin, G, m.fin) /\ s.got = l.data
        BY <1>9, <2>2 DEF Stays
    <2> QED BY <1>7, <2>1, <2>2
<1>13. Ends'
    <2>1. End(x, r.s, l, m) /\ \A q \in r.out : Carries(x, q, l, m)
        BY <1>12 DEF End, Carries, D, G
    <2>2. Grows(log[x], log'[x]) /\ log'[Peer(x)] = log[Peer(x)]
        BY <1>1 DEF Grows
    <2>3. End(x, r.s, log'[x], log[Peer(x)]) /\ \A q \in r.out : Carries(x, q, log'[x], log[Peer(x)])
        BY <1>1, <2>1 DEF l, m
    <2>4. /\ sock \in [Socket -> SockType] /\ log \in [Socket -> LogType]
          /\ log' \in [Socket -> LogType] /\ Ends
        BY <1>1 DEF TypeInv, ConnInv
    <2> QED BY <1>1, <1>6, <2>2, <2>3, <2>4, EndsKept
<1>14. Early'
    <2> SUFFICES ASSUME Waiting(sock'["A"])
                 PROVE  /\ \A q \in net'["B"] : FromA(q)
                        /\ \A q \in net'["A"] : FromB(q)
                        /\ Quiet(sock'["B"]) /\ log'["A"].data = {}
                        /\ "bConnPrepared" \notin sock'["A"].bits => net'["A"] = {} /\ net'["B"] = {}
        BY DEF Early
    <2>1. CASE x = "A"
        <3>1. Idle("A", r.s) /\ r.s.state \in {"eCLOSED", "eCONNECT_SYN"}
            BY <1>5, <2>1 DEF Waiting
        <3>2. Idle("A", s)
            <4> SUFFICES ASSUME ~Idle("A", s) PROVE FALSE
                OBVIOUS
            <4>1. Conn("A", r.s, D, l.fin, G, m.fin)
                BY <1>7, <1>9, <2>1 DEF Stays
            <4> QED BY <1>3, <1>4, <3>1, <4>1, NotBoth
        <3>3. Waits(s, r)
            BY <1>8, <2>1, <3>2
        <3>4. Waiting(sock["A"])
            BY <2>1, <3>1, <3>2, <3>3 DEF Waits, Waiting, s
        <3>5. /\ \A q \in net["B"] : FromA(q)
              /\ \A q \in net["A"] : FromB(q)
              /\ Quiet(sock["B"]) /\ log["A"].data = {}
              /\ "bConnPrepared" \notin s.bits => net["A"] = {} /\ net["B"] = {}
            BY <2>1, <3>4 DEF ConnInv, Early, s
        <3>6. \A q \in r.out : FromA(q)
            BY <3>1, <3>3 DEF Waits, FromA
        <3>7. "bConnPrepared" \notin r.s.bits => r.out = {} /\ "bConnPrepared" \notin s.bits
            BY <3>1, <3>3 DEF Waits
        <3> QED BY <1>1, <1>4, <1>5, <1>6, <2>1, <3>5, <3>6, <3>7
    <2>2. CASE x = "B"
        <3>1. /\ \A q \in net["B"] : FromA(q)
              /\ \A q \in net["A"] : FromB(q)
              /\ Quiet(s) /\ log["A"].data = {}
              /\ "bConnPrepared" \notin sock["A"].bits => net["A"] = {} /\ net["B"] = {}
            BY <1>4, <1>5, <2>2 DEF ConnInv, Early, s
        <3>2. s.state \in {"eTCP_LISTEN", "eSYN_RECEIVED", "eCLOSED"} /\ ~Confirming(s)
            BY <1>1, <1>10, <3>1 DEF Quiet
        <3>3. r.out = {} /\ (r.s = Freed(s) \/ r.s = Listening(Freed(s)))
            BY <1>11, <3>2
        <3>4. Quiet(r.s)
            <4>1. Freed(s) \in SockType
                BY <1>1, <3>2, FilledTyped DEF Filled, Atleast_eESTABLISHED
            <4>2. Freed(s).state = s.state
                BY <1>1, <4>1, FreedSame
            <4>3. Freed(s).ack = FALSE
                BY <1>1, <4>1, FreedSame
            <4>4. Quiet(Freed(s))
                BY <3>2, <4>2, <4>3 DEF Quiet
            <4>5. Listening(Freed(s)).ack = Freed(s).ack
                BY ListeningIdle
            <4>6. Listening(Freed(s)).state = "eTCP_LISTEN"
                BY DEF Listening, NewSocket
            <4>7. Listening(Freed(s)).ack = FALSE
                BY <4>3, <4>5
            <4>8. Quiet(Listening(Freed(s)))
                BY <4>6, <4>7 DEF Quiet
            <4> QED BY <3>3, <4>4, <4>8
        <3> QED BY <1>1, <1>4, <1>5, <1>6, <2>2, <3>1, <3>3, <3>4
    <2> QED BY <2>1, <2>2 DEF Socket
<1>15. Unanswered'
    <2> SUFFICES ASSUME listens' = 0
                 PROVE  Idle("B", sock'["B"]) /\ log'["B"].data = {}
        BY DEF Unanswered
    <2>1. Idle("B", sock["B"]) /\ log["B"].data = {}
        BY <1>1 DEF ConnInv, Unanswered
    <2>2. CASE x = "A"
        BY <1>1, <1>4, <1>5, <2>1, <2>2
    <2>3. CASE x = "B"
        BY <1>1, <1>5, <1>8, <2>1, <2>3 DEF s
    <2> QED BY <2>2, <2>3 DEF Socket
<1> QED
    BY <1>13, <1>14, <1>15 DEF ConnInv

\* The users.
LEMMA SendAddsKeeps ==
    ASSUME NEW s \in SockType, NEW x, NEW n \in Nat, NEW D, NEW E, NEW G, NEW F,
           Conn(x, s, D, E, G, F), s.state = "eESTABLISHED", CloseAfterSend = {}
    PROVE  LET u == SendAdds(s, x, n)
           IN  Conn(x, u, D, E, G, F) /\ u.got = s.got
<1> DEFINE u == SendAdds(s, x, n)
<1>1. u = [s EXCEPT !.todo = s.todo + n, !.txStream = TRUE, !.bits = s.bits]
    BY DEF SendAdds
<1> HIDE DEF u
<1>2. /\ u.state = s.state /\ u.bits = s.bits /\ u.first = s.first /\ u.rxfirst = s.rxfirst
      /\ u.segs = s.segs /\ u.next = s.next /\ u.nxt = s.nxt /\ u.our = s.our /\ u.una = s.una
      /\ u.txfin = s.txfin /\ SameRx(s, u)
    BY <1>1 DEF SockType, SameRx
<1>3. "bFinSent" \notin s.bits
    BY DEF Conn, Phase
<1>4. Sender(x, u, G, F)
    BY <1>2, <1>3 DEF Conn, Sender
<1>5. Receiver(x, u, D, E)
    BY <1>2 DEF Conn, Receiver, SameRx
<1>6. Phase(x, u)
    BY <1>2 DEF Conn, Phase
<1> QED
    BY <1>2, <1>4, <1>5, <1>6 DEF Conn, SameRx, u

LEMMA ShutdownKeeps ==
    ASSUME NEW s \in SockType, NEW x, NEW D, NEW E, NEW G, NEW F,
           Conn(x, s, D, E, G, F), s.state = "eESTABLISHED"
    PROVE  LET u == ShutdownAsks(s)
           IN  Conn(x, u, D, E, G, F) /\ u.got = s.got
<1> DEFINE u == ShutdownAsks(s)
<1>1. /\ u.state = s.state /\ u.bits = s.bits \cup {"bUserShutdown"} /\ u.first = s.first
      /\ u.rxfirst = s.rxfirst /\ SameTx(s, u) /\ SameRx(s, u)
    BY DEF ShutdownAsks, SockType, SameRx, SameTx
<1> HIDE DEF u
<1>2. \A b : b # "bUserShutdown" => (b \in u.bits <=> b \in s.bits)
    BY <1>1
<1>3. Sender(x, u, G, F)
    BY <1>1, <1>2 DEF Conn, Sender, SameTx
<1>4. Receiver(x, u, D, E)
    BY <1>1, <1>2 DEF Conn, Receiver, SameRx
<1>5. Phase(x, u)
    BY <1>1, <1>2 DEF Conn, Phase
<1> QED
    BY <1>1, <1>3, <1>4, <1>5 DEF Conn, SameRx, u

LEMMA GoneIdle == (\A x \in Socket : Idle(x, Gone)) /\ Quiet(Gone) /\ Gone.state = "none"
<1>1. /\ Gone.state = "none" /\ Gone.segs = {} /\ Gone.stored = {} /\ Gone.got = {} /\ Gone.todo = 0
      /\ Gone.rx = 0 /\ Gone.rxfirst = 0 /\ Gone.bits = {} /\ Gone.next = 0 /\ Gone.una = 0
      /\ Gone.nxt = 0 /\ Gone.first = 0 /\ Gone.our = 0
    BY DEF Gone, NewSocket
<1>2. Gone.ack = FALSE /\ Gone.txStream = FALSE
    BY DEF Gone, NewSocket
<1>3. ASSUME NEW x \in Socket PROVE Idle(x, Gone)
    BY <1>1, <1>2 DEF Idle, Socket
<1>4. Quiet(Gone)
    BY <1>1, <1>2 DEF Quiet
<1> QED
    BY <1>1, <1>3, <1>4

LEMMA ConnectKeeps ==
    ASSUME NEW s \in SockType, Idle("A", s), s.state = "eCLOSED", "bConnPrepared" \notin s.bits
    PROVE  LET u == vTCPStateChange(s, "eCONNECT_SYN")
           IN  Idle("A", u) /\ u.bits = s.bits
<1> DEFINE u == vTCPStateChange(s, "eCONNECT_SYN")
<1>1. u = [s EXCEPT !.state = "eCONNECT_SYN"]
    BY DEF vTCPStateChange
<1> HIDE DEF u
<1>2. SameIdle(s, u) /\ u.bits = s.bits /\ u.state = "eCONNECT_SYN"
    BY <1>1 DEF SockType, SameIdle
<1>3. u.ack = s.ack /\ u.txStream = s.txStream
    BY <1>1 DEF SockType
<1>4. s.ack = FALSE /\ s.txStream = FALSE
    BY DEF Idle
<1>5. u.ack = FALSE /\ u.txStream = FALSE
    BY <1>3, <1>4
<1>6. Idle("A", u)
    BY <1>2, <1>5 DEF Idle, SameIdle
<1> QED
    BY <1>2, <1>6 DEF u

LEMMA UserKeeps ==
    ASSUME TypeInv, ConnInv, CloseAfterSend = {}, NEW x \in Socket, User(x)
    PROVE  ConnInv'
<1> DEFINE s == sock[x]
           l == log[x]
           m == log[Peer(x)]
           D == Had(x, l)
           G == Had(Peer(x), m)
<1>1. PICK u \in SockType :
              /\ sock' = [sock EXCEPT ![x] = u] /\ UNCHANGED <<net, listens, log>>
              /\ \/ /\ x = "A" /\ sock[x].state = "eCLOSED" /\ "bConnPrepared" \notin sock[x].bits
                    /\ u = vTCPStateChange(sock[x], "eCONNECT_SYN")
                 \/ x = "B" /\ u = Listening(sock[x])
                 \/ /\ sock[x].state = "eESTABLISHED"
                    /\ \E n \in Nat : u = SendAdds(sock[x], x, n)
                 \/ sock[x].state = "eESTABLISHED" /\ u = ShutdownAsks(sock[x])
                 \/ u = Gone
    BY UserCases
<1>2. "A" \in Socket /\ "B" \in Socket /\ Peer("A") = "B" /\ Peer("B") = "A"
    BY PeerOf DEF Socket
<1>3. s \in SockType /\ net' = net /\ listens' = listens /\ log' = log
    BY <1>1 DEF TypeInv
<1>4. sock'[x] = u /\ sock'[Peer(x)] = sock[Peer(x)]
    BY <1>1, PeerFacts DEF TypeInv
<1>5. (Conn(x, s, D, l.fin, G, m.fin) /\ s.got = l.data) \/ Idle(x, s)
    BY DEF ConnInv, Ends, End
<1> HIDE DEF s, l, m, D, G
<1>6. \/ /\ x = "A" /\ Idle("A", s) /\ s.state = "eCLOSED" /\ Idle("A", u) /\ u.bits = s.bits
      \/ x = "B" /\ Idle("B", u) /\ u = Listening(s)
      \/ s.state = "eESTABLISHED" /\ Conn(x, u, D, l.fin, G, m.fin) /\ u.got = l.data
      \/ u = Gone
    <2>1. CASE x = "A" /\ s.state = "eCLOSED" /\ "bConnPrepared" \notin s.bits
               /\ u = vTCPStateChange(s, "eCONNECT_SYN")
        <3>1. Idle("A", s)
            BY <1>5, <2>1 DEF Conn, Phase
        <3> QED BY <1>3, <2>1, <3>1, ConnectKeeps
    <2>2. CASE x = "B" /\ u = Listening(s)
        BY <2>2, ListeningIdle
    <2>3. CASE s.state = "eESTABLISHED" /\ \E n \in Nat : u = SendAdds(s, x, n)
        <3>1. PICK n \in Nat : u = SendAdds(s, x, n)
            BY <2>3
        <3>2. Conn(x, s, D, l.fin, G, m.fin) /\ s.got = l.data
            BY <1>5, <2>3 DEF Idle
        <3>3. Conn(x, u, D, l.fin, G, m.fin) /\ u.got = s.got
            BY <1>3, <2>3, <3>1, <3>2, SendAddsKeeps
        <3> QED BY <2>3, <3>2, <3>3
    <2>4. CASE s.state = "eESTABLISHED" /\ u = ShutdownAsks(s)
        <3>1. Conn(x, s, D, l.fin, G, m.fin) /\ s.got = l.data
            BY <1>5, <2>4 DEF Idle
        <3>2. Conn(x, u, D, l.fin, G, m.fin) /\ u.got = s.got
            BY <1>3, <2>4, <3>1, ShutdownKeeps
        <3> QED BY <2>4, <3>1, <3>2
    <2> QED BY <1>1, <2>1, <2>2, <2>3, <2>4 DEF s
<1>7. Ends'
    <2>1. End(x, u, l, m)
        BY <1>6, GoneIdle DEF End, D, G
    <2>2. Grows(log[x], log'[x]) /\ log'[Peer(x)] = log[Peer(x)]
        BY <1>3 DEF Grows
    <2> DEFINE out == {}
    <2>3. End(x, u, log'[x], log[Peer(x)]) /\ \A q \in out : Carries(x, q, log'[x], log[Peer(x)])
        BY <1>3, <2>1 DEF l, m
    <2>4. /\ sock \in [Socket -> SockType] /\ log \in [Socket -> LogType]
          /\ log' \in [Socket -> LogType] /\ Ends
        BY <1>3 DEF TypeInv, ConnInv
    <2>5. net'[x] \subseteq net[x] /\ net'[Peer(x)] \subseteq net[Peer(x)] \cup out
        BY <1>3
    <2> HIDE DEF out
    <2> QED BY <1>1, <2>2, <2>3, <2>4, <2>5, EndsKept
<1>8. Early'
    <2> SUFFICES ASSUME Waiting(sock'["A"])
                 PROVE  /\ \A q \in net["B"] : FromA(q)
                        /\ \A q \in net["A"] : FromB(q)
                        /\ Quiet(sock'["B"]) /\ log["A"].data = {}
                        /\ "bConnPrepared" \notin sock'["A"].bits => net["A"] = {} /\ net["B"] = {}
        BY <1>3 DEF Early
    <2>1. CASE x = "A"
        <3>1. Idle("A", u) /\ u.state \in {"eCLOSED", "eCONNECT_SYN"}
            BY <1>4, <2>1 DEF Waiting
        <3>2. u # Gone /\ ~Conn("A", u, D, l.fin, G, m.fin)
            BY <1>2, <3>1, GoneIdle, NotBoth
        <3>3. Idle("A", s) /\ s.state = "eCLOSED" /\ u.bits = s.bits
            BY <1>6, <2>1, <3>2
        <3>4. Waiting(sock["A"])
            BY <2>1, <3>3 DEF Waiting, s
        <3> QED BY <1>2, <1>4, <2>1, <3>3, <3>4 DEF ConnInv, Early, s
    <2>2. CASE x = "B"
        <3>1. /\ \A q \in net["B"] : FromA(q)
              /\ \A q \in net["A"] : FromB(q)
              /\ Quiet(s) /\ log["A"].data = {}
              /\ "bConnPrepared" \notin sock["A"].bits => net["A"] = {} /\ net["B"] = {}
            BY <1>2, <1>4, <2>2 DEF ConnInv, Early, s
        <3>2. u = Listening(s) \/ u = Gone
            BY <1>6, <2>2, <3>1 DEF Quiet
        <3>3. Listening(s).ack = s.ack
            BY ListeningIdle
        <3>4. s.ack = FALSE
            BY <3>1 DEF Quiet
        <3>5. Listening(s).state = "eTCP_LISTEN"
            BY DEF Listening, NewSocket
        <3>6. Listening(s).ack = FALSE
            BY <3>3, <3>4
        <3>7. Quiet(Listening(s))
            BY <3>5, <3>6 DEF Quiet
        <3>8. Quiet(u)
            BY <3>2, <3>7, GoneIdle
        <3> QED BY <1>2, <1>4, <2>2, <3>1, <3>8
    <2> QED BY <2>1, <2>2 DEF Socket
<1>9. Unanswered'
    <2> SUFFICES ASSUME listens = 0
                 PROVE  Idle("B", sock'["B"]) /\ log["B"].data = {}
        BY <1>3 DEF Unanswered
    <2>1. Idle("B", sock["B"]) /\ log["B"].data = {}
        BY DEF ConnInv, Unanswered
    <2>2. CASE x = "A"
        BY <1>2, <1>4, <2>1, <2>2
    <2>3. CASE x = "B"
        <3>1. s.state # "eESTABLISHED"
            BY <2>1, <2>3 DEF Idle, s
        <3> QED BY <1>2, <1>4, <1>6, <2>1, <2>3, <3>1, GoneIdle
    <2> QED BY <2>2, <2>3 DEF Socket
<1> QED
    BY <1>7, <1>8, <1>9 DEF ConnInv

LEMMA StepKeeps ==
    ASSUME TypeInv, ConnInv, MaxListens = 1, CloseAfterSend = {}, [Next]_vars
    PROVE  ConnInv'
<1>1. CASE Next
    <2>1. PICK x \in Socket :
              \/ Receive(x)
              \/ \E resend, old, resolved : Timer(x, resend, old, resolved)
              \/ User(x)
        BY <1>1, NextCases
    <2>2. CASE Receive(x)
        BY <2>2, ReceiveKeeps
    <2>3. CASE \E resend, old, resolved : Timer(x, resend, old, resolved)
        BY <2>3, TimerKeeps
    <2>4. CASE User(x)
        BY <2>4, UserKeeps
    <2> QED BY <2>1, <2>2, <2>3, <2>4
<1>2. CASE UNCHANGED vars
    BY <1>2 DEF vars, ConnInv, Ends, Early, Unanswered
<1> QED
    BY <1>1, <1>2

LEMMA StartsConn == Init => ConnInv
<1> SUFFICES ASSUME Init PROVE ConnInv
    OBVIOUS
<1>1. "A" \in Socket /\ "B" \in Socket
    BY DEF Socket
<1>2. /\ sock["A"] = NewSocket /\ sock["B"] = Listening(NewSocket)
      /\ \A x \in Socket : net[x] = {} /\ log[x].data = {}
    BY <1>1 DEF Init
<1>3. Idle("A", NewSocket)
    <2>1. NewSocket.ack = FALSE /\ NewSocket.txStream = FALSE
        BY DEF NewSocket
    <2>2. /\ NewSocket.state = "eCLOSED" /\ NewSocket.segs = {} /\ NewSocket.stored = {}
          /\ NewSocket.got = {} /\ NewSocket.todo = 0
          /\ NewSocket.rx = 0 /\ NewSocket.rxfirst = 0 /\ NewSocket.bits = {} /\ NewSocket.next = 0
          /\ NewSocket.una = 0 /\ NewSocket.nxt = 0 /\ NewSocket.first = 0 /\ NewSocket.our = 0
        BY DEF NewSocket
    <2> QED BY <2>1, <2>2 DEF Idle
<1>4. Idle("B", sock["B"])
    BY <1>2, ListeningIdle
<1>5. Quiet(sock["B"])
    <2>1. Listening(NewSocket).ack = FALSE
        BY DEF Listening, NewSocket
    <2>2. Listening(NewSocket).state = "eTCP_LISTEN"
        BY DEF Listening, NewSocket
    <2> QED BY <1>2, <2>1, <2>2 DEF Quiet
<1>6. Ends
    <2> SUFFICES ASSUME NEW x \in Socket
                 PROVE  /\ End(x, sock[x], log[x], log[Peer(x)])
                        /\ \A p \in net[Peer(x)] : Carries(x, p, log[x], log[Peer(x)])
        BY DEF Ends
    <2>1. net[Peer(x)] = {}
        BY <1>2, PeerFacts
    <2>2. Idle(x, sock[x])
        BY <1>2, <1>3, <1>4 DEF Socket
    <2> QED BY <2>1, <2>2 DEF End
<1>7. Early
    BY <1>1, <1>2, <1>5 DEF Early
<1>8. Unanswered
    BY <1>1, <1>2, <1>4 DEF Unanswered
<1> QED
    BY <1>6, <1>7, <1>8 DEF ConnInv

\* The inductive invariant of one connection, for any amount of data and any number of
\* packets on the way: what each end confirms, keeps for the user, has left in its window
\* and takes for confirmed agrees with what the other end has received, and so does every
\* packet that is still on the way.
THEOREM ConnInvariance ==
    ASSUME MaxListens = 1, CloseAfterSend = {}
    PROVE  Spec => []ConnInv
<1>1. Init => ConnInv
    BY StartsConn
<1>2. TypeInv /\ ConnInv /\ [Next]_vars => ConnInv'
    BY StepKeeps
<1> QED
    BY <1>1, <1>2, AlwaysTyped, PTL DEF Spec

LEMMA NoPositions ==
    ASSUME NEW a \in Nat, NEW b \in Nat, b <= a
    PROVE  Positions(a + 1, b) = {}
BY DEF Positions, SegLen

\* One connection, whatever is lost, repeated, late or out of order, with any amount of data
\* and any use of FreeRTOS_shutdown and FreeRTOS_closesocket: a socket never confirms a
\* segment that it has not given to its user.  Without FREERTOS_SO_CLOSE_AFTER_SEND, which
\* moves a FIN before data; and with the one connection that MaxListens = 1 allows.
THEOREM NothingConfirmedUnseen ==
    ASSUME MaxListens = 1, CloseAfterSend = {}
    PROVE  Spec => []ConfirmsWhatItHas
<1>1. TypeInv /\ ConnInv => ConfirmsWhatItHas
    <2> SUFFICES ASSUME TypeInv, ConnInv, NEW x \in Socket,
                        sock[x].first \notin log[x].skipped
                 PROVE  Positions(sock[x].rxfirst + 1, sock[x].rx) \subseteq sock[x].got
        BY DEF ConfirmsWhatItHas
    <2> DEFINE s == sock[x]
               l == log[x]
               m == log[Peer(x)]
    <2>1. CASE Idle(x, s)
        <3>1. s.rx = 0 /\ s.rxfirst = 0
            BY <2>1 DEF Idle
        <3>2. Positions(0 + 1, 0) = {}
            BY NoPositions
        <3> QED BY <3>1, <3>2
    <2>2. CASE Conn(x, s, Had(x, l), l.fin, Had(Peer(x), m), m.fin) /\ s.got = l.data
        <3>1. s.first = Number(x) /\ s.rxfirst = Number(Peer(x))
            BY <2>2 DEF Conn, Phase
        <3>2. Had(x, l) = s.got
            BY <2>2, <3>1 DEF Had
        <3>3. Upto(Peer(x), s.rx) \subseteq Had(x, l)
            BY <2>2 DEF Conn, Receiver
        <3> QED BY <3>1, <3>2, <3>3 DEF Upto
    <2> QED BY <2>1, <2>2 DEF ConnInv, Ends, End
<1> QED
    BY <1>1, AlwaysTyped, ConnInvariance, PTL

\* Under the same conditions: data that was removed from txStream because it was acknowledged
\* is with the user at the other end, and a FIN that counts as acknowledged was taken there.
THEOREM NothingLost ==
    ASSUME MaxListens = 1, CloseAfterSend = {}
    PROVE  Spec => []ConfirmedIsDelivered
<1>1. TypeInv /\ ConnInv => ConfirmedIsDelivered
    <2> SUFFICES ASSUME TypeInv, ConnInv, NEW x \in Socket
                 PROVE  /\ sock[x].rxfirst \notin log[Peer(x)].skipped /\ sock[x].state \in Atleast_eESTABLISHED
                             => Positions(sock[x].first + 1, sock[x].next) \ sock[x].segs
                                   \subseteq log[Peer(x)].data
                        /\ "bFinAcked" \in sock[x].bits => sock[x].txfin \in log[Peer(x)].fin
        BY DEF ConfirmedIsDelivered
    <2> DEFINE s == sock[x]
               l == log[x]
               m == log[Peer(x)]
    <2>1. s \in SockType
        BY DEF TypeInv
    <2>2. CASE Idle(x, s)
        <3>1. s.first = s.next /\ s.next \in Nat /\ "bFinAcked" \notin s.bits
            BY <2>1, <2>2 DEF Idle, SockType, FinBits
        <3>2. Positions(s.first + 1, s.next) = {}
            BY <3>1, NoPositions
        <3> QED BY <3>1, <3>2
    <2>3. CASE Conn(x, s, Had(x, l), l.fin, Had(Peer(x), m), m.fin)
        <3>1. s.first = Number(x) /\ s.rxfirst = Number(Peer(x))
            BY <2>3 DEF Conn, Phase
        <3>2. s.rxfirst \notin m.skipped => Had(Peer(x), m) = m.data
            BY <3>1 DEF Had
        <3>3. Upto(x, s.next) \ s.segs \subseteq Had(Peer(x), m)
            BY <2>3 DEF Conn, Sender
        <3>4. "bFinAcked" \in s.bits => s.txfin \in m.fin
            BY <2>3 DEF Conn, Sender
        <3> QED BY <3>1, <3>2, <3>3, <3>4 DEF Upto
    <2> QED BY <2>2, <2>3 DEF ConnInv, Ends, End
<1> QED
    BY <1>1, AlwaysTyped, ConnInvariance, PTL

-----------------------------------------------------------------------------
(***************************************************************************)
(* Resets.                                                                  *)
(***************************************************************************)
Clean(out) == \A q \in out : "RST" \notin q.flags

LEMMA ReturnClean ==
    ASSUME NEW s, NEW flags, NEW len, NEW options, "RST" \notin flags
    PROVE  "RST" \notin prvTCPReturnPacket(s, flags, len, options).flags
BY DEF prvTCPReturnPacket

LEMMA CleanFacts ==
    /\ \A v, w : Result(v, w).s = v /\ Result(v, w).out = w
    /\ Clean({}) /\ \A q : "RST" \notin q.flags => Clean({q})
    /\ \A S, T : Clean(S) /\ Clean(T) => Clean(S \cup T)
BY DEF Result, Clean

\* What prvTCPSendRepeated sends is data, a FIN or an acknowledgement; only from
\* eESTABLISHED the state changes.
LEMMA RepeatedClean ==
    ASSUME NEW s, NEW D
    PROVE  Clean(prvTCPSendRepeated(s, D).out)
<1> DEFINE r == prvTCPSendRepeated(s, D)
           fin == {q \in D : ClosesWith(s, q)}
           t == [s EXCEPT !.nxt = High(s, D),
                          !.our = IF s.txStream THEN High(s, D) ELSE @,
                          !.txfin = IF fin = {} THEN @ ELSE s.next,
                          !.bits = (IF fin = {} THEN @ ELSE @ \cup {"bFinSent"}) \ {"bWinChange"}]
           u == [t EXCEPT !.bits = (@ \cup {"bFinSent"}) \ {"bUserShutdown"},
                          !.txfin = t.una, !.state = "eFIN_WAIT_1"]
           f == prvTCPReturnPacket(u, {"ACK", "FIN"}, 0, FALSE)
           k == prvTCPReturnPacket(t, {"ACK"}, 0, FALSE)
<1>1. r = CASE D # {} -> Result(t, Carried(t, fin, D))
          [] D = {} /\ ShutdownDue(s) -> Result(u, {f})
          [] D = {} /\ ~ShutdownDue(s) /\ "bWinChange" \in s.bits -> Result(t, {k})
          [] OTHER -> Result(t, {})
    BY DEF prvTCPSendRepeated, Carried, High
<1>2. "RST" \notin f.flags /\ "RST" \notin k.flags
    BY ReturnClean
<1> HIDE DEF t, u, f, k, r, fin
<1>3. Clean(Carried(t, fin, D))
    <2> SUFFICES ASSUME NEW p \in Carried(t, fin, D) PROVE "RST" \notin p.flags
        BY DEF Clean
    <2>1. PICK q \in D : p = prvTCPReturnPacket([t EXCEPT !.our = q],
             {"ACK", "PSH"} \cup (IF q \in fin THEN {"FIN"} ELSE {}), SegLen, FALSE)
        BY DEF Carried
    <2>2. "RST" \notin {"ACK", "PSH"} \cup (IF q \in fin THEN {"FIN"} ELSE {})
        OBVIOUS
    <2> QED BY <2>1, <2>2, ReturnClean
<1>4. r \in {Result(t, Carried(t, fin, D)), Result(u, {f}), Result(t, {k}), Result(t, {})}
    BY <1>1
<1>5. r.out \in {Carried(t, fin, D), {f}, {k}, {}}
    BY <1>4, CleanFacts
<1>6. Clean(r.out)
    BY <1>2, <1>3, <1>5, CleanFacts
<1> QED
    BY <1>6 DEF r

LEMMA SendClean ==
    ASSUME NEW s, NEW flags, NEW len, NEW options, NEW delay, "RST" \notin flags
    PROVE  Clean(prvSendData(s, flags, len, options, delay).out)
<1> DEFINE r == prvSendData(s, flags, len, options, delay)
           more == prvTCPSendRepeated(Cleared(s), NotSent(Cleared(s)))
           k == prvTCPReturnPacket(s, flags, 0, options)
<1>1. r = Result([s EXCEPT !.ack = TRUE], {}) \/ r = Result(more.s, more.out \cup {k})
    BY DEF prvSendData, Cleared
<1>2. Clean(more.out)
    BY RepeatedClean
<1>3. "RST" \notin k.flags
    BY ReturnClean
<1> HIDE DEF r, more, k
<1>4. r.out = {} \/ r.out = more.out \cup {k}
    BY <1>1, CleanFacts
<1>5. Clean(r.out)
    <2>1. Clean({k}) /\ Clean({})
        BY <1>3, CleanFacts
    <2>2. Clean(more.out \cup {k})
        BY <1>2, <2>1, CleanFacts
    <2> QED BY <1>4, <2>1, <2>2
<1> QED
    BY <1>5 DEF r

\* The answers that prvSendData gives to a packet.
LEMMA AnswersClean ==
    ASSUME NEW s, NEW len, NEW options, NEW delay
    PROVE  /\ Clean(prvSendData(s, {"ACK"}, len, options, delay).out)
           /\ Clean(prvSendData(s, {"ACK", "FIN"}, len, options, delay).out)
           /\ Clean(prvSendData(s, {"SYN", "ACK"}, len, options, delay).out)
<1>1. \A flags : "RST" \notin flags => Clean(prvSendData(s, flags, len, options, delay).out)
    BY SendClean
<1>2. "RST" \notin {"ACK"} /\ "RST" \notin {"ACK", "FIN"} /\ "RST" \notin {"SYN", "ACK"}
    OBVIOUS
<1> QED
    BY <1>1, <1>2

LEMMA SynFirstClean ==
    ASSUME NEW s, NEW p
    PROVE  Clean(HandleSynFirst(s, p).out)
BY AnswersClean DEF HandleSynFirst

LEMMA FinClean ==
    ASSUME NEW s, NEW p, NEW options
    PROVE  Clean(prvTCPHandleFin(s, p, options).out)
<1> DEFINE r == prvTCPHandleFin(s, p, options)
           t == AfterFin(s, p)
<1>1. \/ r = prvSendData(t, {"ACK", "FIN"}, p.len, options, FALSE)
      \/ r = prvSendData(t, {"ACK"}, p.len, options, FALSE)
      \/ r = Result(t, {})
    BY FinCases
<1> HIDE DEF r, t
<1>2. Clean(Result(t, {}).out)
    BY CleanFacts
<1>3. Clean(r.out)
    BY <1>1, <1>2, AnswersClean
<1> QED
    BY <1>3 DEF r

LEMMA EstablishedClean ==
    ASSUME NEW s, NEW p, NEW options \in BOOLEAN, NEW delay
    PROVE  Clean(prvHandleEstablished(s, p, options, delay).out)
<1> DEFINE r == prvHandleEstablished(s, p, options, delay)
           b == Noted(s, p)
           c == Passed(b, p)
           v == Answering(c)
           w == Accepts(b)
<1>1. \/ r = prvTCPHandleFin(w, p, options)
      \/ \E o \in BOOLEAN : r = prvSendData(c, {"ACK"}, p.len, o, delay)
      \/ r = prvSendData(v, {"ACK"}, p.len, FALSE, delay)
      \/ r = AllSent(c)
    BY EstablishedCases
<1> HIDE DEF r, b, c, v, w
<1>2. Clean(AllSent(c).out)
    BY RepeatedClean, CleanFacts DEF AllSent
<1>3. Clean(r.out)
    BY <1>1, <1>2, FinClean, AnswersClean
<1> QED
    BY <1>3 DEF r

\* A reset is sent only when the hand shake fails.
LEMMA SynReceivedClean ==
    ASSUME NEW s, NEW p, NEW options, NEW delay,
           prvHandleSynReceived(s, p, options, delay).s.state \in Handles
    PROVE  Clean(prvHandleSynReceived(s, p, options, delay).out)
<1> DEFINE r == prvHandleSynReceived(s, p, options, delay)
           t == Refused(s, p)
           k == prvTCPReturnPacket(t, {"ACK", "RST"}, 0, options)
           u == vTCPStateChange(t, "eCLOSE_WAIT")
           v == Connected(s, p)
           w == Accepted(s, p)
<1>1. \/ r = Result(u, {k})
      \/ r = prvSendData(v, {"ACK"}, p.len, options, delay)
      \/ r = Result(w, {})
      \/ r = prvSendData(w, {"ACK"}, p.len, options, delay)
    BY SynReceivedCases
<1> HIDE DEF r, t, k, u, v, w
<1>2. r # Result(u, {k})
    <2> SUFFICES ASSUME r.s = u PROVE FALSE
        BY CleanFacts
    <2>1. u.state \notin Handles
        <3>1. Listening(t).state = "eTCP_LISTEN"
            BY DEF Listening, NewSocket
        <3> QED BY <3>1 DEF u, vTCPStateChange, Handles
    <2> QED BY <2>1 DEF r
<1>3. Clean(r.out)
    BY <1>1, <1>2, AnswersClean, CleanFacts
<1> QED
    BY <1>3 DEF r

LEMMA HandleClean ==
    ASSUME NEW s, NEW p, NEW delay, s.state \in Handles,
           prvTCPHandleState(s, p, delay).s.state \in Handles
    PROVE  Clean(prvTCPHandleState(s, p, delay).out)
<1> DEFINE r == prvTCPHandleState(s, p, delay)
           t == Arrived(s, p)
           o == Options(s, p) /\ s.state # "eCONNECT_SYN"
<1>1. o \in BOOLEAN
    BY DEF Options
<1>2. \/ r = HandleSynFirst(t, p)
      \/ r = prvHandleSynReceived(t, p, o, delay)
      \/ r = prvHandleEstablished(t, p, o, delay)
      \/ r = prvTCPHandleFin(t, p, o)
    BY HandleCases DEF Handles
<1>3. r.s.state \in Handles
    OBVIOUS
<1> HIDE DEF r, t, o
<1>4. Clean(r.out)
    BY <1>1, <1>2, <1>3, SynFirstClean, SynReceivedClean, EstablishedClean, FinClean
<1> QED
    BY <1>4 DEF r

\* A socket that stays in the connection answers no packet with a reset.
LEMMA ProcessClean ==
    ASSUME NEW s \in SockType, NEW p \in Packet, NEW iss, NEW delay, s.state \in Handles,
           xProcessReceivedTCPPacket(s, p, iss, delay).s.state \in Handles
    PROVE  Clean(xProcessReceivedTCPPacket(s, p, iss, delay).out)
<1> DEFINE r == xProcessReceivedTCPPacket(s, p, iss, delay)
           t == Restarted(s)
           k == prvTCPSendChallengeAck(t)
<1>1. r = HandleReset(t, p) \/ r = Result(t, {}) \/ r = prvTCPHandleState(t, p, delay)
    <2>1. "RST" \in p.flags => r = HandleReset(t, p)
        BY ProcessCases
    <2>2. "RST" \notin p.flags => r = Result(t, {}) \/ r = prvTCPHandleState(t, p, delay)
        BY ProcessCases
    <2> QED BY <2>1, <2>2
<1>2. t.state = s.state
    BY DEF Restarted, SockType
<1>3. "RST" \notin k.flags
    BY DEF prvTCPSendChallengeAck
<1>4. r.s.state \in Handles
    OBVIOUS
<1> HIDE DEF r, t
<1>5. HandleReset(t, p).out \in {{}, {k}}
    <2> DEFINE u == vTCPStateChange(t, "eCLOSED")
    <2>1. HandleReset(t, p) \in {Result(u, {}), Result(t, {}), Result(t, {k})}
        BY DEF HandleReset
    <2> HIDE DEF u, k
    <2> QED BY <2>1, CleanFacts
<1> HIDE DEF k
<1>6. CASE r = HandleReset(t, p)
    BY <1>3, <1>5, <1>6, CleanFacts DEF r
<1>7. CASE r = Result(t, {})
    BY <1>7, CleanFacts DEF r
<1>8. CASE r = prvTCPHandleState(t, p, delay)
    BY <1>2, <1>4, <1>8, HandleClean DEF r
<1> QED
    BY <1>1, <1>6, <1>7, <1>8


\* The timer sends no reset.
LEMMA CheckClean ==
    ASSUME NEW s \in SockType, NEW resend, NEW old, NEW resolved
    PROVE  Clean(xTCPSocketCheck(s, resend, old, resolved).out)
<1> DEFINE r == xTCPSocketCheck(s, resend, old, resolved)
           a == Filled(s)
           b == Freed(a)
           D == Due(a, resend)
           c == CheckSends(s, resend, resolved)
           k == prvTCPReturnPacket(a, {"ACK"}, 0, FALSE)
<1>1. PICK u : r = Result(u, CheckOut(s, c))
    BY CheckCases
<1>2. CheckOut(s, c) = c.out \cup (IF Confirming(a) THEN {k} ELSE {})
    BY DEF CheckOut
<1>3. "RST" \notin k.flags
    BY ReturnClean
<1>4. c \in {prvTCPSendRepeated(b, D), ConnectSyn(b, resolved), Result(b, {})}
    BY DEF CheckSends, SendsNow
<1>5. b \in SockType
    BY FilledTyped
<1> HIDE DEF a, b, c, k, D, r
<1>6. Clean(ConnectSyn(b, resolved).out)
    <2> DEFINE v == Prepared(b)
               q == prvTCPReturnPacket(v, {"SYN"}, 0, TRUE)
               w == Counted(b)
               z == Counted(v)
               e == vTCPStateChange(b, "eCLOSE_WAIT")
    <2>1. ConnectSyn(b, resolved) \in {Result(e, {}), Result(w, {}), Result(z, {q})}
        BY <1>5, ConnectCases
    <2>2. "RST" \notin q.flags
        BY ReturnClean
    <2> HIDE DEF v, w, z, e, q
    <2>3. ConnectSyn(b, resolved).out \in {{}, {q}}
        BY <2>1, CleanFacts
    <2> QED BY <2>2, <2>3, CleanFacts
<1>7. Clean(c.out)
    <2>1. Clean(prvTCPSendRepeated(b, D).out)
        BY RepeatedClean
    <2>2. Clean(Result(b, {}).out)
        BY CleanFacts
    <2> QED BY <1>4, <1>6, <2>1, <2>2
<1>8. Clean(IF Confirming(a) THEN {k} ELSE {})
    BY <1>3, CleanFacts
<1>9. Clean(CheckOut(s, c))
    BY <1>2, <1>7, <1>8, CleanFacts
<1>10. r.out = CheckOut(s, c)
    BY <1>1, CleanFacts
<1> QED
    BY <1>9, <1>10 DEF r

\* The timer brings no socket into the connection.
LEMMA CheckEnters ==
    ASSUME NEW s \in SockType, NEW resend, NEW old, NEW resolved, s.state # "none",
           xTCPSocketCheck(s, resend, old, resolved).s.state \in Handles
    PROVE  s.state \in Handles
<1> SUFFICES ASSUME s.state \notin Handles PROVE FALSE
    OBVIOUS
<1> DEFINE r == xTCPSocketCheck(s, resend, old, resolved)
<1>1. s.state \in {"eTCP_LISTEN", "eCLOSED", "eCLOSE_WAIT"}
    BY DEF SockType, State, Handles
<1>2. r.s.state \in Handles
    OBVIOUS
<1>3. CASE s.state \in {"eTCP_LISTEN", "eCLOSED"}
    <2>1. r.s = Freed(s)
        BY <1>3, QuietTimer
    <2>2. Freed(s) \in SockType
        BY <1>3, FilledTyped DEF Filled, Atleast_eESTABLISHED
    <2>3. Freed(s).state = s.state
        BY <2>2, FreedSame
    <2> HIDE DEF r
    <2> QED BY <1>2, <2>1, <2>3
<1>4. CASE s.state = "eCLOSE_WAIT"
    <2> DEFINE a == Filled(s)
               b == Freed(a)
               D == Due(a, resend)
               c == CheckSends(s, resend, resolved)
    <2>1. PICK u \in CheckEnds(s, c) : r = Result(u, CheckOut(s, c))
        BY CheckCases
    <2>2. a \in SockType /\ b \in SockType
        BY FilledTyped
    <2>3. a.state = s.state
        BY <1>4 DEF Filled, Atleast_eESTABLISHED, prvTCPAddTxData, SockType
    <2>4. b.state = a.state
        BY <2>2, FreedSame
    <2>5. c \in {prvTCPSendRepeated(b, D), Result(b, {})}
        BY <1>4, <2>3, <2>4 DEF CheckSends, SendsNow
    <2>6. u = c.s
        BY <1>4 DEF CheckEnds, MayHang
    <2>7. prvTCPSendRepeated(b, D).s.state = b.state
        <3> HIDE DEF b, D
        <3> DEFINE fin == {q \in D : ClosesWith(b, q)}
                   h == High(b, D)
                   f == IF fin = {} THEN b.txfin ELSE b.next
                   g == (IF fin = {} THEN b.bits ELSE b.bits \cup {"bFinSent"}) \ {"bWinChange"}
                   t == [b EXCEPT !.nxt = h, !.our = IF b.txStream THEN h ELSE @, !.txfin = f, !.bits = g]
        <3>1. ~ShutdownDue(b)
            BY <1>4, <2>3, <2>4 DEF ShutdownDue
        <3>2. \E out : prvTCPSendRepeated(b, D) = Result(t, out)
            BY <3>1 DEF prvTCPSendRepeated, High
        <3> HIDE DEF h, f, g
        <3>3. t.state = b.state
            BY <2>2 DEF SockType
        <3> HIDE DEF t
        <3> QED BY <3>2, <3>3, CleanFacts
    <2> HIDE DEF a, b, c, r, D
    <2>8. r.s = c.s
        BY <2>1, <2>6, CleanFacts
    <2>9. c.s.state = b.state
        BY <2>5, <2>7, CleanFacts
    <2> QED BY <1>2, <1>4, <2>3, <2>4, <2>8, <2>9 DEF Handles
<1> QED
    BY <1>1, <1>3, <1>4


LEMMA ListenReset ==
    ASSUME NEW s, NEW p, NEW iss, NEW delay, s.state = "eTCP_LISTEN", "RST" \in p.flags
    PROVE  xProcessReceivedTCPPacket(s, p, iss, delay).out = {}
<1>1. p.flags # {"SYN"}
    OBVIOUS
<1>2. xProcessReceivedTCPPacket(s, p, iss, delay) = Result(Restarted(s), {})
    BY <1>1 DEF xProcessReceivedTCPPacket, prvTCPSocketIsActive, Restarted
<1> QED
    BY <1>2, CleanFacts

\* No reset goes to B while A is connecting or connected, and none to A while both are.  B is
\* also ready to be connected to, as long as it listens and has not answered a SYN; until
\* then A is not connected.
Ready(s, n) == s.state \in Handles \/ (s.state = "eTCP_LISTEN" /\ n = 0)

Joining(s) == s.state \in Handles \/ Waiting(s)

NoneAnswered(n, s, out) == n = 0 => Idle("A", s) /\ \A p \in out : "SYN" \notin p.flags

ResetInv ==
    /\ NoneAnswered(listens, sock["A"], net["A"])
    /\ sock["A"].state \in Handles => Clean(net["B"])
    /\ Ready(sock["B"], listens) /\ Joining(sock["A"]) => Clean(net["A"])

LEMMA CleanLess ==
    ASSUME NEW S, NEW T, NEW R, S \subseteq T \cup R, Clean(T), Clean(R)
    PROVE  Clean(S)
BY DEF Clean

LEMMA StatesOfA ==
    ASSUME ConnInv
    PROVE  sock["A"].state # "eTCP_LISTEN"
<1>1. End("A", sock["A"], log["A"], log[Peer("A")])
    BY DEF ConnInv, Ends, Socket
<1> QED
    BY <1>1 DEF End, Idle, Conn, Phase

\* A packet reaches A.
LEMMA ReceiveResetA ==
    ASSUME TypeInv, ConnInv, ResetInv, NEW p \in net["A"], NEW again, NEW delay,
           Receives("A", p, again, Handled("A", p, delay))
    PROVE  ResetInv'
<1> DEFINE r == Handled("A", p, delay)
           s == sock["A"]
<1>1. "A" \in Socket /\ "B" \in Socket /\ Peer("A") = "B" /\ Peer("B") = "A"
    BY PeerOf DEF Socket
<1>2. /\ net'["A"] \subseteq net["A"] /\ net'["B"] \subseteq net["B"] \cup r.out
      /\ sock'["A"] = r.s /\ sock'["B"] = sock["B"]
    BY <1>1, ReceiveNet
<1>3. s \in SockType /\ p \in Packet /\ r.s \in SockType
    BY <1>1, ResultTyped DEF TypeInv, Receives
<1>4. r = xProcessReceivedTCPPacket(s, p, IssB(listens + 1), delay)
    BY DEF Handled
<1>5. s.state # "eTCP_LISTEN" /\ s.state \in State
    BY <1>3, StatesOfA DEF SockType
<1>6. listens' = listens
    BY <1>5 DEF Receives, Joins
<1>7. r.s.state \in Handles => s.state \in Handles
    <2> SUFFICES ASSUME s.state \notin Handles PROVE r.s.state = s.state
        OBVIOUS
    <2> DEFINE k == {prvTCPSendReset(p)}
    <2>1. s.state \in {"eCLOSED", "eCLOSE_WAIT", "none"}
        BY <1>5 DEF State, Handles
    <2>2. r = Result(s, {}) \/ r = Result(s, k)
        BY <1>3, <1>4, <2>1, ProcessCases
    <2> HIDE DEF r, s, k
    <2> QED BY <2>2, CleanFacts
<1>8. r.s.state \in Handles => Clean(r.out)
    BY <1>3, <1>4, <1>7, ProcessClean
<1>9. Waiting(r.s) => Waiting(s)
    <2> SUFFICES ASSUME Waiting(r.s) PROVE Waiting(s)
        OBVIOUS
    <2>1. Idle("A", s)
        <3> SUFFICES ASSUME ~Idle("A", s) PROVE FALSE
            OBVIOUS
        <3>1. Conn("A", r.s, Had("A", log'["A"]), log'["A"].fin, Had("B", log["B"]), log["B"].fin)
            BY <1>1, ConnReceives DEF ConnInv
        <3> QED BY <1>1, <1>3, <3>1, NotBoth DEF Waiting
    <2>2. CASE s.state \in {"eCLOSED", "eCONNECT_SYN"}
        BY <2>1, <2>2 DEF Waiting
    <2>3. CASE s.state \notin {"eCLOSED", "eCONNECT_SYN"}
        <3>1. r.s.state = s.state
            BY <1>1, <1>3, <1>4, <1>5, <2>1, <2>3, IdleReceives
        <3> QED BY <2>3, <3>1 DEF Waiting
    <2> QED BY <2>2, <2>3
<1>10. NoneAnswered(listens', sock'["A"], net'["A"])
    <2> SUFFICES ASSUME listens = 0
                 PROVE  Idle("A", r.s) /\ \A q \in net'["A"] : "SYN" \notin q.flags
        BY <1>2, <1>6 DEF NoneAnswered
    <2>1. Idle("A", s) /\ \A q \in net["A"] : "SYN" \notin q.flags
        BY DEF ResetInv, NoneAnswered
    <2>2. s.state = "eCONNECT_SYN" => "RST" \in p.flags
        <3> SUFFICES ASSUME s.state = "eCONNECT_SYN" PROVE "RST" \in p.flags
            OBVIOUS
        <3>1. FromB(p)
            BY <2>1 DEF ConnInv, Early, Waiting
        <3>2. "SYN" \notin p.flags
            BY <2>1
        <3> QED BY <3>1, <3>2 DEF FromB
    <2>3. Idle("A", r.s)
        BY <1>1, <1>3, <1>4, <1>5, <2>1, <2>2, IdleReceives
    <2> QED BY <1>2, <2>1, <2>3
<1> HIDE DEF r, s
<1>11. sock'["A"].state \in Handles => Clean(net'["B"])
    <2> SUFFICES ASSUME r.s.state \in Handles PROVE Clean(net'["B"])
        BY <1>2
    <2>1. Clean(net["B"]) /\ Clean(r.out)
        BY <1>7, <1>8 DEF ResetInv, s
    <2> QED BY <1>2, <2>1, CleanLess
<1>12. Ready(sock'["B"], listens') /\ Joining(sock'["A"]) => Clean(net'["A"])
    <2> SUFFICES ASSUME Ready(sock["B"], listens), Joining(r.s) PROVE Clean(net'["A"])
        BY <1>2, <1>6
    <2>1. Joining(s)
        BY <1>7, <1>9 DEF Joining
    <2>2. Clean(net["A"])
        BY <2>1 DEF ResetInv, s
    <2> QED BY <1>2, <2>2 DEF Clean
<1> QED
    BY <1>10, <1>11, <1>12 DEF ResetInv


\* A packet reaches B.
LEMMA ReceiveResetB ==
    ASSUME TypeInv, ConnInv, ResetInv, MaxListens = 1, NEW p \in net["B"], NEW again, NEW delay,
           Receives("B", p, again, Handled("B", p, delay))
    PROVE  ResetInv'
<1> DEFINE r == Handled("B", p, delay)
           s == sock["B"]
           k == prvTCPSendReset(p)
<1>1. "A" \in Socket /\ "B" \in Socket /\ Peer("A") = "B" /\ Peer("B") = "A"
    BY PeerOf DEF Socket
<1>2. /\ net'["B"] \subseteq net["B"] /\ net'["A"] \subseteq net["A"] \cup r.out
      /\ sock'["B"] = r.s /\ sock'["A"] = sock["A"]
    BY <1>1, ReceiveNet
<1>3. s \in SockType /\ p \in Packet /\ r.s \in SockType /\ s.state \in State
    BY <1>1, ResultTyped DEF TypeInv, Receives, SockType
<1>4. r = xProcessReceivedTCPPacket(s, p, IssB(listens + 1), delay)
    BY DEF Handled
<1>5. listens \in Nat /\ (Joins("B", p) => listens = 0 /\ listens' = 1)
                      /\ (~Joins("B", p) => listens' = listens)
    BY DEF Receives, TypeInv
<1>6. listens = 0 => Idle("B", s)
    BY DEF ConnInv, Unanswered
<1>7. NoneAnswered(listens', sock'["A"], net'["A"])
    <2> SUFFICES ASSUME listens' = 0
                 PROVE  Idle("A", sock["A"]) /\ \A q \in net'["A"] : "SYN" \notin q.flags
        BY <1>2 DEF NoneAnswered
    <2>1. listens = 0 /\ ~Joins("B", p)
        BY <1>5
    <2>2. Idle("A", sock["A"]) /\ \A q \in net["A"] : "SYN" \notin q.flags
        BY <2>1 DEF ResetInv, NoneAnswered
    <2>3. (s.state = "eTCP_LISTEN" => p.flags # {"SYN"}) /\ s.state # "eCONNECT_SYN"
        BY <1>6, <2>1 DEF Joins, Idle
    <2>4. r.out \subseteq {k}
        BY <1>1, <1>3, <1>4, <1>6, <2>1, <2>3, IdleReceives
    <2>5. "SYN" \notin k.flags
        BY DEF prvTCPSendReset
    <2> HIDE DEF r, k
    <2> QED BY <1>2, <2>2, <2>4, <2>5
<1>8. sock'["A"].state \in Handles => Clean(net'["B"])
    BY <1>2 DEF ResetInv, Clean
<1>9. Ready(r.s, listens') /\ Joining(sock["A"]) => Ready(s, listens) /\ Clean(r.out)
    <2> SUFFICES ASSUME Ready(r.s, listens'), Joining(sock["A"])
                 PROVE  Ready(s, listens) /\ Clean(r.out)
        OBVIOUS
    <2>1. CASE s.state \in Handles
        <3>1. listens # 0
            BY <1>6, <2>1 DEF Idle, Handles
        <3>2. r.s.state \in Handles
            BY <1>5, <3>1 DEF Ready
        <3>3. Clean(r.out)
            BY <1>3, <1>4, <2>1, <3>2, ProcessClean
        <3> QED BY <2>1, <3>3 DEF Ready
    <2>2. CASE s.state = "eTCP_LISTEN" /\ p.flags = {"SYN"}
        <3>1. listens = 0
            BY <1>5, <2>2 DEF Joins
        <3> DEFINE iss == IssB(listens + 1)
                   t == vTCPWindowInit(Restarted(s), p.seq, iss)
        <3>2. r = HandleSynFirst(t, p)
            <4>1. r = xProcessReceivedTCPPacket(s, p, iss, delay)
                BY <1>4
            <4>2. s \in SockType /\ p \in Packet /\ s.state = "eTCP_LISTEN" /\ p.flags = {"SYN"}
                BY <1>3, <2>2
            <4>3. s.state = "eTCP_LISTEN" /\ p.flags = {"SYN"} =>
                      xProcessReceivedTCPPacket(s, p, iss, delay) =
                          HandleSynFirst(vTCPWindowInit(Restarted(s), p.seq, iss), p)
                <5> HIDE DEF iss, r, s
                <5> QED BY <4>2, ProcessCases
            <4> QED BY <4>1, <4>2, <4>3
        <3> HIDE DEF t
        <3>3. Clean(r.out)
            BY <3>2, SynFirstClean
        <3> QED BY <2>2, <3>1, <3>3 DEF Ready
    <2>3. CASE s.state = "eTCP_LISTEN" /\ p.flags # {"SYN"}
        <3> DEFINE t == Restarted(s)
                   refused == {prvTCPSendReset(p)}
        <3>1. r = Result(t, {}) \/ r = Result(t, refused)
            BY <1>3, <1>4, <2>3, ProcessCases
        <3>2. t.state = "eTCP_LISTEN"
            BY <1>3, <2>3 DEF Restarted, SockType
        <3>3. r.s.state = "eTCP_LISTEN"
            <4> HIDE DEF r, t, refused
            <4> QED BY <3>1, <3>2, CleanFacts
        <3>4. listens = 0
            BY <1>5, <2>3, <3>3 DEF Ready, Handles, Joins
        <3>5. Idle("A", sock["A"])
            BY <3>4 DEF ResetInv, NoneAnswered
        <3>6. Waiting(sock["A"])
            BY <3>5 DEF Joining, Waiting, Idle, Handles
        <3>7. FromA(p)
            BY <3>6 DEF ConnInv, Early
        <3>8. "RST" \in p.flags
            BY <2>3, <3>7 DEF FromA
        <3>9. r.out = {}
            BY <1>4, <2>3, <3>8, ListenReset
        <3> HIDE DEF r
        <3> QED BY <2>3, <3>4, <3>9, CleanFacts DEF Ready
    <2>4. CASE s.state \in {"eCLOSED", "eCLOSE_WAIT", "none"}
        <3> DEFINE refused == {prvTCPSendReset(p)}
        <3>1. r = Result(s, {}) \/ r = Result(s, refused)
            BY <1>3, <1>4, <2>4, ProcessCases
        <3>2. r.s = s
            <4> HIDE DEF r, s, refused
            <4> QED BY <3>1, CleanFacts
        <3> QED BY <2>4, <3>2 DEF Ready, Handles
    <2> QED BY <1>3, <2>1, <2>2, <2>3, <2>4 DEF State, Handles
<1>10. Ready(sock'["B"], listens') /\ Joining(sock'["A"]) => Clean(net'["A"])
    <2> SUFFICES ASSUME Ready(r.s, listens'), Joining(sock["A"]) PROVE Clean(net'["A"])
        BY <1>2
    <2>1. Clean(net["A"]) /\ Clean(r.out)
        BY <1>9 DEF ResetInv
    <2> HIDE DEF r
    <2> QED BY <1>2, <2>1, CleanLess
<1> QED
    BY <1>7, <1>8, <1>10 DEF ResetInv

LEMMA TimerReset ==
    ASSUME TypeInv, ConnInv, ResetInv, NEW x \in Socket, NEW resend, NEW old, NEW resolved,
           Timer(x, resend, old, resolved)
    PROVE  ResetInv'
<1> DEFINE r == xTCPSocketCheck(sock[x], resend, old, resolved)
           s == sock[x]
           D == Had(x, log[x])
           E == log[x].fin
           G == Had(Peer(x), log[Peer(x)])
           F == log[Peer(x)].fin
<1>1. /\ s \in SockType /\ s.state # "none" /\ sock' = [sock EXCEPT ![x] = r.s]
      /\ Sends(x, r.out, net) /\ listens' = listens
    BY DEF Timer, TypeInv
<1>2. r.s \in SockType
    BY <1>1, CheckTyped, ResultTyped
<1>3. "A" \in Socket /\ "B" \in Socket /\ Peer("A") = "B" /\ Peer("B") = "A"
    BY PeerOf DEF Socket
<1>4. sock'[x] = r.s /\ sock'[Peer(x)] = sock[Peer(x)]
    BY <1>1, PeerFacts DEF TypeInv
<1>5. net'[x] \subseteq net[x] /\ net'[Peer(x)] \subseteq net[Peer(x)] \cup r.out
    <2>1. net \in [Socket -> Packets]
        BY DEF TypeInv
    <2> QED BY <1>1, <2>1, NetParts
<1>6. Clean(r.out)
    BY <1>1, CheckClean
<1>7. r.s.state \in Handles => s.state \in Handles
    BY <1>1, CheckEnters
<1>8. Conn(x, s, D, E, G, F) \/ Idle(x, s)
    BY DEF ConnInv, Ends, End
<1>9. Idle(x, s) => Idle(x, r.s) /\ (x = "A" => Waits(s, r))
    BY <1>1, IdleTimer
<1>10. Conn(x, s, D, E, G, F) => Stays(x, s, r, D, E, G, F)
    BY <1>1, CheckKeeps
<1>11. CASE x = "A"
    <2>1. Waiting(r.s) => Waiting(s)
        <3> SUFFICES ASSUME Waiting(r.s) PROVE Waiting(s)
            OBVIOUS
        <3> HIDE DEF r, s, D, E, G, F
        <3>1. Idle("A", s)
            <4> SUFFICES ASSUME ~Idle("A", s) PROVE FALSE
                OBVIOUS
            <4>1. Conn("A", r.s, D, E, G, F)
                BY <1>8, <1>10, <1>11 DEF Stays
            <4> QED BY <1>2, <1>3, <4>1, NotBoth DEF Waiting
        <3> QED BY <1>9, <1>11, <3>1 DEF Waits, Waiting
    <2>2. Joining(r.s) => Joining(s)
        BY <1>7, <2>1 DEF Joining
    <2>3. NoneAnswered(listens', sock'["A"], net'["A"])
        <3> HIDE DEF r
        <3> QED BY <1>1, <1>4, <1>5, <1>9, <1>11 DEF ResetInv, NoneAnswered
    <2>4. sock'["A"].state \in Handles => Clean(net'["B"])
        <3> HIDE DEF r
        <3> QED BY <1>3, <1>4, <1>5, <1>6, <1>7, <1>11, CleanLess DEF ResetInv
    <2>5. Ready(sock'["B"], listens') /\ Joining(sock'["A"]) => Clean(net'["A"])
        <3> SUFFICES ASSUME Ready(sock["B"], listens), Joining(r.s) PROVE Clean(net'["A"])
            BY <1>1, <1>3, <1>4, <1>11
        <3>1. Clean(net["A"])
            BY <1>11, <2>2 DEF ResetInv
        <3> QED BY <1>5, <1>11, <3>1 DEF Clean
    <2> QED BY <2>3, <2>4, <2>5 DEF ResetInv
<1>12. CASE x = "B"
    <2>1. listens = 0 => Idle("B", s) /\ s.state = "eTCP_LISTEN"
        BY <1>1, <1>12 DEF ConnInv, Unanswered, Idle
    <2>2. Ready(r.s, listens) => Ready(s, listens)
        BY <1>7, <2>1 DEF Ready
    <2>3. NoneAnswered(listens', sock'["A"], net'["A"])
        <3> SUFFICES ASSUME listens = 0
                     PROVE  Idle("A", sock["A"]) /\ \A q \in net'["A"] : "SYN" \notin q.flags
            BY <1>1, <1>3, <1>4, <1>12 DEF NoneAnswered
        <3> DEFINE k == BareAck(s)
        <3>1. r.out \subseteq {k}
            BY <1>1, <2>1, QuietTimer
        <3>2. "SYN" \notin k.flags
            BY DEF BareAck, prvTCPReturnPacket
        <3> HIDE DEF k, r
        <3> QED BY <1>3, <1>5, <1>12, <3>1, <3>2 DEF ResetInv, NoneAnswered
    <2>4. sock'["A"].state \in Handles => Clean(net'["B"])
        BY <1>3, <1>4, <1>5, <1>12 DEF ResetInv, Clean
    <2>5. Ready(sock'["B"], listens') /\ Joining(sock'["A"]) => Clean(net'["A"])
        <3> SUFFICES ASSUME Ready(r.s, listens), Joining(sock["A"]) PROVE Clean(net'["A"])
            BY <1>1, <1>3, <1>4, <1>12
        <3>1. Clean(net["A"])
            BY <1>12, <2>2 DEF ResetInv
        <3> HIDE DEF r
        <3> QED BY <1>3, <1>5, <1>6, <1>12, <3>1, CleanLess
    <2> QED BY <2>3, <2>4, <2>5 DEF ResetInv
<1> QED
    BY <1>11, <1>12 DEF Socket


LEMMA UserReset ==
    ASSUME TypeInv, ConnInv, ResetInv, NEW x \in Socket, User(x)
    PROVE  ResetInv'
<1> DEFINE s == sock[x]
<1>1. PICK u \in SockType :
              /\ sock' = [sock EXCEPT ![x] = u] /\ UNCHANGED <<net, listens, log>>
              /\ \/ /\ x = "A" /\ s.state = "eCLOSED" /\ "bConnPrepared" \notin s.bits
                    /\ u = vTCPStateChange(s, "eCONNECT_SYN")
                 \/ x = "B" /\ s.state \in {"eCLOSED", "eCLOSE_WAIT"} /\ u = Listening(s)
                 \/ /\ s.state = "eESTABLISHED"
                    /\ \E n \in Nat : u = SendAdds(s, x, n)
                 \/ s.state = "eESTABLISHED" /\ u = ShutdownAsks(s)
                 \/ u = Gone
    BY UserCases
<1>2. "A" \in Socket /\ "B" \in Socket /\ Peer("A") = "B" /\ Peer("B") = "A"
    BY PeerOf DEF Socket
<1>3. s \in SockType /\ net' = net /\ listens' = listens
    BY <1>1 DEF TypeInv
<1>4. sock'[x] = u /\ sock'[Peer(x)] = sock[Peer(x)]
    BY <1>1, PeerFacts DEF TypeInv
<1>5. End(x, s, log[x], log[Peer(x)])
    BY DEF ConnInv, Ends
<1>6. CASE x = "A" /\ s.state = "eCLOSED" /\ "bConnPrepared" \notin s.bits
           /\ u = vTCPStateChange(s, "eCONNECT_SYN")
    <2>1. Idle("A", s)
        BY <1>5, <1>6 DEF End, Conn, Phase
    <2>2. Idle("A", u)
        BY <1>3, <1>6, <2>1, ConnectKeeps
    <2>3. Waiting(sock["A"])
        BY <1>6, <2>1 DEF Waiting
    <2>4. net["A"] = {} /\ net["B"] = {}
        BY <1>6, <2>3 DEF ConnInv, Early
    <2> QED BY <1>3, <1>4, <1>6, <2>2, <2>4 DEF ResetInv, NoneAnswered, Clean
<1>7. CASE x = "B" /\ s.state \in {"eCLOSED", "eCLOSE_WAIT"} /\ u = Listening(s)
    <2>1. listens # 0
        BY <1>7 DEF ConnInv, Unanswered, Idle
    <2>2. u.state = "eTCP_LISTEN"
        BY <1>7 DEF Listening, NewSocket
    <2> QED BY <1>2, <1>3, <1>4, <1>7, <2>1, <2>2 DEF ResetInv, NoneAnswered, Ready, Handles
<1>8. CASE s.state = "eESTABLISHED" /\ u.state = "eESTABLISHED"
    <2>1. s.state \in Handles /\ u.state \in Handles /\ ~Idle(x, s)
        BY <1>8 DEF Handles, Idle
    <2>2. CASE x = "A"
        <3>1. listens # 0
            BY <2>1, <2>2 DEF ResetInv, NoneAnswered
        <3> QED BY <1>2, <1>3, <1>4, <2>1, <2>2, <3>1 DEF ResetInv, NoneAnswered, Joining
    <2>3. CASE x = "B"
        BY <1>2, <1>3, <1>4, <2>1, <2>3 DEF ResetInv, Ready
    <2> QED BY <2>2, <2>3 DEF Socket
<1>9. CASE u = Gone
    <2>1. u.state = "none" /\ Idle(x, u)
        BY <1>9, GoneIdle
    <2>2. CASE x = "A"
        BY <1>2, <1>3, <1>4, <2>1, <2>2 DEF ResetInv, NoneAnswered, Joining, Waiting, Handles
    <2>3. CASE x = "B"
        BY <1>2, <1>3, <1>4, <2>1, <2>3 DEF ResetInv, Ready, Handles
    <2> QED BY <2>2, <2>3 DEF Socket
<1>10. ASSUME NEW n PROVE SendAdds(s, x, n).state = s.state
    BY <1>3 DEF SendAdds, SockType
<1>11. ShutdownAsks(s).state = s.state
    BY <1>3 DEF ShutdownAsks, SockType
<1> QED
    BY <1>1, <1>6, <1>7, <1>8, <1>9, <1>10, <1>11

\* As long as both ends use the connection no RST is on its way to either: an end answers
\* with a reset only when it has left the connection, when the hand shake fails, or when it
\* listens to a packet that no connected peer sends.  For one connection, with any amount of
\* data, any losses, repetitions and delays, and any use of FreeRTOS_shutdown and
\* FreeRTOS_closesocket.
THEOREM NoBelievedReset ==
    ASSUME MaxListens = 1, CloseAfterSend = {}
    PROVE  Spec => []NoResetWhileLive
<1>1. Init => ResetInv
    <2> SUFFICES ASSUME Init PROVE ResetInv
        OBVIOUS
    <2>1. net["A"] = {} /\ net["B"] = {}
        BY DEF Init, Socket
    <2>2. Idle("A", sock["A"])
        <3>1. End("A", sock["A"], log["A"], log[Peer("A")])
            BY StartsConn DEF ConnInv, Ends, Socket
        <3>2. sock["A"].state = "eCLOSED" /\ sock["A"].bits = {}
            BY DEF Init, Socket, NewSocket
        <3> QED BY <3>1, <3>2 DEF End, Conn, Phase
    <2> QED BY <2>1, <2>2 DEF ResetInv, NoneAnswered, Clean
<1>2. TypeInv /\ ConnInv /\ ResetInv /\ [Next]_vars => ResetInv'
    <2> SUFFICES ASSUME TypeInv, ConnInv, ResetInv, [Next]_vars PROVE ResetInv'
        OBVIOUS
    <2>1. CASE UNCHANGED vars
        BY <2>1 DEF vars, ResetInv
    <2>2. CASE Next
        <3>1. PICK x \in Socket :
                  \/ Receive(x)
                  \/ \E resend, old, resolved : Timer(x, resend, old, resolved)
                  \/ User(x)
            BY <2>2, NextCases
        <3>2. CASE Receive(x)
            <4>1. PICK p \in net[x], again \in BOOLEAN : \E delay \in {FALSE, p.len > 0} :
                      Receives(x, p, again, Handled(x, p, delay))
                BY <3>2, ReceiveParts
            <4>2. PICK delay \in {FALSE, p.len > 0} : Receives(x, p, again, Handled(x, p, delay))
                BY <4>1
            <4>3. CASE x = "A"
                BY <4>2, <4>3, ReceiveResetA
            <4>4. CASE x = "B"
                BY <4>2, <4>4, ReceiveResetB
            <4> QED BY <4>3, <4>4 DEF Socket
        <3>3. CASE \E resend, old, resolved : Timer(x, resend, old, resolved)
            BY <3>3, TimerReset
        <3>4. CASE User(x)
            BY <3>4, UserReset
        <3> QED BY <3>1, <3>2, <3>3, <3>4
    <2> QED BY <2>1, <2>2
<1>3. ResetInv => NoResetWhileLive
    <2> SUFFICES ASSUME ResetInv, NEW x \in Socket, Live(x) PROVE Clean(net[x])
        BY DEF NoResetWhileLive, Clean
    <2>1. sock["A"].state \in Handles /\ sock["B"].state \in Handles
        BY PeerOf DEF Live, Handles, Socket
    <2>2. Clean(net["A"]) /\ Clean(net["B"])
        BY <2>1 DEF ResetInv, Ready, Joining
    <2> QED BY <2>2 DEF Socket
<1> QED
    BY <1>1, <1>2, <1>3, AlwaysTyped, ConnInvariance, PTL DEF Spec

=============================================================================
