---------------------------- MODULE TCPWindowRx ----------------------------
(***************************************************************************)
(* The receiving side of a TCP connection: the reception part of            *)
(* prvTCPHandleState, prvStoreRxData, the Rx half of the sliding window     *)
(* (lTCPWindowRxCheck and its helpers) and the decision of                  *)
(* prvHandleEstablished to accept or to refuse the peer's FIN.              *)
(*                                                                          *)
(* The peer sends Total bytes and then a FIN.  The network may lose,        *)
(* duplicate, delay and reorder its segments, so any segment of the peer's  *)
(* stream may arrive at any time, any number of times.  A byte is its       *)
(* position in the peer's stream.  There are two kinds of peers: a "steady" *)
(* one always cuts its stream at the same places, and its FIN finds our     *)
(* sending side done; "any" sends segments of any length at any place, and  *)
(* our sending side may not be done when its FIN arrives.                   *)
(***************************************************************************)
EXTENDS TCPSequence, FiniteSets

CONSTANTS Isn,          \* sequence number of the peer's first data byte
          Total,        \* the number of bytes the peer sends before its FIN
          MSS,          \* the largest segment
          Cuts,         \* where a steady peer cuts its stream
          Capacity,     \* the bytes rxStream holds
          SegCount,     \* ipconfigTCP_WIN_SEG_COUNT: segment descriptors
          NoByte

ASSUME RxAssumption ==
    /\ Isn \in SeqNr /\ Total \in Nat /\ MSS \in Nat /\ Capacity \in Nat /\ SegCount \in Nat
    /\ Total + 1 < SeqHalf
    /\ {0, Total} \subseteq Cuts /\ Cuts \subseteq 0 .. Total
    /\ NoByte \notin Nat

VARIABLES
    rxCur,        \* pxWindow->rx.ulCurrentSequenceNumber
    rxHighest,    \* pxWindow->rx.ulHighestSequenceNumber
    rxSegments,   \* pxWindow->xRxSegments: the descriptors of stored segments
    sack,         \* pxWindow->ulOptionsData: the SACK option of the next ACK
    segUsed,      \* descriptors of the common pool that other sockets hold
    head, tail,   \* rxStream: bytes added at uxHead, bytes removed at uxTail
    cell,         \* rxStream: the byte that is stored at each stream offset
    finSeq,       \* bFinRecv and rx.ulFINSequenceNumber: {} until a FIN is seen
    accepted,     \* bFinAccepted
    failed,       \* prvStoreRxData could not store data and sent a RST
    peer          \* the kind of the peer, "steady" or "any"

vars == <<rxCur, rxHighest, rxSegments, sack, segUsed, head, tail, cell,
          finSeq, accepted, failed, peer>>

Segment == [seq : SeqNr, len : 1 .. MSS]

NoSack == << >>

\* The data segments the peer may send: <<offset, length>>.
PeerSegments ==
    {s \in (0 .. Total - 1) \X (1 .. MSS) :
        /\ s[1] + s[2] <= Total
        /\ peer = "steady" => (s[1] .. s[1] + s[2]) \cap Cuts = {s[1], s[1] + s[2]}}

uxStreamBufferGetSpace == Capacity - (head - tail)

-----------------------------------------------------------------------------
(***************************************************************************)
(* Helpers of lTCPWindowRxCheck.  No two stored segments start at the same  *)
(* sequence number, so the list is modelled as a set.                       *)
(***************************************************************************)
xTCPWindowRxFind(segs, seq) == {s \in segs : s.seq = seq}

\* The stored segments that start within the segment that was just received;
\* prvTCPWindowRx_ExpectedRX frees them one by one.
xTCPWindowRxConfirm(segs, seq, len) ==
    {s \in segs : /\ xSequenceGreaterThanOrEqual(s.seq, seq)
                  /\ xSequenceLessThan(s.seq, SeqAdd(seq, len))}

\* The FIN may be accepted: no segment is stored and the highest sequence
\* number has been confirmed (cur, highest and segs are the window's fields).
xTCPWindowRxEmpty(cur, highest, segs) ==
    /\ segs = {}
    /\ xSequenceGreaterThanOrEqual(SeqAdd(cur, 1), highest)

\* The result of lTCPWindowRxCheck: where to store the data (offset, or -1 to
\* drop it), the bytes to skip, and the new state of the window.
Refuse == [offset |-> -1, skip |-> 0, len |-> 0, user |-> 0, cur |-> rxCur,
           segs |-> rxSegments, sack |-> NoSack]

prvTCPWindowRx_ExpectedRX_Keep(skip, len) ==
    LET saved == SeqAdd(rxCur, len)
        chain == Chain(rxSegments, saved)
    IN  [offset |-> 0, skip |-> skip, len |-> len,
         user |-> SeqSub(chain.next, saved), cur |-> chain.next,
         segs |-> rxSegments, sack |-> NoSack]

prvTCPWindowRx_ExpectedRX(skip, len) ==
    LET left  == rxSegments \ xTCPWindowRxConfirm(rxSegments, rxCur, len)
        saved == SeqAdd(rxCur, len)
        chain == Chain(left, saved)
    IN  [offset |-> 0, skip |-> skip, len |-> len,
         user |-> SeqSub(chain.next, saved), cur |-> chain.next,
         segs |-> left \ chain.used, sack |-> NoSack]

prvTCPWindowRx_UnexpectedRX(seq, len) ==
    LET option == <<seq, Chain(rxSegments, SeqAdd(seq, len)).next>>
    IN  IF xTCPWindowRxFind(rxSegments, seq) # {}
        THEN [Refuse EXCEPT !.sack = option]
        ELSE IF segUsed + Cardinality(rxSegments) = SegCount  \* xTCPWindowRxNew
        THEN Refuse
        ELSE [Refuse EXCEPT !.offset = Signed(SeqSub(seq, rxCur)),
                            !.len = len,
                            !.sack = option,
                            !.segs = @ \cup {[seq |-> seq, len |-> len]}]

lTCPWindowRxCheck_NoSpace(seq, length, space) ==
    LET lLast  == Signed(SeqSub(SeqAdd(seq, length), rxCur))
        lStart == Signed(SeqSub(seq, rxCur))
        skip   == IF lStart < 0 /\ lLast > 0 THEN -lStart ELSE 0
        rxSeq  == SeqAdd(seq, skip)
        rxLen  == length - skip
    IN  IF rxCur = rxSeq
        THEN IF rxLen > space THEN Refuse ELSE prvTCPWindowRx_ExpectedRX(skip, rxLen)
        ELSE IF rxCur = SeqAdd(rxSeq, 1) \/ lLast <= 0 THEN Refuse
        ELSE prvTCPWindowRx_UnexpectedRX(rxSeq, rxLen)

lTCPWindowRxCheck_NoSkip(seq, length, space) ==
    LET lLast  == Signed(SeqSub(SeqAdd(seq, length), rxCur))
        lStart == Signed(SeqSub(seq, rxCur))
        rxSeq  == IF lStart < 0 /\ lLast > 0 THEN rxCur ELSE seq
    IN  IF rxCur = rxSeq
        THEN IF length > space THEN Refuse ELSE prvTCPWindowRx_ExpectedRX(0, length)
        ELSE IF rxCur = SeqAdd(rxSeq, 1) \/ lLast <= 0 \/ lLast > space THEN Refuse
        ELSE prvTCPWindowRx_UnexpectedRX(rxSeq, length)

lTCPWindowRxCheck(seq, length, space) ==
    LET lLast  == Signed(SeqSub(SeqAdd(seq, length), rxCur))
        lStart == Signed(SeqSub(seq, rxCur))
        skip   == IF lStart < 0 /\ lLast > 0 THEN -lStart ELSE 0
        rxSeq  == SeqAdd(seq, skip)
        rxLen  == length - skip
    IN  IF rxCur = rxSeq                         \* the segment that is expected
        THEN IF rxLen > space THEN Refuse ELSE prvTCPWindowRx_ExpectedRX(skip, rxLen)
        ELSE IF \/ rxCur = SeqAdd(rxSeq, 1)      \* a keep-alive
                \/ lLast <= 0                    \* an old segment
                \/ lLast > space                 \* no room to store it
        THEN Refuse
        ELSE prvTCPWindowRx_UnexpectedRX(rxSeq, rxLen)

-----------------------------------------------------------------------------
(***************************************************************************)
(* The arrival of a segment.                                                *)
(***************************************************************************)

\* The bytes lTCPAddRxdata stores at an offset from uxHead of rxStream:
\* uxStreamBufferAdd takes no more than fit before uxTail.
lTCPAddRxdata(offset, len) ==
    LET room == IF uxStreamBufferGetSpace > offset THEN uxStreamBufferGetSpace - offset ELSE 0
    IN  IF room < len THEN room ELSE len

\* prvStoreRxData for bytes from position p of the peer's stream, with the
\* answer r of lTCPWindowRxCheck: the new state of the stream, when the first
\* call of lTCPAddRxdata stores n bytes and the second moves uxHead over user
\* bytes that were stored before.
Store(p, r, n, user) ==
    LET start == head + r.offset
    IN  [short |-> r.offset >= 0 /\ n # r.len,
         head  |-> head + (IF r.offset = 0 THEN n ELSE 0) + user,
         cell  |-> [k \in DOMAIN cell |->
                      IF start <= k /\ k < start + n THEN p + r.skip + (k - start) ELSE cell[k]]]

prvStoreRxData_OneAdd(p, r) ==
    Store(p, r, IF r.offset < 0 THEN 0 ELSE lTCPAddRxdata(r.offset, r.len), 0)

\* The second call is left out when the first one stored less than it was given.
prvStoreRxData(p, r) ==
    LET n == IF r.offset < 0 THEN 0 ELSE lTCPAddRxdata(r.offset, r.len)
    IN  Store(p, r, n, IF r.offset >= 0 /\ n # r.len THEN 0 ELSE lTCPAddRxdata(n, r.user))

\* prvTCPHandleState keeps track of the highest sequence number.
Highest(end) == IF Signed(SeqSub(end, rxHighest)) > 0 THEN end ELSE rxHighest

FinInOrder_Always(end, cur) == TRUE

\* lDistance <= 1: no more than one byte is missing before the end of the
\* segment that carries the FIN.
FinInOrder(end, cur) == Signed(SeqSub(end, cur)) <= 1

\* A segment in state eESTABLISHED; fin tells if it carries the peer's FIN.  The
\* sending side is abstracted to txDone, the answer of xTCPWindowTxDone.  When
\* the FIN may not be accepted yet but is next in line, it is confirmed only.
RecvSegment(p, len, fin, txDone) ==
    \E r \in {IF len = 0 THEN Refuse
              ELSE lTCPWindowRxCheck(SeqAdd(Isn, p), len, uxStreamBufferGetSpace)} :
    \E st \in {prvStoreRxData(p, r)} :
        LET end    == SeqAdd(Isn, p + len)
            next   == FinInOrder(end, r.cur)
            finNow == IF finSeq = {} THEN {end} ELSE finSeq
            isFin  == fin /\ ~st.short
        IN  /\ ~failed /\ ~accepted
            /\ fin => p + len = Total
            /\ rxHighest' = Highest(end)
            /\ rxSegments' = r.segs /\ sack' = r.sack
            /\ head' = st.head /\ cell' = st.cell
            /\ failed' = st.short
            /\ finSeq' = IF isFin THEN finNow ELSE finSeq
            /\ accepted' = (/\ isFin /\ txDone /\ next
                            /\ xTCPWindowRxEmpty(r.cur, Highest(end), r.segs))
            /\ \/ ~(isFin /\ next) /\ rxCur' = r.cur
               \/ isFin /\ next /\ \E f \in finNow : rxCur' = SeqAdd(f, 1)
            /\ UNCHANGED <<segUsed, tail, peer>>

\* FreeRTOS_recv takes n bytes out of rxStream.
FreeRTOS_recv(n) ==
    /\ n <= head - tail
    /\ tail' = tail + n
    /\ UNCHANGED <<rxCur, rxHighest, rxSegments, sack, segUsed, head, cell,
                   finSeq, accepted, failed, peer>>

\* Other sockets take descriptors from the common pool and give them back.
OtherSockets ==
    /\ \/ segUsed + Cardinality(rxSegments) < SegCount /\ segUsed' = segUsed + 1
       \/ segUsed > 0 /\ segUsed' = segUsed - 1
    /\ UNCHANGED <<rxCur, rxHighest, rxSegments, sack, head, tail, cell,
                   finSeq, accepted, failed, peer>>

-----------------------------------------------------------------------------
Init ==
    /\ rxCur = Isn /\ rxHighest = Isn /\ rxSegments = {} /\ sack = NoSack
    /\ segUsed = 0
    /\ head = 0 /\ tail = 0 /\ cell = [k \in 0 .. Total - 1 |-> NoByte]
    /\ finSeq = {} /\ accepted = FALSE /\ failed = FALSE
    /\ peer \in {"steady", "any"}

RecvData == \E s \in PeerSegments : RecvSegment(s[1], s[2], FALSE, TRUE)

RecvFin(txDone) ==
    \/ RecvSegment(Total, 0, TRUE, txDone)
    \/ \E s \in PeerSegments : RecvSegment(s[1], s[2], TRUE, txDone)

Next ==
    \/ RecvData
    \/ \E txDone \in {TRUE, peer = "steady"} : RecvFin(txDone)
    \/ \E n \in 1 .. Capacity : FreeRTOS_recv(n)
    \/ OtherSockets

Spec == Init /\ [][Next]_vars

(***************************************************************************)
(* A steady peer retransmits the first segment that was not confirmed until *)
(* it gets through, and its FIN until that is confirmed, and the user keeps *)
(* reading.                                                                 *)
(***************************************************************************)
RecvNext ==
    /\ peer = "steady"
    /\ \E s \in PeerSegments : s[1] = head /\ RecvSegment(s[1], s[2], FALSE, TRUE)

FinRepeated ==
    /\ peer = "steady"
    /\ rxCur # SeqAdd(Isn, Total + 1)
    /\ RecvSegment(Total, 0, TRUE, TRUE)

FairSpec ==
    /\ Spec
    /\ WF_vars(RecvNext)
    /\ WF_vars(FinRepeated)
    /\ WF_vars(FreeRTOS_recv(1))

-----------------------------------------------------------------------------
\* The stored descriptors, the stream and the FIN have their types.
TypeOK ==
    /\ rxCur \in SeqNr /\ rxHighest \in SeqNr
    /\ rxSegments \subseteq Segment
    /\ sack \in {NoSack} \cup (SeqNr \X SeqNr)
    /\ segUsed + Cardinality(rxSegments) \in 0 .. SegCount
    /\ head \in 0 .. Total /\ tail \in 0 .. head
    /\ cell \in [0 .. Total - 1 -> (0 .. Total - 1) \cup {NoByte}]
    /\ finSeq \in SUBSET SeqNr /\ accepted \in BOOLEAN /\ failed \in BOOLEAN
    /\ peer \in {"steady", "any"}

\* The bytes in front of uxHead, which the user reads, are the peer's bytes in
\* order, whatever was lost, duplicated, reordered or cut differently.
DeliveredInOrder == \A k \in 0 .. head - 1 : cell[k] = k

\* The check of lTCPWindowRxCheck against the free space leaves no case in which
\* lTCPAddRxdata stores less than it was given, which would reset the connection.
NeverShort == ~failed

\* The acknowledgement number never runs ahead of uxHead: what is confirmed to
\* the peer is in rxStream (the FIN takes one more number).
ConfirmedIsStored ==
    \/ rxCur = SeqAdd(Isn, head)
    \/ head = Total /\ finSeq # {} /\ rxCur = SeqAdd(Isn, Total + 1)

\* A SACK option reports only bytes that are stored in rxStream.
SackTruthful ==
    sack # NoSack =>
        \A k \in 0 .. Total - 1 :
            SeqSub(SeqAdd(Isn, k), sack[1]) < SeqSub(sack[2], sack[1]) => cell[k] = k

\* What rx.ulCurrentSequenceNumber confirms to a steady peer, and what a SACK
\* option tells it of, is in rxStream.
AnswerTruthful == peer = "steady" => ConfirmedIsStored /\ SackTruthful

\* When the FIN of a steady peer is accepted (bFinAccepted), every byte before it
\* has been delivered to rxStream.
FinAfterData == peer = "steady" /\ accepted => head = Total

\* When a steady peer retransmits, all of its data is read and its FIN accepted.
EventuallyClosed == peer = "steady" => <>(accepted /\ tail = Total)
=============================================================================
