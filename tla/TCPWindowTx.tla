---------------------------- MODULE TCPWindowTx ----------------------------
(***************************************************************************)
(* The sending side of a TCP connection: FreeRTOS_send and FreeRTOS_shutdown *)
(* of the user task, and in the IP task prvTCPAddTxData, the data part of    *)
(* prvTCPPrepareSend, the handling of an acknowledgement (prvReadSackOption, *)
(* prvHandleEstablished) and the Tx half of the sliding window               *)
(* (lTCPWindowTxAdd, ulTCPWindowTxGet, ulTCPWindowTxAck, ulTCPWindowTxSack). *)
(*                                                                          *)
(* The user sends bytes 0, 1, 2, ... of a stream; the peer receives what is *)
(* transmitted in any order, any number of times or never, and answers with *)
(* acknowledgements that may be lost or delayed.                            *)
(***************************************************************************)
EXTENDS TCPSequence, Lists

CONSTANTS Isn,            \* tx.ulFirstSequenceNumber + 1: number of byte 0
          Total,          \* bound: the bytes the user sends
          MSS,            \* usMSS, the length of a full segment
          LENGTH,         \* LENGTH of txStream
          TxWindow,       \* xSize.ulTxWindowLength at the start
          PeerCapacity,   \* the size of the peer's receive buffer
          SegCount,       \* ipconfigTCP_WIN_SEG_COUNT
          MaxTransmit,    \* bound: ucTransmitCount saturates here
          DupAcks,        \* DUPLICATE_ACKS_BEFORE_FAST_RETRANSMIT
          LargeCount,     \* MAX_TRANSMIT_COUNT_USING_LARGE_WINDOW
          SendFullSize,   \* bSendFullSize: only full segments are sent
          MaxAcks,        \* bound: the acknowledgements that are under way at
                          \* once; with 1 none is overtaken by a later one
          OthersUse,      \* may other sockets use up the segment pool?
          Shutdown,       \* does the user call FreeRTOS_shutdown?
          Preempt,        \* may the user task preempt the IP task?
          KeepAlive,      \* ipconfigTCP_KEEP_ALIVE
          SendRepeated    \* SEND_REPEATED_COUNT

ASSUME TxAssumption ==
    /\ Isn \in SeqNr /\ {Total, MSS, LENGTH, TxWindow, PeerCapacity, SegCount,
                         MaxTransmit, DupAcks, LargeCount, MaxAcks, SendRepeated}
                        \subseteq Nat
    /\ Total + 1 < SeqHalf /\ MSS > 0 /\ LENGTH > 1 /\ MaxTransmit > LargeCount
    /\ MaxAcks > 0 /\ SendRepeated > 0
    /\ {SendFullSize, OthersUse, Shutdown, Preempt, KeepAlive} \subseteq BOOLEAN

VARIABLES
    w,             \* pxTCPWindow: the Tx fields of TCPWindow_t
    ulWindowSize,  \* u.xTCP.ulWindowSize: the peer's window, as last read
    head, mid, tail,  \* txStream: bytes added, announced to w, and removed
    uxMid, uxTail,    \* txStream: the indices of mid and tail in the buffer
    othersSegs,    \* segment descriptors in use by other sockets
    shut,          \* bUserShutdown: "no", "asked", or "fin" once a FIN is sent
    ip,            \* the IP task: how often it still calls prvTCPPrepareSend
                   \* before the event it is handling is done
    wire,          \* the segments transmitted so far: [seq, pos, len]
    rcvd,          \* peer: the stream offsets that were received
    peerRead,      \* peer: the bytes its application has read
    acks           \* acknowledgements under way: [ack, win, sack]

peer == <<rcvd, peerRead, acks>>
txStream == <<mid, tail, uxMid, uxTail>>
vars == <<w, ulWindowSize, head, txStream, othersSegs, shut, ip, wire, peer>>

NULL == {}           \* a pointer is a set with at most one element
NoSack == << >>

Min2(a, b) == IF a < b THEN a ELSE b

\* A segment is known by its sequence number; the queues hold these numbers.
\* lMaxLength is MSS for every Tx segment.
xTCPWindowTxNew(seq, len, pos) ==
    [seq |-> seq, len |-> len, pos |-> pos, outstanding |-> FALSE,
     acked |-> FALSE, transmits |-> 0, dups |-> 0]

SegOf(win, seq) == CHOOSE s \in win.segs : s.seq = seq

\* xTCPWindowTxDone: all Tx segments are gone.
xTCPWindowTxDone(win) == win.segs = {}

-----------------------------------------------------------------------------
(***************************************************************************)
(* lTCPWindowTxAdd: put up to len bytes, found at index pos of txStream, in  *)
(* segments.  The result is the window and the bytes that were placed.      *)
(***************************************************************************)
lTCPIncrementTxPosition_NoWrap(pos, max, count) ==
    IF pos + count > max THEN pos + count - max ELSE pos + count

lTCPIncrementTxPosition(pos, max, count) ==
    IF pos + count >= max THEN pos + count - max ELSE pos + count

\* The head segment may still grow when it is not full and was not sent.
CanGrow(win) ==
    \E s \in win.segs : s.seq \in win.headSeg /\ s.len < MSS /\ ~s.outstanding /\ s.len # 0

prvTCPWindowTxAdd_FrontSegment_NoMax(win, len) ==
    LET seg == CHOOSE s \in win.segs : s.seq \in win.headSeg
    IN  [win EXCEPT !.segs = (@ \ {seg}) \cup {[seg EXCEPT !.len = @ + len]},
                    !.headSeg = NULL, !.next = SeqAdd(@, len)]

prvTCPWindowTxAdd_FrontSegment(win, len) ==
    LET seg == CHOOSE s \in win.segs : s.seq \in win.headSeg
        n   == Min2(len, MSS - seg.len)
    IN  [win EXCEPT !.segs = (@ \ {seg}) \cup {[seg EXCEPT !.len = @ + n]},
                    !.headSeg = IF seg.len + n >= MSS THEN NULL ELSE @,
                    !.next = SeqAdd(@, n)]

\* The loop makes one new segment at a time, as long as bytes are left and the
\* pool has a descriptor: the k-th one starts where k - 1 full ones end.  Only
\* the last one can have room.
lTCPWindowTxAdd(win, len, pos, free) ==
    LET grown  == IF CanGrow(win) THEN prvTCPWindowTxAdd_FrontSegment(win, len) ELSE win
        first  == SeqSub(grown.next, win.next)
        rest   == len - first
        number == [k \in {i \in 1 .. free : (i - 1) * MSS < rest} |->
                      SeqAdd(grown.next, (k - 1) * MSS)]
        new    == {xTCPWindowTxNew(number[k], Min2(rest - (k - 1) * MSS, MSS),
                                   lTCPIncrementTxPosition(pos, LENGTH, first + (k - 1) * MSS)) :
                      k \in DOMAIN number}
        placed == Min2(rest, free * MSS)
    IN  [win  |-> [grown EXCEPT !.segs = @ \cup new, !.txq = @ \o number,
                                !.next = SeqAdd(@, placed),
                                !.headSeg = IF new = {} THEN @
                                            ELSE {s.seq : s \in {t \in new : t.len < MSS}}],
         done |-> first + placed]

-----------------------------------------------------------------------------
(***************************************************************************)
(* ulTCPWindowTxGet: the segment that is transmitted next.                  *)
(***************************************************************************)
\* Unsigned comparison of two sequence numbers, as in the code.
Outstanding(win) == IF win.highest >= win.cur THEN win.highest - win.cur ELSE 0

prvTCPWindowTxHasSpace_NoOutstanding(win, size) ==
    win.txq # << >> /\ size >= SegOf(win, Head(win.txq)).len

prvTCPWindowTxHasSpace(win, size) ==
    /\ win.txq # << >>
    /\ LET len == SegOf(win, Head(win.txq)).len
           out == Outstanding(win)
       IN  /\ size - Min2(size, out) >= len
           /\ ~(out # 0 /\ win.txWindow < out + len)

\* The candidates: a fast retransmission, else the oldest unconfirmed segment
\* if its timer expired, else new data if the windows allow it.
pxTCPWindowTx_GetWaitQueue(win, expired) ==
    IF expired /\ win.waitq # << >> THEN {Head(win.waitq)} ELSE NULL

pxTCPWindowTx_GetTXQueue(win, size) ==
    IF /\ win.txq # << >>
       /\ ~(SendFullSize /\ SegOf(win, Head(win.txq)).len < MSS)
       /\ prvTCPWindowTxHasSpace(win, size)
    THEN {Head(win.txq)} ELSE NULL

\* The segment leaves its queue, joins the wait queue and is marked as sent.
Transmit(win, seq) ==
    LET seg   == SegOf(win, seq)
        count == Min2(seg.transmits + 1, MaxTransmit)
        isNew == win.txq # << >> /\ Head(win.txq) = seq
        isOld == win.waitq # << >> /\ Head(win.waitq) = seq
    IN  [win EXCEPT
            !.prioq = IF @ # << >> /\ Head(@) = seq THEN Tail(@) ELSE @,
            !.txq = IF isNew THEN Tail(@) ELSE @,
            !.waitq = Append(IF isOld THEN Tail(@) ELSE @, seq),
            !.headSeg = IF isNew THEN @ \ {seq} ELSE @,
            !.highest = IF isNew THEN SeqAdd(seq, seg.len) ELSE @,
            !.segs = (@ \ {seg}) \cup
                     {[seg EXCEPT !.outstanding = TRUE, !.transmits = count,
                                  !.dups = IF isOld THEN 0 ELSE @]},
            !.txWindow = IF count = LargeCount /\ @ > 2 * MSS THEN 2 * MSS ELSE @]

ulTCPWindowTxGet_NoRequeue(win, size, expired) ==
    LET c == pxTCPWindowTx_GetTXQueue(win, size)
    IN  IF c = NULL THEN [win |-> win, seg |-> NULL]
        ELSE LET seq == CHOOSE s \in c : TRUE
                 t   == Transmit(win, seq)
             IN  [win |-> [t EXCEPT !.waitq = win.waitq], seg |-> {SegOf(win, seq)}]

ulTCPWindowTxGet(win, size, expired) ==
    LET c == IF win.prioq # << >> THEN {Head(win.prioq)}
             ELSE LET wait == pxTCPWindowTx_GetWaitQueue(win, expired)
                  IN  IF wait # NULL THEN wait ELSE pxTCPWindowTx_GetTXQueue(win, size)
    IN  IF c = NULL THEN [win |-> win, seg |-> NULL]
        ELSE LET seq == CHOOSE s \in c : TRUE
             IN  [win |-> Transmit(win, seq), seg |-> {SegOf(win, seq)}]

-----------------------------------------------------------------------------
(***************************************************************************)
(* ulTCPWindowTxAck and ulTCPWindowTxSack.                                   *)
(***************************************************************************)
\* The loop goes from segment to segment, from the one that starts at first, and
\* stops at one that was not sent, begins at or after last, or is not confirmed
\* yet and ends after last.  At the left side of the window the segments are
\* freed, elsewhere they are marked; either way they leave the queues.
prvTCPWindowTxCheckAck(win, first, last) ==
    LET passes  == {s \in win.segs :
                       /\ s.outstanding /\ xSequenceLessThan(s.seq, last)
                       /\ s.acked \/ ~xSequenceGreaterThan(SeqAdd(s.seq, s.len), last)}
        chain   == Chain(passes, first)
        numbers == {s.seq : s \in chain.used}
        left    == first = win.cur
        cur     == IF left THEN chain.next ELSE win.cur
    IN  [win   |-> [win EXCEPT
                       !.cur = cur,
                       !.segs = (@ \ chain.used) \cup
                                (IF left THEN {} ELSE {[s EXCEPT !.acked = TRUE] : s \in chain.used}),
                       !.txq = Without(@, numbers),
                       !.waitq = Without(@, numbers),
                       !.prioq = Without(@, numbers),
                       !.headSeg = IF left THEN @ \ numbers ELSE @],
         bytes |-> SeqSub(cur, win.cur)]

\* Segments before a SACK block that wait for their acknowledgement count it;
\* the third time they are moved to the priority queue.  The count saturates
\* one above the threshold, where only its difference from it matters.
prvTCPWindowFastRetransmit(win, first) ==
    LET counts == {s \in win.segs : /\ s.seq \in ToSet(win.waitq) /\ ~s.acked
                                    /\ xSequenceLessThan(s.seq, first)}
        moved  == {s.seq : s \in {t \in counts : t.dups + 1 = DupAcks}}
    IN  [win EXCEPT !.waitq = Without(@, moved),
                    !.prioq = @ \o Without(win.waitq, ToSet(win.waitq) \ moved),
                    !.segs = (@ \ counts) \cup
                             {[s EXCEPT !.dups = Min2(@ + 1, DupAcks + 1),
                                        !.transmits = IF s.seq \in moved THEN 0 ELSE @] :
                                 s \in counts}]

ulTCPWindowTxSack(win, first, last) ==
    [prvTCPWindowTxCheckAck(win, first, last) EXCEPT
        !.win = prvTCPWindowFastRetransmit(@, first)]

\* An ACK number is used only when it confirms something that was sent; a FIN
\* counts for one.
ulTCPWindowTxAck(win, ack) ==
    LET last == IF win.finSeq = win.highest THEN SeqAdd(win.highest, 1) ELSE win.highest
    IN  IF xSequenceLessThanOrEqual(ack, win.cur) \/ xSequenceGreaterThan(ack, last)
        THEN [win |-> win, bytes |-> 0]
        ELSE prvTCPWindowTxCheckAck(win, win.cur, ack)

-----------------------------------------------------------------------------
(***************************************************************************)
(* The user task.                                                           *)
(***************************************************************************)
UserRuns == Preempt \/ ip = 0

\* FreeRTOS_send puts n bytes in txStream and wakes up the IP task.
FreeRTOS_send(n) ==
    /\ UserRuns /\ shut = "no"
    /\ head + n <= Total
    /\ n <= LENGTH - 1 - (head - tail)
    /\ head' = head + n
    /\ UNCHANGED <<w, ulWindowSize, txStream, othersSegs, shut, ip, wire, peer>>

FreeRTOS_shutdown ==
    /\ Shutdown /\ UserRuns /\ shut = "no"
    /\ shut' = "asked"
    /\ UNCHANGED <<w, ulWindowSize, head, txStream, othersSegs, ip, wire, peer>>

-----------------------------------------------------------------------------
(***************************************************************************)
(* The IP task, in state eESTABLISHED.                                      *)
(***************************************************************************)
FreeSegments(win) == SegCount - Cardinality(win.segs) - othersSegs

\* An index of the circular buffer that was moved forward.
Wrap(i) == IF i >= LENGTH THEN i - LENGTH ELSE i

\* prvTCPAddTxData: hand the bytes between uxMid and uxHead to the window.
prvTCPAddTxData(win) == lTCPWindowTxAdd(win, head - mid, uxMid, FreeSegments(win))

vStreamBufferMoveMid(n) == mid' = mid + n /\ uxMid' = Wrap(uxMid + n)

\* The first part of xTCPSocketCheck.
xTCPSocketCheck ==
    /\ ip = 0 /\ shut # "fin"
    /\ \E r \in {prvTCPAddTxData(w)} : w' = r.win /\ vStreamBufferMoveMid(r.done)
    /\ ip' = SendRepeated
    /\ UNCHANGED <<ulWindowSize, head, tail, uxTail, othersSegs, shut, wire, peer>>

\* The transmission of a segment: uxStreamBufferGet copies its bytes from
\* txStream, at the distance of lStreamPos from uxTail.
OnWire(seg) ==
    LET offset == Wrap(LENGTH + seg.pos - uxTail)   \* uxStreamBufferDistance
    IN  [seq |-> seg.seq, pos |-> tail + offset,
         len |-> Min2(seg.len, head - tail - offset)]

\* prvTCPPrepareSend, called up to SEND_REPEATED_COUNT times by
\* prvTCPSendRepeated as long as there is data.  It sends the FIN when the user asked for it and the window is empty.
prvTCPPrepareSend_NoTxDone(expired) ==
    LET r == ulTCPWindowTxGet(w, ulWindowSize, expired)
    IN  /\ ip > 0
        /\ wire' = wire \cup {OnWire(seg) : seg \in r.seg}
        /\ IF shut = "asked"
           THEN shut' = "fin" /\ w' = [r.win EXCEPT !.finSeq = r.win.cur]
           ELSE w' = r.win /\ UNCHANGED shut
        /\ ip' = 0
        /\ UNCHANGED <<ulWindowSize, head, txStream, othersSegs, peer>>

prvTCPPrepareSend(expired) ==
    \E r \in {ulTCPWindowTxGet(w, ulWindowSize, expired)} :
    LET fin == shut = "asked" /\ xTCPWindowTxDone(r.win)
    IN  /\ ip > 0
        /\ wire' = wire \cup {OnWire(seg) : seg \in r.seg}
        /\ w' = IF fin THEN [r.win EXCEPT !.finSeq = r.win.cur] ELSE r.win
        /\ shut' = IF fin THEN "fin" ELSE shut
        /\ ip' = IF r.seg = NULL THEN 0 ELSE ip - 1
        /\ UNCHANGED <<ulWindowSize, head, txStream, othersSegs, peer>>

\* A segment from the peer: prvReadSackOption, then prvHandleEstablished with
\* ulTCPWindowTxAck and prvTCPAddTxData; the answer, if any, is the next step.
Confirmed(m) ==
    LET s == IF m.sack = NoSack THEN [win |-> w, bytes |-> 0]
             ELSE ulTCPWindowTxSack(w, m.sack[1], m.sack[2])
        a == ulTCPWindowTxAck(s.win, m.ack)
    IN  [win |-> a.win, bytes |-> s.bytes + a.bytes]

RecvAck(m) ==
    \E c \in {Confirmed(m)} : \E r \in {prvTCPAddTxData(c.win)} :
        /\ ip = 0 /\ shut # "fin"
        /\ w' = r.win
        /\ ulWindowSize' = m.win
        /\ tail' = tail + c.bytes /\ uxTail' = Wrap(uxTail + c.bytes)
        /\ vStreamBufferMoveMid(r.done)
        /\ ip' \in {0, 1}
        /\ acks' = acks \ {m}
        /\ UNCHANGED <<head, othersSegs, shut, wire, rcvd, peerRead>>

\* Other sockets take descriptors from the common pool and give them back.
OtherSockets ==
    /\ OthersUse
    /\ \/ FreeSegments(w) > 0 /\ othersSegs' = othersSegs + 1
       \/ othersSegs > 0 /\ othersSegs' = othersSegs - 1
    /\ UNCHANGED <<w, ulWindowSize, head, txStream, shut, ip, wire, peer>>

-----------------------------------------------------------------------------
(***************************************************************************)
(* The peer and the network, as far as the sender can tell: an ordinary TCP *)
(* receiver that never takes back a SACK, answers every segment, drops data *)
(* beyond its window and reports when its application has read.             *)
(***************************************************************************)
Contiguous(R) == CHOOSE c \in 0 .. Total : c \notin R /\ 0 .. c - 1 \subseteq R

Edge == peerRead + PeerCapacity

\* The block of received bytes around offset o.
Block(R, o) ==
    LET lo == CHOOSE a \in 0 .. o : a .. o \subseteq R /\ a - 1 \notin R
        hi == CHOOSE b \in o .. Total : o .. b \subseteq R /\ b + 1 \notin R
    IN  <<SeqAdd(Isn, lo), SeqAdd(Isn, hi + 1)>>

Ack(R, read, sack) ==
    [ack |-> SeqAdd(Isn, Contiguous(R)),
     win |-> PeerCapacity - (Contiguous(R) - read), sack |-> sack]

\* Acknowledgements are lost or delayed, and handled in any order.
Send(m) == acks' \in {A \cup {m} : A \in {B \in SUBSET acks : Cardinality(B) < MaxAcks}}

\* A segment arrives, not for the last time perhaps; the answer may be lost.
PeerReceive(seg, answer) ==
    LET o    == SeqSub(seg.seq, Isn)
        fits == o + seg.len <= Edge
        R    == IF fits THEN rcvd \cup (o .. o + seg.len - 1) ELSE rcvd
    IN  /\ rcvd' = R
        /\ IF answer
           THEN Send(Ack(R, peerRead, IF fits /\ o > Contiguous(R) THEN Block(R, o) ELSE NoSack))
           ELSE UNCHANGED acks
        /\ UNCHANGED <<w, ulWindowSize, head, txStream, othersSegs, shut, ip, wire,
                       peerRead>>

\* The peer's application reads; the window update may be lost.
PeerReads(answer) ==
    /\ peerRead < Contiguous(rcvd)
    /\ peerRead' = peerRead + 1
    /\ IF answer THEN Send(Ack(rcvd, peerRead + 1, NoSack)) ELSE UNCHANGED acks
    /\ UNCHANGED <<w, ulWindowSize, head, txStream, othersSegs, shut, ip, wire,
                   rcvd>>

\* A keep-alive probe of the sender makes the peer repeat its last ACK.
PeerProbed ==
    /\ KeepAlive /\ ip = 0 /\ shut # "fin"
    /\ Send(Ack(rcvd, peerRead, NoSack))
    /\ UNCHANGED <<w, ulWindowSize, head, txStream, othersSegs, shut, ip, wire,
                   rcvd, peerRead>>

-----------------------------------------------------------------------------
Init ==
    /\ w = [cur |-> Isn, highest |-> Isn, next |-> Isn, segs |-> {},
            txq |-> << >>, waitq |-> << >>, prioq |-> << >>, headSeg |-> NULL,
            txWindow |-> TxWindow, finSeq |-> 0]
    /\ ulWindowSize = PeerCapacity
    /\ head = 0 /\ mid = 0 /\ tail = 0 /\ uxMid = 0 /\ uxTail = 0
    /\ othersSegs = 0 /\ shut = "no" /\ ip = 0
    /\ wire = {} /\ rcvd = {} /\ peerRead = 0 /\ acks = {}

Next ==
    \/ \E n \in 1 .. Total : FreeRTOS_send(n)
    \/ FreeRTOS_shutdown
    \/ xTCPSocketCheck
    \/ \E expired \in BOOLEAN : prvTCPPrepareSend(expired)
    \/ \E m \in acks : RecvAck(m)
    \/ OtherSockets
    \/ \E seg \in wire, answer \in BOOLEAN : PeerReceive(seg, answer)
    \/ \E answer \in BOOLEAN : PeerReads(answer)
    \/ PeerProbed

Spec == Init /\ [][Next]_vars

(***************************************************************************)
(* Fairness.  The TCP timer calls xTCPSocketCheck again and again, and time *)
(* passes, so a transmission timer that is running expires.  A segment that *)
(* is in the wait queue is transmitted again and again, arrives in the end  *)
(* and is answered.  The peer's application keeps reading.  Nothing is      *)
(* assumed of an answer to something that is not repeated.                  *)
(***************************************************************************)
Repeated(seg) == seg.seq \in ToSet(w.waitq)

FairSpec ==
    /\ Spec
    /\ SF_vars(xTCPSocketCheck)
    /\ WF_vars(prvTCPPrepareSend(TRUE))
    /\ \A o \in 0 .. Total - 1 :
          SF_vars(\E seg \in wire : seg.seq = SeqAdd(Isn, o) /\ Repeated(seg) /\ PeerReceive(seg, TRUE))
    /\ WF_vars(PeerReads(TRUE) \/ PeerReads(FALSE))
    /\ SF_vars(PeerProbed)
    /\ SF_vars(\E m \in acks : RecvAck(m))

-----------------------------------------------------------------------------
SegRecord == [seq : SeqNr, len : 1 .. MSS, pos : 0 .. LENGTH - 1, outstanding : BOOLEAN,
              acked : BOOLEAN, transmits : 0 .. MaxTransmit, dups : 0 .. DupAcks + 1]

\* The window, the stream counters and the bookkeeping have their types.
TypeOK ==
    /\ {w.cur, w.highest, w.next, w.finSeq} \subseteq SeqNr
    /\ w.segs \subseteq SegRecord
    /\ tail \in 0 .. mid /\ mid \in 0 .. head /\ head \in 0 .. Total
    /\ {uxMid, uxTail} \subseteq 0 .. LENGTH - 1
    /\ othersSegs + Cardinality(w.segs) \in 0 .. SegCount
    /\ shut \in {"no", "asked", "fin"} /\ ip \in 0 .. SendRepeated

Offset(s) == SeqSub(s.seq, Isn)

Covers(s, b) == Offset(s) <= b /\ b < Offset(s) + s.len

\* The window and txStream agree: every byte from the first one that is not
\* confirmed (uxTail) up to uxMid is in exactly one segment, no segment has other
\* bytes, and lStreamPos of each one points at its own bytes.
StreamMatchesWindow ==
    /\ w.cur = SeqAdd(Isn, tail) /\ w.next = SeqAdd(Isn, mid)
    /\ uxMid = Wrap(uxTail + (mid - tail))
    /\ \A s \in w.segs :
          /\ tail <= Offset(s) /\ Offset(s) + s.len <= mid
          /\ s.pos = Wrap(uxTail + (Offset(s) - tail))
    /\ \A b \in tail .. mid - 1 :
          \E s \in w.segs : Covers(s, b) /\ \A t \in w.segs : Covers(t, b) => t = s

\* A segment that is not confirmed is in exactly one queue, once, so that it
\* will be (re)transmitted: in xTxQueue until it is sent for the first time and
\* then in one of the others.  A confirmed one is in none.
QueueDiscipline ==
    /\ Distinct(w.txq) /\ Distinct(w.waitq) /\ Distinct(w.prioq)
    /\ ToSet(w.waitq) \cap ToSet(w.prioq) = {}
    /\ ToSet(w.txq) = {s.seq : s \in {t \in w.segs : ~t.outstanding}}
    /\ ToSet(w.waitq) \cup ToSet(w.prioq) =
          {s.seq : s \in {t \in w.segs : t.outstanding /\ ~t.acked}}

\* "True if the peer has space in it window to receive more data": new data is
\* sent only when it fits in the window the peer offered.
WithinPeerWindow == \A s \in wire : SeqSub(s.seq, Isn) + s.len <= Edge

\* FreeRTOS_shutdown "will first deliver all data queued for transmission".
FinAfterQueuedData == shut = "fin" => tail = head

\* Everything the user has sent is eventually confirmed by the peer.
AllDelivered == []<>(tail = head)
=============================================================================
