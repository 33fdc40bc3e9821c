---------------------------- MODULE TCPConnection ----------------------------
(***************************************************************************)
(* A TCP connection from one end to the other: the state machine of         *)
(* FreeRTOS_TCP_State_Handling.c, with the part of FreeRTOS_TCP_IP.c that   *)
(* receives packets and runs the timers and the part of                     *)
(* FreeRTOS_TCP_Transmission.c that answers and sends.  Two sockets of the  *)
(* stack talk to each other over a network that loses, duplicates and       *)
(* reorders packets: "A" connects, "B" listens with FREERTOS_SO_REUSE_      *)
(* LISTEN_SOCKET, so that it is the listening and the connected socket.     *)
(*                                                                          *)
(* The sliding windows have modules of their own; here they are reduced to  *)
(* what the state machine uses of them: a segment is its sequence number,   *)
(* all segments have SegLen bytes, sequence numbers do not wrap, the window *)
(* of the peer and the pool of segments are large, a segment that was sent  *)
(* may be sent again by any run of the timer, and the users read at once.   *)
(* ipconfigTCP_KEEP_ALIVE is 0 and ipconfigTCP_HANG_PROTECTION is 1, the    *)
(* values of FreeRTOSIPConfigDefaults.h.                                    *)
(***************************************************************************)
EXTENDS Integers, FiniteSets, FiniteSetsExt

CONSTANTS DataA, DataB,    \* how many segments the users may send
          CloseAfterSend,  \* the sockets with FREERTOS_SO_CLOSE_AFTER_SEND
          MaxListens,      \* bound: how often B becomes connected or connecting
          MaxNetA, MaxNetB,  \* bound: packets on the way to A, and to B
          Closes           \* the sockets whose users may call FreeRTOS_closesocket

ASSUME ConnectionAssumption ==
    /\ {DataA, DataB, MaxListens, MaxNetA, MaxNetB} \subseteq Nat
    /\ CloseAfterSend \cup Closes \subseteq {"A", "B"}

Socket == {"A", "B"}
Peer(x) == CHOOSE y \in Socket : y # x

MaxNet(x) == IF x = "A" THEN MaxNetA ELSE MaxNetB

SegLen == 2     \* bytes of a segment
Space == 20     \* free space of rxStream, and ulRxWindowLength
IssA == 10      \* the initial sequence numbers, far enough from each other
IssB(n) == 100 * n

VARIABLES
    sock,     \* [Socket -> the data of a socket]
    net,      \* [Socket -> the packets that are on the way to it]
    listens,  \* how many SYNs B has answered as a listening socket
    toSend,   \* [Socket -> Nat]: the segments that its user may still send
    log       \* [Socket -> history]: the segments and the FINs it has taken

vars == <<sock, net, listens, toSend, log>>

State == {"eCLOSED", "eTCP_LISTEN", "eCONNECT_SYN", "eSYN_RECEIVED", "eESTABLISHED",
          "eFIN_WAIT_1", "eCLOSE_WAIT", "eLAST_ACK", "none"}
Bit == {"bConnPrepared", "bFinSent", "bFinAcked", "bFinRecv", "bFinLast", "bFinAccepted",
        "bUserShutdown", "bCloseRequested", "bWinChange"}

\* A socket that was just created.
NewSocket ==
    [state |-> "eCLOSED", bits |-> {},
     ucRepCount |-> 0,
     first |-> 0,         \* tx.ulFirstSequenceNumber
     una |-> 0,           \* tx.ulCurrentSequenceNumber
     nxt |-> 0,           \* tx.ulHighestSequenceNumber
     next |-> 0,          \* ulNextTxSequenceNumber
     our |-> 0,           \* ulOurSequenceNumber
     txfin |-> 0,         \* tx.ulFINSequenceNumber
     segs |-> {},         \* xTxSegments
     txStream |-> FALSE,  \* txStream # NULL
     todo |-> 0,          \* segments in txStream beyond its uxMid
     rxfirst |-> 0,       \* rx.ulFirstSequenceNumber
     rx |-> 0,            \* rx.ulCurrentSequenceNumber
     rxhigh |-> 0,        \* rx.ulHighestSequenceNumber
     rxfin |-> 0,         \* rx.ulFINSequenceNumber
     stored |-> {},       \* xRxSegments
     got |-> {},          \* what rxStream has been given
     ack |-> FALSE]       \* pxAckMessage # NULL

Atleast_eESTABLISHED == {"eESTABLISHED", "eFIN_WAIT_1", "eCLOSE_WAIT", "eLAST_ACK"}

prvTCPSocketIsActive(s) == s.state \notin {"eCLOSED", "eCLOSE_WAIT", "none"}

\* FreeRTOS_listen of a socket that is used again: window, streams and bits are
\* cleared, a delayed acknowledgement is not.
Listening(s) == [NewSocket EXCEPT !.state = "eTCP_LISTEN", !.txStream = s.txStream, !.ack = s.ack]

\* B is a reuse socket: when a connection is not made it listens again, before
\* the IP task handles another event (vSocketListenNextTime).
vTCPStateChange(s, new) ==
    IF s.state = "eSYN_RECEIVED" /\ new = "eCLOSE_WAIT" THEN Listening(s)
    ELSE [s EXCEPT !.state = new]

vTCPWindowInit(s, seq, iss) ==
    [s EXCEPT !.rxfirst = seq, !.rx = seq, !.rxhigh = seq,
              !.first = iss, !.una = iss, !.next = iss, !.nxt = iss, !.our = iss]

Init ==
    /\ sock = [x \in Socket |-> IF x = "A" THEN NewSocket ELSE Listening(NewSocket)]
    /\ net = [x \in Socket |-> {}]
    /\ listens = 0
    /\ toSend = [x \in Socket |-> IF x = "A" THEN DataA ELSE DataB]
    /\ log = [x \in Socket |-> [data |-> {}, fin |-> {}, skipped |-> {}]]

-----------------------------------------------------------------------------
(***************************************************************************)
(* Sending.  An operator that handles an event returns the socket and the   *)
(* packets it sends.                                                        *)
(***************************************************************************)
Result(s, out) == [s |-> s, out |-> out]

\* prvTCPReturn_SetSequenceNumber: a FIN that is not at its own sequence number,
\* and one that comes with TCP options, is suppressed.
prvTCPReturnPacket(s, flags, len, options) ==
    [flags |-> IF "FIN" \in flags /\ (options \/ s.our + len # s.txfin)
                 THEN flags \ {"FIN"} ELSE flags,
     seq |-> s.our, ack |-> s.rx, len |-> len]

prvTCPSendReset(p) ==
    [flags |-> {"ACK", "RST"}, seq |-> p.ack,
     ack |-> IF "SYN" \in p.flags THEN p.seq + 1 ELSE p.seq, len |-> 0]

prvTCPSendChallengeAck(s) == [flags |-> {"ACK"}, seq |-> s.our, ack |-> s.rx, len |-> 0]

prvTCPAddTxData(s) ==
    [s EXCEPT !.segs = @ \cup {s.next + SegLen * i : i \in 0 .. s.todo - 1},
              !.next = @ + SegLen * s.todo, !.todo = 0]

xTCPWindowTxDone(s) == s.segs = {}

NotSent(s) == {q \in s.segs : q >= s.nxt}

\* The last bytes of txStream go with a FIN when closing after them was asked for.
ClosesWith(s, q) == "bCloseRequested" \in s.bits /\ s.todo = 0 /\ q + SegLen = s.next

ShutdownDue(s) ==
    s.state = "eESTABLISHED" /\ "bUserShutdown" \in s.bits /\ xTCPWindowTxDone(s)

\* prvTCPSendRepeated: prvTCPPrepareSend and prvTCPReturnPacket until there is
\* nothing left: first the segments D, one by one, then a FIN, or else an
\* acknowledgement when one is asked for.
prvTCPSendRepeated(s, D) ==
    LET fin  == {q \in D : ClosesWith(s, q)}
        high == Max({s.nxt} \cup {q + SegLen : q \in D})
        t    == [s EXCEPT !.nxt = high,
                          !.our = IF s.txStream THEN high ELSE @,
                          !.txfin = IF fin = {} THEN @ ELSE s.next,
                          !.bits = (IF fin = {} THEN @ ELSE @ \cup {"bFinSent"}) \ {"bWinChange"}]
        closing == [t EXCEPT !.bits = (@ \cup {"bFinSent"}) \ {"bUserShutdown"},
                             !.txfin = t.una, !.state = "eFIN_WAIT_1"]
    IN  CASE D # {} ->
               Result(t, {prvTCPReturnPacket([t EXCEPT !.our = q],
                              {"ACK", "PSH"} \cup (IF q \in fin THEN {"FIN"} ELSE {}),
                              SegLen, FALSE) : q \in D})
          [] D = {} /\ ShutdownDue(s) ->
               Result(closing, {prvTCPReturnPacket(closing, {"ACK", "FIN"}, 0, FALSE)})
          [] D = {} /\ ~ShutdownDue(s) /\ "bWinChange" \in s.bits ->
               Result(t, {prvTCPReturnPacket(t, {"ACK"}, 0, FALSE)})
          [] OTHER -> Result(t, {})

\* prvSendData: the answer to a packet is sent, and then whatever else there is;
\* or, when it is a bare acknowledgement of data, it is delayed.
prvSendData(s, flags, len, options, delay) ==
    IF /\ delay /\ len > 0 /\ ~options /\ flags = {"ACK"}
       /\ "bFinSent" \notin s.bits /\ s.state = "eESTABLISHED"
    THEN Result([s EXCEPT !.ack = TRUE], {})
    ELSE LET sent == [s EXCEPT !.ack = FALSE, !.bits = @ \ {"bWinChange"}]
             more == prvTCPSendRepeated(sent, NotSent(sent))
         IN  Result(more.s, more.out \cup {prvTCPReturnPacket(s, flags, 0, options)})

-----------------------------------------------------------------------------
(***************************************************************************)
(* Receiving.                                                               *)
(***************************************************************************)
ulTCPWindowTxAck_Partial(s, ack) ==
    LET acked == {q \in s.segs : q >= s.una /\ q < s.nxt /\ q <= ack}
    IN  [s EXCEPT !.segs = @ \ acked, !.una = @ + SegLen * Cardinality(acked)]

\* ulTCPWindowTxAck: sent segments, from una on, that end at or before ack.
ulTCPWindowTxAck(s, ack) ==
    LET last  == IF s.txfin = s.nxt THEN s.nxt + 1 ELSE s.nxt
        acked == IF s.una \in s.segs /\ ack > s.una /\ ack <= last
                 THEN {q \in s.segs : q >= s.una /\ q < s.nxt /\ q + SegLen <= ack} ELSE {}
    IN  [s EXCEPT !.segs = @ \ acked, !.una = @ + SegLen * Cardinality(acked)]

\* prvStoreRxData and lTCPWindowRxCheck: the expected segment is passed on with
\* those that were waiting for it, one that is ahead is stored.
prvStoreRxData(s, p) ==
    LET run == {q \in s.stored : q > s.rx /\
                   \A r \in s.rx + SegLen .. q - 1 :
                      (r - s.rx) % SegLen = 0 => r \in s.stored}
    IN  CASE p.len = 0 \/ p.seq + p.len > s.rx + Space \/ p.seq < s.rx -> s
          [] p.len > 0 /\ p.seq = s.rx ->
               [s EXCEPT !.rx = @ + SegLen * (1 + Cardinality(run)),
                         !.stored = @ \ run, !.got = @ \cup {s.rx} \cup run]
          [] OTHER -> [s EXCEPT !.stored = @ \cup {p.seq}]

\* A segment that is ahead is answered with a SACK, which is a TCP option.
Options(s, p) == p.len > 0 /\ p.seq > s.rx /\ p.seq + p.len <= s.rx + Space

xTCPWindowRxEmpty(s) == s.stored = {} /\ s.rx + 1 >= s.rxhigh

\* The first part of prvTCPHandleState.
Arrived(s, p) ==
    LET keep == s.state \in Atleast_eESTABLISHED /\ s.rx = p.seq + 1
        new  == "FIN" \in p.flags /\ "bFinRecv" \notin s.bits
        t    == IF s.state \in Atleast_eESTABLISHED \cup {"eSYN_RECEIVED"}
                THEN prvStoreRxData(s, p) ELSE s
    IN  [t EXCEPT !.rxhigh = Max({@, p.seq + p.len}),
                  !.rxfin = IF new THEN p.seq + p.len ELSE @,
                  !.bits = @ \cup (IF keep THEN {"bWinChange"} ELSE {})
                             \cup (IF new THEN {"bFinRecv"} ELSE {})
                             \cup (IF new /\ "bFinSent" \notin @ THEN {"bFinLast"} ELSE {})]

\* case eSYN_FIRST of prvTCPHandleState.
HandleSynFirst(s, p) ==
    prvSendData([s EXCEPT !.state = "eSYN_RECEIVED", !.rx = p.seq + 1, !.rxhigh = p.seq + 1,
                          !.next = s.first + 1, !.una = s.first + 1],
                {"SYN", "ACK"}, 0, TRUE, FALSE)

prvHandleSynReceived_Stay(s, p, options, delay) ==
    IF p.flags \ {"PSH"} = {"ACK"} /\ p.len = 0
    THEN Result([s EXCEPT !.our = s.first + 1, !.rx = p.seq, !.state = "eESTABLISHED"], {})
    ELSE IF s.state = "eCONNECT_SYN"
    THEN prvSendData([vTCPWindowInit(s, p.seq, s.our) EXCEPT
                         !.rx = p.seq + 1, !.rxhigh = p.seq + 1, !.una = @ + 1, !.next = @ + 1,
                         !.our = @ + 1, !.state = "eESTABLISHED"],
                     {"ACK"}, p.len, options, delay)
    ELSE Result(s, {prvTCPReturnPacket([s EXCEPT !.our = p.ack], {"ACK", "RST"}, 0, options)})

prvHandleSynReceived(s, p, options, delay) ==
    LET expect == IF s.state = "eCONNECT_SYN" THEN {"SYN", "ACK"} ELSE {"ACK"}
        refused == [s EXCEPT !.our = p.ack, !.rx = p.seq, !.ack = FALSE]
        connect == [vTCPWindowInit(s, p.seq, s.our) EXCEPT
                       !.rx = p.seq + 1, !.rxhigh = p.seq + 1, !.una = @ + 1, !.next = @ + 1,
                       !.our = @ + 1, !.state = "eESTABLISHED"]
        accept == [s EXCEPT !.rx = IF p.len = 0 THEN p.seq ELSE @, !.our = s.first + 1,
                            !.state = "eESTABLISHED"]
    IN  CASE p.flags \ {"PSH"} # expect ->
               Result(vTCPStateChange(refused, "eCLOSE_WAIT"),
                      {prvTCPReturnPacket(refused, {"ACK", "RST"}, 0, options)})
          [] p.flags \ {"PSH"} = expect /\ s.state = "eCONNECT_SYN" ->
               prvSendData(connect, {"ACK"}, p.len, options, delay)
          [] OTHER -> IF p.len = 0 THEN Result(accept, {})
                      ELSE prvSendData(accept, {"ACK"}, p.len, options, delay)

prvTCPHandleFin(s, p, options) ==
    LET sent  == "bFinSent" \in s.bits
        acked == "bFinAcked" \in s.bits \/ (sent /\ p.ack = s.txfin + 1)
        txfin == IF sent THEN s.txfin ELSE s.una
        over  == acked /\ "bFinRecv" \in s.bits
        una   == IF acked THEN txfin + 1 ELSE txfin
        t == [s EXCEPT !.rx = IF "FIN" \in p.flags THEN s.rxfin + 1 ELSE @,
                       !.txfin = txfin, !.una = una, !.our = una,
                       !.bits = @ \cup {"bFinSent"} \cup (IF acked THEN {"bFinAcked"} ELSE {}),
                       !.state = IF ~acked THEN "eLAST_ACK" ELSE IF over THEN "eCLOSE_WAIT" ELSE @]
    IN  CASE ~acked -> prvSendData(t, {"ACK", "FIN"}, p.len, options, FALSE)
          [] over /\ "bFinLast" \notin s.bits -> prvSendData(t, {"ACK"}, p.len, options, FALSE)
          [] OTHER -> Result(t, {})

\* May a FIN be accepted?  No check once this side has sent a FIN.
MayClose(s, p) ==
    \/ "bFinSent" \in s.bits
    \/ xTCPWindowRxEmpty(s) /\ xTCPWindowTxDone(s) /\ p.seq + p.len - s.rx <= 1

prvHandleEstablished(s, p, options, delay) ==
    LET a == prvTCPAddTxData(ulTCPWindowTxAck(s, p.ack))
        b == [a EXCEPT !.our = a.una]
        closing == "bFinAccepted" \in b.bits \/ "FIN" \in p.flags
        refusedInOrder == /\ closing /\ p.seq + p.len - b.rx <= 1
                          /\ "bFinSent" \notin b.bits
                          /\ ~(xTCPWindowRxEmpty(b) /\ xTCPWindowTxDone(b))
        c == [b EXCEPT !.rx = IF refusedInOrder THEN b.rxfin + 1 ELSE @,
                       !.una = IF p.len > 0 /\ "bFinSent" \in b.bits THEN b.txfin ELSE @]
        answer == [c EXCEPT !.our = IF c.txStream THEN c.nxt ELSE @]
    IN  CASE closing /\ MayClose(b, p) ->
               prvTCPHandleFin([b EXCEPT !.bits = @ \cup {"bFinAccepted"}], p, options)
          [] ~(closing /\ MayClose(b, p)) /\ options ->
               prvSendData(c, {"ACK"}, p.len, TRUE, delay)
          [] ~(closing /\ MayClose(b, p)) /\ ~options
                 /\ p.len > 0 /\ NotSent(c) = {} /\ ~ShutdownDue(c) ->
               prvSendData(answer, {"ACK"}, p.len, FALSE, delay)
          [] OTHER ->
               LET r == prvTCPSendRepeated(c, NotSent(c))
               IN  Result([r.s EXCEPT !.ack = @ /\ r.out = {}], r.out)

prvTCPHandleState(s, p, delay) ==
    LET t == Arrived(s, p)
        options == Options(s, p) /\ s.state # "eCONNECT_SYN"
        again == s.state = "eSYN_RECEIVED" /\ p.flags = {"SYN"}
    IN  CASE again -> HandleSynFirst(t, p)
          [] ~again /\ s.state \in {"eCONNECT_SYN", "eSYN_RECEIVED"} ->
               prvHandleSynReceived(t, p, options, delay)
          [] s.state = "eESTABLISHED" -> prvHandleEstablished(t, p, options, delay)
          [] s.state \in {"eFIN_WAIT_1", "eLAST_ACK"} -> prvTCPHandleFin(t, p, options)

\* An RST is only believed at the sequence number that is expected (RFC 5961).
HandleReset(s, p) ==
    CASE s.state = "eCONNECT_SYN" ->
           Result(IF p.ack = s.our + 1 THEN vTCPStateChange(s, "eCLOSED") ELSE s, {})
      [] s.state # "eCONNECT_SYN" /\ p.seq = s.rx -> Result(vTCPStateChange(s, "eCLOSED"), {})
      [] OTHER -> Result(s, IF p.seq > s.rx /\ p.seq < s.rx + Space
                            THEN {prvTCPSendChallengeAck(s)} ELSE {})

\* iss is the initial sequence number that a connection made now would get.
xProcessReceivedTCPPacket(s, p, iss, delay) ==
    LET t == [s EXCEPT !.ucRepCount = 0]
        reset == "RST" \in p.flags
        refused == {prvTCPSendReset(p)}
    IN  CASE ~prvTCPSocketIsActive(s) ->
               Result(s, IF reset \/ p.flags = {"ACK"} THEN {} ELSE refused)
          [] s.state = "eTCP_LISTEN" ->
               IF p.flags = {"SYN"} THEN HandleSynFirst(vTCPWindowInit(t, p.seq, iss), p)
               ELSE Result(t, IF reset THEN {} ELSE refused)
          [] s.state # "eTCP_LISTEN" /\ prvTCPSocketIsActive(s) ->
               CASE reset -> HandleReset(t, p)
                 [] ~reset /\ p.flags = {"SYN"} /\ s.state \in Atleast_eESTABLISHED -> Result(t, {})
                 [] OTHER -> prvTCPHandleState(t, p, delay)

-----------------------------------------------------------------------------
(***************************************************************************)
(* The timer of a socket.                                                   *)
(***************************************************************************)
ConnectSyn_NoLimit(s, resolved) ==
    LET ready == IF "bConnPrepared" \in s.bits THEN s
                 ELSE [vTCPWindowInit(s, 0, IssA) EXCEPT !.bits = @ \cup {"bConnPrepared"}]
    IN  Result([ready EXCEPT !.ucRepCount = @ + 1], {prvTCPReturnPacket(ready, {"SYN"}, 0, TRUE)})

\* prvTCPSendPacket in eCONNECT_SYN: look for the MAC-address of the peer, then
\* send a SYN, three times.
ConnectSyn(s, resolved) ==
    LET prepared == "bConnPrepared" \in s.bits
        ready == IF prepared THEN s
                 ELSE [vTCPWindowInit(s, 0, IssA) EXCEPT !.ucRepCount = 0,
                                                        !.bits = @ \cup {"bConnPrepared"}]
    IN  CASE s.ucRepCount >= 3 -> Result(vTCPStateChange(s, "eCLOSE_WAIT"), {})
          [] s.ucRepCount < 3 /\ ~prepared /\ ~resolved ->
               Result([s EXCEPT !.ucRepCount = @ + 1], {})
          [] OTHER -> Result([ready EXCEPT !.ucRepCount = @ + 1],
                             {prvTCPReturnPacket(ready, {"SYN"}, 0, TRUE)})

MayHang_NoLastAck(s) == s.state \in {"eCONNECT_SYN", "eSYN_RECEIVED", "eFIN_WAIT_1"}

\* prvTCPStatusAgeCheck: the states that may only last for some time.
MayHang(s) == s.state \in {"eCONNECT_SYN", "eSYN_RECEIVED", "eFIN_WAIT_1", "eLAST_ACK"}

\* resend: the timers of the segments have expired; old: nothing has happened for
\* ipconfigTCP_HANG_PROTECTION_TIME.
xTCPSocketCheck(s, resend, old, resolved) ==
    LET a == IF s.state \in Atleast_eESTABLISHED THEN prvTCPAddTxData(s) ELSE s
        D == IF resend THEN a.segs ELSE NotSent(a)
        delayed == a.ack /\ "bUserShutdown" \notin a.bits
        sent == delayed /\ a.state # "eCLOSED"
        b == [a EXCEPT !.ack = FALSE, !.bits = IF sent THEN @ \ {"bWinChange"} ELSE @]
        ready == delayed /\ D = {}
        c == CASE ~ready /\ b.state \in Atleast_eESTABLISHED -> prvTCPSendRepeated(b, D)
               [] ~ready /\ b.state = "eCONNECT_SYN" -> ConnectSyn(b, resolved)
               [] OTHER -> Result(b, {})
    IN  Result(IF old /\ ~ready /\ MayHang(s) /\ c.s.state = s.state 
                 THEN vTCPStateChange(c.s, "eCLOSE_WAIT") ELSE c.s,
               c.out \cup (IF sent THEN {prvTCPReturnPacket(a, {"ACK"}, 0, FALSE)} ELSE {}))

-----------------------------------------------------------------------------
(***************************************************************************)
(* The actions.                                                             *)
(***************************************************************************)
\* Of the packets that x sends, the network loses some.
Sends(x, out, left) ==
    \E kept \in SUBSET out :
        LET onTheWay == [left EXCEPT ![Peer(x)] = @ \cup kept]
        IN  /\ Cardinality(onTheWay[Peer(x)]) <= MaxNet(Peer(x))
            /\ net' = onTheWay

\* The network delivers a packet, and may deliver it again later.
Receive(x) ==
    \E p \in net[x], again \in BOOLEAN : \E delay \in {FALSE, p.len > 0} :
        LET s == sock[x]
            new == s.state = "eTCP_LISTEN" /\ p.flags = {"SYN"}
            r == xProcessReceivedTCPPacket(s, p, IssB(listens + 1), delay)
            skips == s.state = "eSYN_RECEIVED" /\ r.s.state = "eESTABLISHED" /\ r.s.rx > s.rx
                     /\ p.len = 0
        IN  /\ new => listens < MaxListens
            /\ listens' = IF new THEN listens + 1 ELSE listens
            /\ sock' = [sock EXCEPT ![x] = r.s]
            /\ Sends(x, r.out, IF again THEN net ELSE [net EXCEPT ![x] = @ \ {p}])
            /\ log' = [log EXCEPT
                  ![x].data = @ \cup r.s.got,
                  ![x].fin = IF "bFinRecv" \in r.s.bits /\ r.s.rx = r.s.rxfin + 1
                             THEN @ \cup {r.s.rxfin} ELSE @,
                  ![x].skipped = IF skips THEN @ \cup {s.first} ELSE @]
            /\ UNCHANGED toSend

\* resend is TRUE when the timers of the segments have expired, old when nothing
\* has happened for ipconfigTCP_HANG_PROTECTION_TIME.
Timer(x, resend, old, resolved) ==
    LET r == xTCPSocketCheck(sock[x], resend, old, resolved)
    IN  /\ sock[x].state # "none"
        /\ sock' = [sock EXCEPT ![x] = r.s]
        /\ Sends(x, r.out, net)
        /\ UNCHANGED <<listens, toSend, log>>

FreeRTOS_connect ==
    /\ sock["A"].state = "eCLOSED" /\ "bConnPrepared" \notin sock["A"].bits
    /\ sock' = [sock EXCEPT !["A"] = vTCPStateChange(@, "eCONNECT_SYN")]
    /\ UNCHANGED <<net, listens, toSend, log>>

\* The user of a connected socket sends n segments with one call.
FreeRTOS_send(x, n) ==
    /\ sock[x].state = "eESTABLISHED" /\ "bFinSent" \notin sock[x].bits
    /\ n <= toSend[x]
    /\ toSend' = [toSend EXCEPT ![x] = @ - n]
    /\ sock' = [sock EXCEPT ![x].todo = @ + n, ![x].txStream = TRUE,
                            ![x].bits = IF x \in CloseAfterSend THEN @ \cup {"bCloseRequested"}
                                        ELSE @]
    /\ UNCHANGED <<net, listens, log>>

FreeRTOS_shutdown(x) ==
    /\ sock[x].state = "eESTABLISHED"
    /\ sock' = [sock EXCEPT ![x].bits = @ \cup {"bUserShutdown"}]
    /\ UNCHANGED <<net, listens, toSend, log>>

\* FreeRTOS_closesocket: nothing is sent.
FreeRTOS_closesocket(x) ==
    /\ x \in Closes /\ sock[x].state # "none"
    /\ sock' = [sock EXCEPT ![x] = [NewSocket EXCEPT !.state = "none"]]
    /\ UNCHANGED <<net, listens, toSend, log>>

FreeRTOS_listen ==
    /\ sock["B"].state \in {"eCLOSED", "eCLOSE_WAIT"}
    /\ sock' = [sock EXCEPT !["B"] = Listening(@)]
    /\ UNCHANGED <<net, listens, toSend, log>>

Next ==
    \/ FreeRTOS_connect
    \/ FreeRTOS_listen
    \/ \E x \in Socket :
          \/ Receive(x)
          \/ \E resend \in {FALSE, sock[x].segs # {}}, old \in {FALSE, MayHang(sock[x])},
                resolved \in {TRUE, sock[x].state # "eCONNECT_SYN"} :
                   Timer(x, resend, old, resolved)
          \/ \E n \in 1 .. DataA + DataB : FreeRTOS_send(x, n)
          \/ FreeRTOS_shutdown(x)
          \/ FreeRTOS_closesocket(x)

Spec == Init /\ [][Next]_vars

\* The timer of a socket that may hang goes off again and again, and when no
\* packet comes for long enough it finds the socket to be old.
Hangs(x) == MayHang(sock[x]) /\ Timer(x, FALSE, TRUE, TRUE)

FairSpec == Spec /\ \A x \in Socket : WF_vars(Hangs(x))

-----------------------------------------------------------------------------
(***************************************************************************)
(* Properties.                                                              *)
(***************************************************************************)
Packet == [flags : SUBSET {"SYN", "ACK", "PSH", "FIN", "RST"}, seq : Nat, ack : Nat,
           len : {0, SegLen}]

TypeOK ==
    /\ \A x \in Socket :
         LET s == sock[x]
         IN  /\ s.state \in State /\ s.bits \subseteq Bit /\ s.ucRepCount \in 0 .. 3
             /\ {s.first, s.una, s.nxt, s.next, s.our, s.txfin, s.todo,
                 s.rxfirst, s.rx, s.rxhigh, s.rxfin} \subseteq Nat
             /\ s.segs \cup s.stored \cup s.got \subseteq Nat
             /\ {s.txStream, s.ack} \subseteq BOOLEAN
             /\ net[x] \subseteq Packet /\ Cardinality(net[x]) <= MaxNet(x)
    /\ listens \in 0 .. MaxListens

Positions(from, to) == {q \in from .. to - SegLen : (q - from) % SegLen = 0}

\* Every segment below the sequence number that a socket confirms has been given
\* to its user: neither a FIN nor a duplicate moves rx.ulCurrentSequenceNumber over
\* data that is missing.  The exception is the acknowledgement that ends the
\* hand shake, whose sequence number is taken over unchecked.
ConfirmsWhatItHas ==
    \A x \in Socket :
        LET s == sock[x]
        IN  s.state \in Atleast_eESTABLISHED /\ s.rxfirst = sock[Peer(x)].first
              /\ s.first \notin log[x].skipped
              => Positions(s.rxfirst + 1, s.rx) \subseteq s.got

\* Data that a socket has removed from txStream because it was acknowledged has
\* reached the user at the other end, and the peer of a socket that takes its
\* FIN for acknowledged has taken the FIN.
ConfirmedIsDelivered ==
    \A x \in Socket :
        LET s == sock[x]
        IN  /\ s.state \in Atleast_eESTABLISHED /\ s.rxfirst = sock[Peer(x)].first
               /\ s.rxfirst \notin log[Peer(x)].skipped
               => Positions(s.first + 1, s.next) \ s.segs \subseteq log[Peer(x)].data
            /\ "bFinAcked" \in s.bits => s.txfin \in log[Peer(x)].fin

\* x and its peer are the two ends of one connection that is still in use.
Live(x) ==
    LET s == sock[x] t == sock[Peer(x)] Use == {"eESTABLISHED", "eFIN_WAIT_1", "eLAST_ACK"}
    IN  s.state \in Use /\ t.state \in Use /\ s.first = t.rxfirst /\ s.rxfirst = t.first

\* Whatever is lost, repeated or late: as long as both ends use the connection,
\* no RST that one of them would believe is on its way.
NoResetWhileLive ==
    \A x \in Socket : Live(x) =>
        \A p \in net[x] : "RST" \in p.flags => p.seq # sock[x].rx

Transient == {"eCONNECT_SYN", "eSYN_RECEIVED", "eFIN_WAIT_1", "eLAST_ACK"}

\* Connecting and closing end, even when the peer has disappeared: the
\* retransmissions are limited and the hang protection ends the other states.
TransientEnds ==
    \A x \in Socket : sock[x].state \in Transient ~> sock[x].state \notin Transient
=============================================================================
