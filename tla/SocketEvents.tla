---------------------------- MODULE SocketEvents ----------------------------
(***************************************************************************)
(* How a task that calls FreeRTOS_connect, FreeRTOS_recv, FreeRTOS_send or  *)
(* FreeRTOS_shutdown and the IP task tell each other that there is work.    *)
(*                                                                          *)
(* The task sets usTimeout of the socket and sends an eTCPTimerEvent.  The  *)
(* IP task collects event bits in xEventBits and gives them to the event    *)
(* group of the socket when it is about to sleep, or when the state of the  *)
(* connection changes.  No lock protects usTimeout, bWinChange and the      *)
(* streams: every step below reads or writes them once, so that the tasks   *)
(* interleave as their priorities allow.                                    *)
(*                                                                          *)
(* One client socket and its peer; the network is reliable (see             *)
(* TCPConnection and the windows for one that is not), a packet that finds  *)
(* the event queue full is sent again.  A stream is the number of units, of *)
(* MSS bytes, that it holds.  The socket has no delayed data or FIN out of  *)
(* order, and no call-backs, signals or sets for FreeRTOS_select.           *)
(***************************************************************************)
EXTENDS Naturals, Sequences, FiniteSetsExt

CONSTANTS User,         \* the tasks that use the socket
          RxSize, LittleSpace, EnoughSpace,  \* rxStream and its water marks
          TxSize,       \* txStream
          MaxSend,      \* bound: units of one FreeRTOS_send
          MaxDelay,     \* the longest usTimeout, in walks of xTCPTimerCheck
          MaxRep,       \* how often a SYN is sent, 3 in the code
          MaxConnects,  \* bound: how often FreeRTOS_connect is called
          QueueLength,  \* bound: xNetworkEventQueue
          Scenes        \* bound: who does what, see below

\* The priority: the IP task goes before the users ("ip"), or users may interrupt
\* it ("any"); the calls that the users make; what the peer sends, besides answers.
Scene == [priority : {"ip", "any"},
          calls : SUBSET {"connect", "recv", "send", "shutdown"},
          peer : SUBSET {"data", "FIN", "RST"}]

ASSUME SocketEventsAssumption ==
    /\ {RxSize, LittleSpace, EnoughSpace, TxSize, MaxSend, MaxDelay, MaxRep,
        MaxConnects, QueueLength} \subseteq Nat \ {0}
    /\ LittleSpace < EnoughSpace /\ EnoughSpace <= RxSize /\ MaxDelay > 1
    /\ Scenes \subseteq Scene

State == {"eCLOSED", "eCONNECT_SYN", "eESTABLISHED", "eFIN_WAIT_1", "eLAST_ACK", "eCLOSE_WAIT"}
EventBit == {"eSOCKET_CONNECT", "eSOCKET_CLOSED", "eSOCKET_RECEIVE", "eSOCKET_SEND"}

VARIABLES
    socket,    \* the data of the socket
    group,     \* the bits that are set in its xEventGroup
    user,      \* [User -> the call that the task is in]
    queue,     \* xNetworkEventQueue
    bExpired,  \* of xTCPTimer
    ip,        \* where the IP task is, and its local variables
    peer,      \* what the peer has received and not answered
    connects,  \* calls of FreeRTOS_connect that started a connection
    scene      \* a member of Scenes

vars == <<socket, group, user, queue, bExpired, ip, peer, connects, scene>>

Idle == [pc |-> "idle", call |-> "none",
         left |-> 0,         \* what is left to send
         over |-> FALSE,     \* the time of the call is over
         closed |-> FALSE]   \* it was woken by eSOCKET_CLOSED

\* A peer that knows of no connection.
NoPeer == [syn |-> FALSE,   \* it has a SYN to answer
           open |-> FALSE,  \* it is connected
           fin |-> FALSE]   \* it has sent its FIN

\* The IP task at the beginning of its loop.
Start == [pc |-> "timers",
          sleep |-> FALSE,     \* xWillSleep
          load |-> 0,          \* a value that was read or computed, to be used later
          then |-> "timers"]   \* where a function returns to

Init ==
    /\ socket = [state |-> "eCLOSED", usTimeout |-> 0, xEventBits |-> {},
                 given |-> {},      \* bits on their way to the event group
                 rx |-> 0, tx |-> 0,
                 taken |-> 0,       \* the part of txStream that the window has
                 allowed |-> 0,     \* ulHighestRxAllowed, from the expected number on
                 ack |-> FALSE,     \* pxAckMessage # NULL
                 ucRepCount |-> 0, bits |-> {}]
    /\ group = {} /\ queue = <<>> /\ bExpired = FALSE /\ connects = 0
    /\ user = [u \in User |-> Idle]
    /\ ip = Start
    /\ peer = NoPeer
    /\ scene \in Scenes

-----------------------------------------------------------------------------
(***************************************************************************)
(* Event bits.                                                              *)
(***************************************************************************)
Connected(state) == state \in {"eESTABLISHED", "eFIN_WAIT_1", "eLAST_ACK"}
prvTCPSocketIsActive(state) == state \notin {"eCLOSED", "eCLOSE_WAIT"}

WaitBits_NoClosed(call) ==
    CASE call = "connect" -> {"eSOCKET_CONNECT", "eSOCKET_CLOSED"}
      [] call = "recv" -> {"eSOCKET_RECEIVE", "eSOCKET_CLOSED"}
      [] OTHER -> {"eSOCKET_SEND"}

\* The bits that a call waits for.
WaitBits(call) ==
    {"eSOCKET_CLOSED"} \cup
    CASE call = "connect" -> {"eSOCKET_CONNECT"}
      [] call = "recv" -> {"eSOCKET_RECEIVE"}
      [] OTHER -> {"eSOCKET_SEND"}

vSocketWakeUpUser(s) == [s EXCEPT !.given = @ \cup s.xEventBits, !.xEventBits = {}]

vTCPStateChange(s, new) ==
    LET bBefore == \/ Connected(s.state)
                   \/ s.state = "eCONNECT_SYN" /\ new = "eCLOSE_WAIT"
        bAfter  == Connected(new)
        bits    == IF bBefore = bAfter THEN {}
                   ELSE IF bAfter THEN {"eSOCKET_CONNECT"} ELSE {"eSOCKET_CLOSED"}
    IN  vSocketWakeUpUser([s EXCEPT !.state = new, !.xEventBits = @ \cup bits])

\* xEventGroupSetBits: every task that waits for one of the bits gets ready, and
\* what they waited for is cleared (xClearOnExit).
Deliver(s) ==
    LET bits  == group \cup s.given
        woken == {u \in User : user[u].pc = "blocked" /\ WaitBits(user[u].call) \cap bits # {}}
    IN  /\ socket' = [s EXCEPT !.given = {}]
        /\ group' = bits \ UNION {WaitBits(user[u].call) : u \in woken}
        /\ user' = [u \in User |-> IF u \in woken
                                   THEN [user[u] EXCEPT !.pc = "woken", !.closed = "eSOCKET_CLOSED" \in bits]
                                   ELSE user[u]]

\* xSendEventStructToIPTask for an eTCPTimerEvent, which is not queued when the
\* IP task has other work.
SendTimerEvent(q) == IF q = <<>> THEN <<[kind |-> "timer", acks |-> 0]>> ELSE q

-----------------------------------------------------------------------------
(***************************************************************************)
(* What the IP task does with the socket.  The result is the socket and     *)
(* whether a packet is sent.                                                *)
(***************************************************************************)
Result(s, send) == [s |-> s, send |-> send]

FrontSpace(s) == RxSize - s.rx

\* prvTCPReturn_CheckTCPWindow: nothing when the low-water mark was reached, but
\* one MSS if there is room for it.
AdvertisedWindow(s) ==
    LET space == IF "bLowWater" \in s.bits THEN 0 ELSE FrontSpace(s)
    IN  IF space < 1 /\ FrontSpace(s) >= 1 THEN 1 ELSE space

prvTCPAddTxData(s) == [s EXCEPT !.taken = s.tx]

\* prvTCPPrepareSend, when new is the data that was not sent before.
PrepareSend(s, new) ==
    LET close == s.state = "eESTABLISHED" /\ "bUserShutdown" \in s.bits /\ s.taken = 0
        t == IF ~close THEN s
             ELSE [vTCPStateChange(s, "eFIN_WAIT_1") EXCEPT
                      !.bits = (@ \ {"bUserShutdown"}) \cup {"bFinSent", "bWinChange"}]
    IN  Result(t, new > 0 \/ "bWinChange" \in t.bits)

xTCPSocketCheck_NoLimit(s) ==
    IF s.state = "eCONNECT_SYN" THEN Result([s EXCEPT !.ucRepCount = @ + 1], TRUE)
    ELSE PrepareSend(prvTCPAddTxData(s), s.tx - s.taken)

\* The part of xTCPSocketCheck that sends.  A delayed acknowledgement goes first,
\* and then the check is over, unless there is data or a shutdown.
xTCPSocketCheck(s) ==
    LET a == IF Connected(s.state) \/ s.state = "eCLOSE_WAIT" THEN prvTCPAddTxData(s) ELSE s
        delayed == s.ack /\ "bUserShutdown" \notin s.bits /\ a.tx = s.taken
        b == [a EXCEPT !.ack = FALSE]
    IN  CASE delayed -> Result(b, s.state # "eCLOSED")
          [] ~delayed /\ s.state = "eCONNECT_SYN" ->
               IF s.ucRepCount >= MaxRep THEN Result(vTCPStateChange(b, "eCLOSE_WAIT"), FALSE)
               ELSE Result([b EXCEPT !.ucRepCount = @ + 1], TRUE)
          [] ~delayed /\ s.state = "eCLOSED" -> Result(b, FALSE)
          [] OTHER -> PrepareSend(b, a.tx - s.taken)

\* vTCPAddRxdata_Stored after one unit was added to rxStream.
Stored(s) ==
    LET t == [s EXCEPT !.rx = @ + 1, !.xEventBits = @ \cup {"eSOCKET_RECEIVE"}]
    IN  IF "bLowWater" \notin s.bits /\ FrontSpace(t) <= LittleSpace
        THEN [t EXCEPT !.bits = @ \cup {"bLowWater", "bWinChange"}, !.usTimeout = 1]
        ELSE t

\* prvTCPHandleFin; acked: the packet confirms the FIN of this side.
prvTCPHandleFin(s, p) ==
    LET acked == "bFinAcked" \in s.bits \/ ("bFinSent" \in s.bits /\ p.fin)
        t == [s EXCEPT !.bits = @ \cup {"bFinSent"} \cup (IF acked THEN {"bFinAcked"} ELSE {})]
    IN  CASE ~acked -> Result(vTCPStateChange(t, "eLAST_ACK"), TRUE)
          [] acked /\ "bFinRecv" \in s.bits -> Result(vTCPStateChange(t, "eCLOSE_WAIT"), TRUE)
          [] OTHER -> Result(t, FALSE)

\* prvHandleEstablished: confirmed data leaves txStream; a FIN is refused while
\* data is not confirmed.  An acknowledgement of data may be delayed
\* (prvSendData).
prvHandleEstablished(s, p) ==
    LET acked == p.acks
        a == [s EXCEPT !.tx = @ - acked, !.taken = @ - acked,
                       !.xEventBits = IF acked > 0 THEN @ \cup {"eSOCKET_SEND"} ELSE @]
        b == prvTCPAddTxData(a)
        r == PrepareSend(b, b.taken - a.taken)
        delay == /\ p.kind = "data" /\ b.taken = a.taken /\ s.allowed >= 2
                 /\ "bFinSent" \notin r.s.bits
    IN  CASE p.kind = "FIN" /\ ("bFinSent" \in s.bits \/ b.taken = 0) -> prvTCPHandleFin(b, p)
          [] delay -> Result([b EXCEPT !.ack = TRUE, !.usTimeout = MaxDelay], FALSE)
          [] OTHER -> Result([r.s EXCEPT !.ack = FALSE], r.send \/ p.kind = "data")

\* xProcessReceivedTCPPacket, of a packet for an active socket.  Something else
\* than a SYN+ACK ends an attempt to connect; an RST is believed when it is the
\* answer to the last SYN, or in order.
xProcessReceivedTCPPacket(s0, p) ==
    LET s == [s0 EXCEPT !.ucRepCount = 0]
        t == IF p.kind = "data" /\ FrontSpace(s) > 0
             THEN Stored([s EXCEPT !.allowed = IF @ > 0 THEN @ - 1 ELSE 0]) ELSE s
        f == IF p.kind = "FIN" THEN [t EXCEPT !.bits = @ \cup {"bFinRecv"}] ELSE t
    IN  CASE p.kind = "RST" ->
               Result(IF p.n = connects THEN vTCPStateChange(s, "eCLOSED") ELSE s, FALSE)
          [] p.kind # "RST" /\ s.state = "eCONNECT_SYN" ->
               IF p.kind = "SYN+ACK" THEN Result(vTCPStateChange(s, "eESTABLISHED"), TRUE)
               ELSE Result(vTCPStateChange(s, "eCLOSE_WAIT"), TRUE)
          [] p.kind # "RST" /\ s.state = "eESTABLISHED" -> prvHandleEstablished(f, p)
          [] OTHER -> prvTCPHandleFin(f, p)

-----------------------------------------------------------------------------
(***************************************************************************)
(* The IP task: prvProcessIPEventsAndTimers, step by step.                  *)
(***************************************************************************)
\* A step of the IP task that leaves the queue and the timer alone.
IpGoes(pc, s) ==
    /\ ip' = IF pc = "timers" THEN Start ELSE [ip EXCEPT !.pc = pc, !.load = 0]
    /\ Deliver(s)
    /\ UNCHANGED <<queue, bExpired, connects, scene>>

\* vCheckNetworkTimers: xTCPTimerCheck meets the socket when xTCPTimer has expired,
\* and always before the IP task sleeps.
vCheckNetworkTimers ==
    /\ ip.pc = "timers"
    /\ \E elapsed \in BOOLEAN :
          LET visit == queue = <<>> \/ bExpired \/ elapsed
              time  == socket.usTimeout
          IN  /\ ip' = IF ~visit THEN [Start EXCEPT !.pc = "receive"]
                       ELSE [pc |-> CASE time = 0 -> "start" [] time = 1 -> "check" [] OTHER -> "age",
                             sleep |-> queue = <<>>, load |-> time, then |-> "wake"]
              /\ socket' = IF visit /\ time = 1 THEN [socket EXCEPT !.usTimeout = 0] ELSE socket
    /\ UNCHANGED <<group, user, queue, bExpired, peer, connects, scene>>

\* xTCPTimerCheck writes what is left of the time that it has read.
AgeTimeout ==
    /\ ip.pc = "age" /\ IpGoes("aged", [socket EXCEPT !.usTimeout = ip.load - 1])
    /\ UNCHANGED peer

\* prvTCPNextTimeout.  All data was sent, so that without another time the next
\* one is that of a retransmission, or the longest.
prvTCPNextTimeout(s) == IF s.state = "eCONNECT_SYN" THEN [s EXCEPT !.usTimeout = MaxDelay] ELSE s

\* The IP task sends what r says, and then looks at the timeout, or does that at once.
SendOrGoOn(r, then) ==
    LET s == IF r.send THEN r.s ELSE prvTCPNextTimeout(r.s)
        pc == IF r.send THEN "advertise" ELSE IF s.usTimeout = 0 THEN "store" ELSE then
    IN  /\ ip' = IF pc = "timers" THEN Start
                 ELSE [ip EXCEPT !.pc = pc, !.then = then,
                                 !.load = IF r.send THEN AdvertisedWindow(s) ELSE 0]
        /\ Deliver(s)

CheckSocket ==
    /\ ip.pc = "check"
    /\ SendOrGoOn(xTCPSocketCheck(socket), ip.then)
    /\ UNCHANGED <<queue, bExpired, peer, connects, scene>>

\* prvTCPReturn_CheckTCPWindow: the window that was computed is sent, and
\* bWinChange is cleared.
Advertise(s) == [s EXCEPT !.allowed = ip.load, !.bits = @ \ {"bWinChange"}]

SendPacket ==
    /\ ip.pc = "advertise"
    /\ SendOrGoOn(Result(Advertise(socket), FALSE), ip.then)
    /\ peer' = [peer EXCEPT !.syn = @ \/ socket.state = "eCONNECT_SYN"]
    /\ UNCHANGED <<queue, bExpired, connects, scene>>

StoreTimeout ==
    /\ ip.pc = "store" /\ IpGoes(ip.then, [socket EXCEPT !.usTimeout = MaxDelay])
    /\ UNCHANGED peer

\* prvTCPStatusAgeCheck: connecting or closing has taken too long, or has not.
prvTCPStatusAgeCheck(s) ==
    {s} \cup IF s.state \in {"eCONNECT_SYN", "eFIN_WAIT_1", "eLAST_ACK"}
             THEN {vTCPStateChange(s, "eCLOSE_WAIT")} ELSE {}

\* The end of xTCPTimerCheck: event bits are only given before the IP task sleeps;
\* or else it comes back at once.  aged: the timeout had not expired.
GiveEventBits ==
    /\ ip.pc \in {"wake", "aged"}
    /\ \E s \in IF ip.pc = "wake" THEN prvTCPStatusAgeCheck(socket) ELSE {socket} :
          /\ ip' = [Start EXCEPT !.pc = IF s.xEventBits = {} \/ ip.sleep THEN "start" ELSE "again"]
          /\ Deliver(IF ip.sleep THEN vSocketWakeUpUser(s) ELSE s)
    /\ UNCHANGED <<queue, bExpired, peer, connects, scene>>

prvIPTimerStart ==
    /\ ip.pc \in {"start", "again"}
    /\ bExpired' = (ip.pc = "again")
    /\ ip' = [Start EXCEPT !.pc = "receive"]
    /\ UNCHANGED <<socket, group, user, queue, peer, connects, scene>>

\* xQueueReceive ends without an event.
SleepEnds ==
    /\ ip.pc = "receive" /\ queue = <<>>
    /\ ip' = Start
    /\ UNCHANGED <<socket, group, user, queue, bExpired, peer, connects, scene>>

HandleTimerEvent ==
    /\ ip.pc = "receive" /\ queue # <<>> /\ Head(queue).kind = "timer"
    /\ queue' = Tail(queue) /\ bExpired' = TRUE
    /\ ip' = Start
    /\ UNCHANGED <<socket, group, user, peer, connects, scene>>

\* When rxStream runs out of space an eTCPTimerEvent is sent.
HandlePacket ==
    /\ ip.pc = "receive" /\ queue # <<>> /\ Head(queue).kind # "timer"
    /\ LET p == Head(queue)
           r == xProcessReceivedTCPPacket(socket, p)
           low == "bLowWater" \in r.s.bits \ socket.bits
       IN  IF prvTCPSocketIsActive(socket.state)
           THEN /\ IF p.kind = "RST" THEN ip' = Start /\ Deliver(r.s) ELSE SendOrGoOn(r, "timers")
                /\ queue' = IF low THEN SendTimerEvent(Tail(queue)) ELSE Tail(queue)
                /\ bExpired' = (bExpired \/ low)
                /\ peer' = IF Connected(r.s.state) THEN [peer EXCEPT !.open = TRUE] ELSE NoPeer
           ELSE /\ ip' = Start
                /\ queue' = Tail(queue)
                /\ peer' = NoPeer      \* it is told with an RST
                /\ UNCHANGED <<socket, group, user, bExpired>>
    /\ UNCHANGED <<connects, scene>>

IpTask ==
    \/ vCheckNetworkTimers \/ AgeTimeout \/ CheckSocket \/ SendPacket \/ StoreTimeout
    \/ GiveEventBits \/ prvIPTimerStart \/ SleepEnds \/ HandleTimerEvent \/ HandlePacket

-----------------------------------------------------------------------------
(***************************************************************************)
(* The peer, and the driver that queues what it sends.                      *)
(***************************************************************************)
InFlight == Cardinality({i \in DOMAIN queue : queue[i].kind = "data"})
Unacked == socket.taken - MapThenSumSet(LAMBDA i : queue[i].acks, DOMAIN queue)

\* A packet that confirms acks units of data, and the FIN if that was sent.
PeerSends(kind, acks) ==
    /\ Len(queue) < QueueLength /\ ip.pc \in {"timers", "receive"}
    /\ queue' = Append(queue, [kind |-> kind, acks |-> acks, n |-> connects,
                               fin |-> kind # "RST" /\ "bFinSent" \in socket.bits])
    /\ UNCHANGED <<socket, group, user, bExpired, ip, connects, scene>>

PeerAnswersSyn ==
    /\ peer.syn /\ peer' = [peer EXCEPT !.syn = FALSE]
    /\ PeerSends("SYN+ACK", 0) \/ PeerSends("RST", 0)

PeerSendsData ==
    /\ peer.open /\ ~peer.fin /\ socket.allowed > InFlight /\ "data" \in scene.peer
    /\ PeerSends("data", 0) \/ PeerSends("data", Unacked)
    /\ UNCHANGED peer

PeerAcknowledges ==
    /\ peer.open
    /\ Unacked > 0 \/ ("bFinSent" \in socket.bits /\ "bFinAcked" \notin socket.bits)
    /\ PeerSends("ACK", Unacked)
    /\ UNCHANGED peer

PeerCloses ==
    /\ peer.open /\ ~peer.fin /\ "FIN" \in scene.peer
    /\ peer' = [peer EXCEPT !.fin = TRUE]
    /\ PeerSends("FIN", Unacked)

PeerResets ==
    /\ peer.open /\ "RST" \in scene.peer /\ peer' = NoPeer
    /\ PeerSends("RST", 0)

PeerNext ==
    PeerAnswersSyn \/ PeerSendsData \/ PeerAcknowledges \/ PeerCloses \/ PeerResets

-----------------------------------------------------------------------------
(***************************************************************************)
(* The users.  A task with a lower priority only runs while the IP task     *)
(* waits for an event.                                                      *)
(***************************************************************************)
MayRun == scene.priority = "any" \/ (ip.pc = "receive" /\ queue = <<>>)

Closed == socket.state \in {"eCLOSED", "eCLOSE_WAIT"}

\* A task makes a call.  A socket that was connected is not connected again; data is
\* sent and received when connect has succeeded (earlier or later a call returns at
\* once, or waits as connect does).
MayBegin(u, call) ==
    /\ MayRun /\ user[u].pc = "idle" /\ call \in scene.calls
    /\ call # "connect" => Connected(socket.state)

\* The task is in the call c now, or has returned.
Enters(u, c, pc) ==
    /\ user' = [user EXCEPT ![u] = IF pc = "idle" THEN Idle ELSE [c EXCEPT !.pc = pc]]
    /\ UNCHANGED <<bExpired, ip, peer, scene>>

\* prvTCPConnectStart with bMayConnect.
prvTCPConnectStart(u) ==
    /\ MayBegin(u, "connect") /\ Closed
    /\ connects < MaxConnects /\ ~peer.open /\ "bFinSent" \notin socket.bits
    /\ connects' = connects + 1
    /\ socket' = [vTCPStateChange(socket, "eCONNECT_SYN") EXCEPT !.ucRepCount = 0]
    /\ Enters(u, [Idle EXCEPT !.call = "connect"], "kick")
    /\ UNCHANGED <<group, queue>>

\* prvTCPSendCheck, at the beginning and after a wait: a closed connection ends the
\* call; once the FIN was sent only a call that begins returns.
prvTCPSendCheck(u, c) ==
    /\ Enters(u, c, IF Closed \/ (user[u].pc = "idle" /\ "bFinSent" \in socket.bits)
                    THEN "idle" ELSE "check")
    /\ UNCHANGED <<socket, group, queue, connects>>

FreeRTOS_send(u) ==
    \/ /\ MayBegin(u, "send")
       /\ \E n \in 1 .. MaxSend : prvTCPSendCheck(u, [Idle EXCEPT !.call = "send", !.left = n])
    \/ MayRun /\ user[u].pc = "woken" /\ user[u].call = "send" /\ prvTCPSendCheck(u, user[u])

FreeRTOS_shutdown(u) ==
    /\ MayBegin(u, "shutdown") /\ socket.state = "eESTABLISHED"
    /\ socket' = [socket EXCEPT !.bits = @ \cup {"bUserShutdown"}]
    /\ Enters(u, [Idle EXCEPT !.call = "shutdown"], "kick")
    /\ UNCHANGED <<group, queue, connects>>

\* A round of FreeRTOS_connect.
ConnectCheck(u) ==
    /\ MayRun /\ user[u].call = "connect" /\ user[u].pc \in {"check", "woken"}
    /\ IF \/ user[u].pc = "check" /\ Connected(socket.state)
          \/ user[u].pc = "woken" /\ user[u].closed
       THEN Enters(u, user[u], "idle")
       ELSE Enters(u, user[u], IF user[u].pc = "check" THEN "wait" ELSE "check")
    /\ UNCHANGED <<socket, group, queue, connects>>

\* A round of prvRecvWait.
prvRecvWait(u) ==
    /\ MayBegin(u, "recv") \/ (MayRun /\ user[u].call = "recv" /\ user[u].pc = "woken")
    /\ Enters(u, [user[u] EXCEPT !.call = "recv"],
              CASE socket.rx > 0 -> "get" [] socket.rx = 0 /\ Closed -> "idle" [] OTHER -> "wait")
    /\ UNCHANGED <<socket, group, queue, connects>>

\* prvRecvData: some of the data is read.
ReadData(u) ==
    /\ MayRun /\ user[u].pc = "get"
    /\ \E n \in 1 .. socket.rx : socket' = [socket EXCEPT !.rx = @ - n]
    /\ Enters(u, user[u], "low")
    /\ UNCHANGED <<group, queue, connects>>

ClearLowWater_Silent(s) == [s EXCEPT !.bits = @ \ {"bLowWater"}]

ClearLowWater(s) == [s EXCEPT !.bits = (@ \ {"bLowWater"}) \cup {"bWinChange"}]

\* prvRecvData: is the low-water mark passed?
CheckLowWater(u) ==
    /\ MayRun /\ user[u].pc = "low"
    /\ IF "bLowWater" \in socket.bits /\ FrontSpace(socket) >= EnoughSpace
       THEN socket' = ClearLowWater(socket) /\ Enters(u, user[u], "kick")
       ELSE Enters(u, user[u], "idle") /\ UNCHANGED socket
    /\ UNCHANGED <<group, queue, connects>>

\* prvTCPSendLoop: as much as there is space for.
AddData(u) ==
    /\ MayRun /\ user[u].call = "send" /\ user[u].pc = "check"
    /\ LET n == Min({user[u].left, TxSize - socket.tx})
       IN  /\ socket' = [socket EXCEPT !.tx = @ + n]
           /\ user' = [user EXCEPT ![u].pc = IF n > 0 THEN "kick" ELSE "wait",
                                   ![u].left = @ - n]
    /\ UNCHANGED <<group, queue, bExpired, ip, peer, connects, scene>>

\* usTimeout = 1, ...
SetTimeout(u) ==
    /\ MayRun /\ user[u].pc = "kick"
    /\ socket' = [socket EXCEPT !.usTimeout = 1]
    /\ Enters(u, user[u], "event")
    /\ UNCHANGED <<group, queue, connects>>

\* ... and xSendEventToIPTask( eTCPTimerEvent ).
xSendEventToIPTask(u) ==
    /\ MayRun /\ user[u].pc = "event"
    /\ queue' = SendTimerEvent(queue) /\ bExpired' = TRUE
    /\ user' = [user EXCEPT ![u] = CASE @.call = "connect" -> [@ EXCEPT !.pc = "check"]
                                     [] @.call = "send" /\ @.left > 0 -> [@ EXCEPT !.pc = "wait"]
                                     [] OTHER -> Idle]
    /\ UNCHANGED <<socket, group, ip, peer, connects, scene>>

\* xEventGroupWaitBits, unless the call may not block any longer.
xEventGroupWaitBits(u) ==
    /\ MayRun /\ user[u].pc = "wait"
    /\ LET mask == WaitBits(user[u].call)
       IN  IF user[u].over THEN Enters(u, user[u], "idle") /\ UNCHANGED group
           ELSE /\ group' = group \ mask
                /\ user' = [user EXCEPT ![u].pc = IF group \cap mask = {} THEN "blocked" ELSE "woken",
                                        ![u].closed = "eSOCKET_CLOSED" \in group]
                /\ UNCHANGED <<bExpired, ip, peer, scene>>
    /\ UNCHANGED <<socket, queue, connects>>

\* The time of a call that is blocked is over.  The time of another call is
\* portMAX_DELAY, so that this may never happen.
TimeIsOver(u) ==
    /\ MayRun /\ user[u].pc = "blocked"
    /\ user' = [user EXCEPT ![u].pc = "woken", ![u].over = TRUE]
    /\ UNCHANGED <<socket, group, queue, bExpired, ip, peer, connects, scene>>

UserStep(u) ==
    \/ prvTCPConnectStart(u) \/ FreeRTOS_send(u) \/ FreeRTOS_shutdown(u) \/ ConnectCheck(u)
    \/ prvRecvWait(u) \/ ReadData(u) \/ CheckLowWater(u) \/ AddData(u) \/ SetTimeout(u)
    \/ xSendEventToIPTask(u) \/ xEventGroupWaitBits(u)

Next == IpTask \/ PeerNext \/ \E u \in User : UserStep(u) \/ TimeIsOver(u)

Spec == Init /\ [][Next]_vars

\* The IP task runs: xQueueReceive waits for a limited time.  A task that is ready
\* gets the processor again and again, when the IP task waits.
FairSpec ==
    /\ Spec /\ WF_vars(IpTask)
    /\ \A u \in User : SF_vars(user[u].pc # "idle" /\ UserStep(u))

-----------------------------------------------------------------------------
(***************************************************************************)
(* Properties.                                                              *)
(***************************************************************************)
\* The streams, the window that the peer may use and the count of SYNs stay within
\* their limits.
TypeOK ==
    /\ socket.state \in State /\ socket.usTimeout \in 0 .. MaxDelay
    /\ socket.xEventBits \subseteq EventBit /\ socket.given = {} /\ group \subseteq EventBit
    /\ socket.rx \in 0 .. RxSize /\ socket.tx \in 0 .. TxSize
    /\ socket.taken \in 0 .. socket.tx /\ socket.ucRepCount \in 0 .. MaxRep
    /\ socket.allowed \in 0 .. RxSize
    /\ Len(queue) <= QueueLength /\ bExpired \in BOOLEAN /\ connects \in 0 .. MaxConnects

\* The condition that a call waits for.  For connect: the attempt has succeeded or
\* was given up.
Ready(u) ==
    CASE user[u].call = "connect" -> Connected(socket.state) \/ socket.state = "eCLOSE_WAIT"
      [] user[u].call = "recv" -> socket.rx > 0 \/ Closed
      [] OTHER -> socket.tx < TxSize \/ Closed

\* A task that waits without a time limit goes on when what it waits for has
\* happened: no wake-up is lost between its test and xEventGroupWaitBits, in
\* xEventBits, or by a bit of an earlier event.
CallReturns ==
    \A u \in User : (user[u].pc = "blocked" /\ Ready(u)) ~> (user[u].pc # "blocked")

\* When the user has read everything and the peer may not send, the peer is told
\* that there is room, if the users cannot interrupt the IP task.
WindowReopens ==
    (scene.priority = "ip" /\ socket.state = "eESTABLISHED" /\ socket.allowed = 0 /\ socket.rx = 0)
        ~> (socket.allowed > 0 \/ socket.rx > 0 \/ socket.state # "eESTABLISHED")
=============================================================================
