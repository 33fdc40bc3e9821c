------------------------------- MODULE DHCP -------------------------------
(***************************************************************************)
(* The DHCP client (FreeRTOS_DHCP.c): one state machine per end-point, and  *)
(* one UDP socket that all end-points share.  The IP task runs it: a timer  *)
(* or a packet for the socket posts an eDHCPEvent (xSendDHCPEvent), which   *)
(* remembers the state it was meant for (eExpectedState), and vDHCPProcess  *)
(* handles it later: first all packets that wait in the socket, whichever   *)
(* end-point they are for, then the end-point itself.                       *)
(*                                                                          *)
(* A transaction id is abstracted to one bit of a packet: an id is random,  *)
(* so a packet is for the current transaction of its end-point or for none. *)
(* The address that a server leases is named after the server.  Time is     *)
(* abstracted: a timer that is active may expire in any cycle of the IP     *)
(* task, and a transmission period may have elapsed or not.                 *)
(***************************************************************************)
EXTENDS Naturals, Sequences, FiniteSets, SequencesExt, FiniteSetsExt

CONSTANTS EndPoint,      \* the IPv4 end-points that use DHCP, one per interface
          Server,        \* the DHCP servers, and the address each one leases
          NoAddress, Default, LinkLocal,  \* the other values of an address
          MaxDoublings,  \* ipconfigMAXIMUM_DISCOVER_TX_PERIOD, in doublings of
                         \* dhcpINITIAL_DHCP_TX_PERIOD
          QueueLength,   \* free places of xNetworkEventQueue
          MaxPackets,    \* uxMaxPackets of the DHCP socket
          MaxDown,       \* bound: how often an interface goes down
          AutoIP,        \* ipconfigDHCP_FALL_BACK_AUTO_IP
          HookAnswers,   \* what xApplicationDHCPHook may answer
          MayFail,       \* what may fail: a subset of {"send", "random", "init"}
          Naks,          \* may a server answer with a NAK?
          LateReplies    \* may a reply come when its end-point is done with DHCP?

Answer == {"eDHCPContinue", "eDHCPUseDefaults", "eDHCPStopNoChanges"}

ASSUME DHCPAssumption ==
    /\ IsFiniteSet(EndPoint) /\ IsFiniteSet(Server)
    /\ {MaxDoublings, QueueLength, MaxPackets, MaxDown} \subseteq Nat
    /\ {AutoIP, Naks, LateReplies} \subseteq BOOLEAN
    /\ HookAnswers \subseteq Answer /\ MayFail \subseteq {"send", "random", "init"}
    /\ {NoAddress, Default, LinkLocal} \cap Server = {}
    /\ Cardinality({NoAddress, Default, LinkLocal}) = 3

VARIABLES
    d,        \* the data of the end-points and of the socket (a record, see Init)
    events,   \* the eDHCPEvents in xNetworkEventQueue
    loop,     \* the call of vDHCPProcess that goes through the packets: its
              \* end-point and xDoProcess; {} when there is none
    granted,  \* [EndPoint -> SUBSET Server]: who ever acknowledged a request
    downs     \* how often an interface has gone down

vars == <<d, events, loop, granted, downs>>

State == {"eInitialWait", "eWaitingSendFirstDiscover", "eWaitingOffer", "eSendDHCPRequest",
          "eWaitingAcknowledge", "eGetLinkLayerAddress", "eLeasedAddress",
          "eNotUsingLeasedAddress"}

Packet == [to : EndPoint, from : Server, type : {"OFFER", "ACK", "NAK"}, current : BOOLEAN]

\* What the outside world decides in one step of the state machine.
Chance == {c \in [elapsed : BOOLEAN, sent : BOOLEAN, random : BOOLEAN, clash : BOOLEAN,
                  answer : HookAnswers] :
              /\ c.sent \/ "send" \in MayFail
              /\ c.random \/ "random" \in MayFail
              /\ c.clash => AutoIP}

Init ==
    /\ d = [ep    |-> [e \in EndPoint |->
                         [state |-> "eInitialWait", expected |-> "eInitialWait",
                          socket |-> FALSE, doublings |-> 0, server |-> NoAddress,
                          offered |-> NoAddress, ip |-> NoAddress,
                          up |-> FALSE, timer |-> FALSE, interface |-> FALSE]],
            open  |-> FALSE,    \* xDHCPv4Socket # NULL
            users |-> 0,        \* xDHCPSocketUserCount
            rx    |-> << >>,    \* xWaitingPacketsList of the socket
            sent  |-> [e \in EndPoint |-> {}]]  \* what was sent under the current id
    /\ events = << >> /\ loop = {} /\ downs = 0
    /\ granted = [e \in EndPoint |-> {}]

-----------------------------------------------------------------------------
(***************************************************************************)
(* The shared socket.                                                       *)
(***************************************************************************)
prvCloseDHCPSocket_Always(x, e) ==
    [x EXCEPT !.open = FALSE, !.users = IF @ > 0 THEN @ - 1 ELSE @, !.rx = << >>,
              !.ep[e].socket = FALSE]

prvCloseDHCPSocket(x, e) ==
    IF ~x.ep[e].socket \/ ~x.open \/ x.users = 0 THEN x
    ELSE [x EXCEPT !.users = @ - 1,
                   !.open = x.users > 1,
                   !.rx = IF x.users > 1 THEN @ ELSE << >>,
                   !.ep[e].socket = FALSE]

prvCreateDHCPSocket_Recount(x, e) ==
    IF x.open THEN [x EXCEPT !.users = @ + 1, !.ep[e].socket = TRUE]
    ELSE [x EXCEPT !.open = TRUE, !.users = 1, !.rx = << >>, !.ep[e].socket = TRUE]

prvCreateDHCPSocket(x, e) ==
    CASE x.open /\ x.ep[e].socket -> x
      [] ~x.open -> [x EXCEPT !.open = TRUE, !.users = 1, !.rx = << >>, !.ep[e].socket = TRUE]
      [] OTHER   -> [x EXCEPT !.users = @ + 1, !.ep[e].socket = TRUE]

\* A new random transaction id: no packet sent before belongs to it.
NewTransactionId(x, e) ==
    [x EXCEPT !.sent[e] = {},
              !.rx = [i \in DOMAIN x.rx |->
                        [x.rx[i] EXCEPT !.current = x.rx[i].current /\ x.rx[i].to # e]]]

\* A message needs a network buffer, the socket, and FreeRTOS_sendto to succeed.
CanSend(x, e, c) == c.sent /\ x.ep[e].socket

prvSendDHCPDiscover(x, e) == [x EXCEPT !.sent[e] = @ \cup {"discover"}]

prvSendDHCPRequest(x, e) == [x EXCEPT !.sent[e] = @ \cup {x.ep[e].server}]

-----------------------------------------------------------------------------
(***************************************************************************)
(* The state machine of one end-point.                                      *)
(***************************************************************************)
prvInitialiseDHCP(x, e, c) ==
    IF ~c.random THEN x
    ELSE prvCreateDHCPSocket(
            [NewTransactionId(x, e) EXCEPT !.ep[e].offered = NoAddress,
                                           !.ep[e].server = NoAddress,
                                           !.ep[e].doublings = 0,
                                           !.ep[e].timer = TRUE], e)

\* The end of vDHCPProcessEndPoint when xGivingUp is set.
GiveUp(x, e) ==
    prvCloseDHCPSocket([x EXCEPT !.ep[e].ip = Default, !.ep[e].timer = FALSE,
                                 !.ep[e].up = TRUE,
                                 !.ep[e].state = "eNotUsingLeasedAddress"], e)

prvPrepareLinkLayerIPLookUp(x, e) ==
    prvCloseDHCPSocket([x EXCEPT !.ep[e].offered = LinkLocal, !.ep[e].ip = LinkLocal,
                                 !.ep[e].state = "eGetLinkLayerAddress"], e)

\* Send a request and wait for the answer; when it cannot be sent, try later.
SendRequest(x, e, c) ==
    IF CanSend(x, e, c)
    THEN [prvSendDHCPRequest(x, e) EXCEPT !.ep[e].state = "eWaitingAcknowledge",
                                          !.ep[e].doublings = 0]
    ELSE [x EXCEPT !.ep[e].state = "eSendDHCPRequest"]

xHandleWaitingFirstDiscover(x, e, c) ==
    CASE c.answer # "eDHCPContinue" \/ ~x.ep[e].socket -> GiveUp(x, e)
      [] OTHER ->
           LET down == [x EXCEPT !.ep[e].ip = NoAddress]
           IN  IF CanSend(x, e, c)
               THEN [prvSendDHCPDiscover(down, e) EXCEPT !.ep[e].state = "eWaitingOffer"]
               ELSE down

\* The reply that vDHCPProcess has found is taken from the socket.
Taken(x) == [x EXCEPT !.rx = Tail(@)]

\* Does prvProcessDHCPReplies return pdPASS?  The type of the message must be
\* the expected one and, unless it is an offer, so must the server.
ReplyAccepted(x, e, type) ==
    /\ Head(x.rx).type = type
    /\ type = "OFFER" \/ Head(x.rx).from = x.ep[e].server

xHandleWaitingOffer_Forever(x, e, check, c) ==
    IF check
    THEN IF ~ReplyAccepted(x, e, "OFFER") THEN Taken(x)
         ELSE SendRequest([Taken(x) EXCEPT !.ep[e].server = Head(x.rx).from,
                                           !.ep[e].offered = Head(x.rx).from], e, c)
    ELSE IF c.elapsed /\ CanSend(x, e, c) THEN prvSendDHCPDiscover(x, e) ELSE x

xHandleWaitingOffer(x, e, check, c) ==
    IF check
    THEN IF ~ReplyAccepted(x, e, "OFFER") THEN Taken(x)
         ELSE LET o == [Taken(x) EXCEPT !.ep[e].server = Head(x.rx).from,
                                        !.ep[e].offered = Head(x.rx).from]
              IN  IF c.answer = "eDHCPContinue" THEN SendRequest(o, e, c) ELSE GiveUp(o, e)
    ELSE IF ~c.elapsed THEN x
         ELSE IF x.ep[e].doublings = MaxDoublings
              THEN IF AutoIP THEN prvPrepareLinkLayerIPLookUp(x, e) ELSE GiveUp(x, e)
              ELSE LET y == [x EXCEPT !.ep[e].doublings = @ + 1]
                   IN  CASE ~c.random -> y
                         [] c.random /\ CanSend(x, e, c) ->
                              prvSendDHCPDiscover(NewTransactionId(y, e), e)
                         [] OTHER ->
                              [NewTransactionId(y, e) EXCEPT !.ep[e].state = "eInitialWait"]

\* The client starts again, and forgets what state an event was meant for.
StartAgain(x, e) ==
    [x EXCEPT !.ep[e].state = "eInitialWait", !.ep[e].expected = "eInitialWait"]

vHandleWaitingAcknowledge_NoTimer(x, e, check, c) ==
    IF check
    THEN CASE ReplyAccepted(x, e, "ACK") ->
                prvCloseDHCPSocket([Taken(x) EXCEPT !.ep[e].offered = Head(x.rx).from,
                                                    !.ep[e].ip = Head(x.rx).from,
                                                    !.ep[e].up = TRUE,
                                                    !.ep[e].timer = FALSE,
                                                    !.ep[e].state = "eLeasedAddress"], e)
           [] Head(x.rx).type = "NAK" -> StartAgain(Taken(x), e)
           [] OTHER -> Taken(x)
    ELSE x

vHandleWaitingAcknowledge(x, e, check, c) ==
    IF check
    THEN CASE ReplyAccepted(x, e, "ACK") ->
                prvCloseDHCPSocket([Taken(x) EXCEPT !.ep[e].offered = Head(x.rx).from,
                                                    !.ep[e].ip = Head(x.rx).from,
                                                    !.ep[e].up = TRUE,
                                                    !.ep[e].timer = TRUE,
                                                    !.ep[e].state = "eLeasedAddress"], e)
           [] Head(x.rx).type = "NAK" -> StartAgain(Taken(x), e)
           [] OTHER -> Taken(x)
    ELSE CASE ~c.elapsed -> x
           [] c.elapsed /\ x.ep[e].doublings = MaxDoublings -> StartAgain(x, e)
           [] OTHER ->
                LET y == [x EXCEPT !.ep[e].doublings = @ + 1]
                IN  IF CanSend(y, e, c) THEN prvSendDHCPRequest(y, e)
                    ELSE [y EXCEPT !.ep[e].state = "eSendDHCPRequest"]

prvHandleWaitingeLeasedAddress(x, e, c) ==
    IF ~x.ep[e].up THEN [x EXCEPT !.ep[e].timer = TRUE]
    ELSE LET y == prvCreateDHCPSocket(x, e)
             z == IF c.random THEN NewTransactionId(y, e) ELSE y
         IN  [SendRequest([z EXCEPT !.ep[e].doublings = 0], e, c) EXCEPT !.ep[e].timer = TRUE]

GetLinkLayerAddress(x, e, c) ==
    CASE ~c.elapsed -> x
      [] c.elapsed /\ c.clash -> prvPrepareLinkLayerIPLookUp(x, e)
      [] OTHER -> [x EXCEPT !.ep[e].up = TRUE, !.ep[e].state = "eNotUsingLeasedAddress"]

\* One cycle; check says that the first packet in the socket is for e.
vDHCPProcessEndPoint(x, e, check, c) ==
    IF x.ep[e].state # x.ep[e].expected THEN x
    ELSE
    CASE x.ep[e].state = "eInitialWait" ->
           [prvInitialiseDHCP(x, e, c) EXCEPT !.ep[e].state = "eWaitingSendFirstDiscover"]
      [] x.ep[e].state = "eWaitingSendFirstDiscover" -> xHandleWaitingFirstDiscover(x, e, c)
      [] x.ep[e].state = "eSendDHCPRequest" -> SendRequest(x, e, c)
      [] x.ep[e].state = "eWaitingOffer" -> xHandleWaitingOffer(x, e, check, c)
      [] x.ep[e].state = "eWaitingAcknowledge" -> vHandleWaitingAcknowledge(x, e, check, c)
      [] x.ep[e].state = "eGetLinkLayerAddress" -> GetLinkLayerAddress(x, e, c)
      [] x.ep[e].state = "eLeasedAddress" -> prvHandleWaitingeLeasedAddress(x, e, c)
      [] x.ep[e].state = "eNotUsingLeasedAddress" -> [x EXCEPT !.ep[e].timer = FALSE]

-----------------------------------------------------------------------------
(***************************************************************************)
(* The IP task.                                                             *)
(***************************************************************************)
Idle == loop = {}

First(q) == IF q = << >> THEN {} ELSE {Head(q)}

\* The event is lost when the queue is full, but eExpectedState is set.
xSendDHCPEvent(x, e) ==
    /\ d' = [x EXCEPT !.ep[e].expected = x.ep[e].state]
    /\ events' = IF Len(events) < QueueLength THEN Append(events, e) ELSE events

\* vCheckNetworkTimers: the timer of an end-point has expired, and is reloaded.
TimerExpires(e) ==
    /\ Idle /\ d.ep[e].timer
    /\ xSendDHCPEvent(d, e)
    /\ UNCHANGED <<loop, granted, downs>>

\* A packet that can arrive: an answer to what the end-point has sent under its
\* current transaction id, or an offer or a late ACK with another id, of an older
\* transaction or of another client.
MayArrive(p) ==
    IF p.current
    THEN CASE p.type = "OFFER" -> "discover" \in d.sent[p.to]
           [] p.type = "ACK"   -> p.from \in d.sent[p.to]
           [] p.type = "NAK"   -> Naks /\ d.sent[p.to] \cap Server # {}
    ELSE p.type \in {"OFFER", "ACK"} /\ d.ep[p.to].socket

\* xProcessReceivedUDPPacket_IPv4 for the port of the DHCP socket.
Receive(p) ==
    /\ Idle /\ d.open /\ Len(d.rx) < MaxPackets
    /\ MayArrive(p)
    /\ LateReplies \/ d.ep[p.to].socket
    /\ xSendDHCPEvent([d EXCEPT !.rx = Append(@, p)], p.to)
    /\ granted' = [granted EXCEPT ![p.to] = IF p.current /\ p.type = "ACK"
                                            THEN @ \cup {p.from} ELSE @]
    /\ UNCHANGED <<loop, downs>>

\* prvCallDHCP_RA_Handler: vDHCPProcess starts on the next event.  With a
\* socket it goes through the packets first.
HandleEvent(c) ==
    /\ Idle /\ events # << >>
    /\ LET e == Head(events)
       IN  IF d.ep[e].state = d.ep[e].expected /\ d.ep[e].socket
           THEN loop' = {[ep |-> e, process |-> TRUE]} /\ d' = d
           ELSE loop' = {} /\ d' = vDHCPProcessEndPoint(d, e, FALSE, c)
    /\ events' = Tail(events)
    /\ UNCHANGED <<granted, downs>>

\* The end-points that the first packet in the socket is for.
Target_AnyId(x) ==
    {e \in EndPoint : Head(x.rx).to = e /\ x.ep[e].state # "eLeasedAddress"}

Target(x) ==
    {e \in EndPoint : /\ Head(x.rx).current /\ Head(x.rx).to = e
                      /\ x.ep[e].state # "eLeasedAddress"}

\* vDHCPProcess looks at the next packet in the socket.
NextPacket(l, c) ==
    /\ d.ep[l.ep].socket /\ d.rx # << >>
    /\ \/ \E e \in Target(d) :
             /\ d.ep[e].state = d.ep[e].expected
             /\ d' = vDHCPProcessEndPoint(d, e, TRUE, c)
             /\ loop' = {[l EXCEPT !.process = @ /\ e # l.ep]}
       \/ /\ \A e \in Target(d) : d.ep[e].state # d.ep[e].expected
          /\ d' = Taken(d)
          /\ loop' = loop
    /\ UNCHANGED <<events, granted, downs>>

\* No packet is left, or the socket was closed: the end-point is processed,
\* unless it has been for one of the packets.
LoopEnds(l, c) ==
    /\ ~d.ep[l.ep].socket \/ d.rx = << >>
    /\ d' = IF l.process THEN vDHCPProcessEndPoint(d, l.ep, FALSE, c) ELSE d
    /\ loop' = {}
    /\ UNCHANGED <<events, granted, downs>>

vDHCPProcess == \E l \in loop, c \in Chance : NextPacket(l, c) \/ LoopEnds(l, c)

\* prvProcessNetworkDownEvent: DHCP is stopped (vDHCPStop) and, when the driver
\* has initialised the interface, started again with xReset.
NetworkDown(e, ok, c) ==
    /\ Idle
    /\ LET stop == prvCloseDHCPSocket([d EXCEPT !.ep[e].up = FALSE, !.ep[e].timer = FALSE,
                                                !.ep[e].interface = ok], e)
       IN  d' = IF ~ok THEN stop
                ELSE [prvInitialiseDHCP(stop, e, c) EXCEPT
                         !.ep[e].state = "eWaitingSendFirstDiscover"]
    /\ UNCHANGED <<events, loop, granted>>

InterfaceFails(e) ==
    /\ downs < MaxDown /\ d.ep[e].interface
    /\ downs' = downs + 1
    /\ \E ok \in {TRUE} \cup {"init" \notin MayFail}, c \in Chance : NetworkDown(e, ok, c)

\* At the start, and whenever the network timer finds an interface down.
InterfaceStarts(e) ==
    /\ ~d.ep[e].interface
    /\ UNCHANGED downs
    /\ \E c \in Chance : NetworkDown(e, TRUE, c)

HandleNextEvent == \E c \in Chance : HandleEvent(c)

Next ==
    \/ \E e \in EndPoint : TimerExpires(e) \/ InterfaceFails(e) \/ InterfaceStarts(e)
    \/ \E p \in Packet : Receive(p)
    \/ HandleNextEvent \/ vDHCPProcess

Spec == Init /\ [][Next]_vars

\* The IP task runs, and it does not fail for ever to send a message.
Useful == {c \in Chance : c.sent /\ c.random /\ c.elapsed /\ ~c.clash}

LoopFairness ==
    /\ WF_vars(vDHCPProcess)
    /\ SF_vars(\E l \in loop, c \in Useful : NextPacket(l, c))

LoopSpec == Spec /\ LoopFairness

\* Moreover active timers expire; an interface can be started; when an end-point
\* is processed again and again its period elapses, a message can be sent and a
\* link-local address is free; and a server answers in time some of the
\* requests, if they are repeated for ever.
Processed(e) ==
    \E c \in Useful :
        \/ e \in First(events) /\ ~d.ep[e].socket /\ HandleEvent(c)
        \/ \E l \in loop : l.ep = e /\ l.process /\ LoopEnds(l, c)

AckArrives(e) ==
    /\ d.ep[e].state = "eWaitingAcknowledge"
    /\ \E s \in Server : Receive([to |-> e, from |-> s, type |-> "ACK", current |-> TRUE])

FairSpec ==
    /\ LoopSpec /\ WF_vars(HandleNextEvent)
    /\ \A e \in EndPoint :
          /\ SF_vars(TimerExpires(e) /\ Len(events) < QueueLength)
          /\ SF_vars(InterfaceStarts(e))
          /\ SF_vars(Processed(e) /\ d.ep[e].state # "eWaitingOffer")
          /\ SF_vars(Processed(e) /\ d.ep[e].state = "eWaitingOffer")
          /\ SF_vars(AckArrives(e))

-----------------------------------------------------------------------------
(***************************************************************************)
(* Properties.                                                              *)
(***************************************************************************)
TypeOK ==
    /\ d.ep \in [EndPoint -> [state : State, expected : State, socket : BOOLEAN,
                              doublings : 0 .. MaxDoublings,
                              server : Server \cup {NoAddress},
                              offered : Server \cup {NoAddress, LinkLocal},
                              ip : Server \cup {NoAddress, Default, LinkLocal},
                              up : BOOLEAN, timer : BOOLEAN, interface : BOOLEAN]]
    /\ d.open \in BOOLEAN /\ d.users \in 0 .. Cardinality(EndPoint)
    /\ d.rx \in Seq(Packet) /\ Len(d.rx) <= MaxPackets
    /\ d.sent \in [EndPoint -> SUBSET (Server \cup {"discover"})]
    /\ events \in Seq(EndPoint) /\ Len(events) <= QueueLength
    /\ Cardinality(loop) <= 1
    /\ granted \in [EndPoint -> SUBSET Server]
    /\ downs \in 0 .. MaxDown

\* The shared socket is open exactly as long as an end-point holds it, and
\* xDHCPSocketUserCount is the number of those (prvCreateDHCPSocket and
\* prvCloseDHCPSocket are called on many paths, by several end-points).  No
\* message is sent or awaited without it.
SocketShared ==
    LET users == {e \in EndPoint : d.ep[e].socket}
    IN  /\ d.users = Cardinality(users) /\ (d.open <=> users # {})
        /\ \A e \in EndPoint :
              d.ep[e].state \in {"eWaitingOffer", "eSendDHCPRequest", "eWaitingAcknowledge"}
                  => e \in users

\* An end-point uses an address of a server only when that server has
\* acknowledged a request of this end-point for it: neither an offer, nor an ACK
\* that has another transaction id, because it is late or for another client, nor
\* one for another end-point, is enough (vDHCPProcess, prvProcessDHCPReplies).
LeasedIsGranted ==
    \A e \in EndPoint : d.ep[e].ip \in Server => d.ep[e].ip \in granted[e]

\* As long as the state machine of a started end-point has something left to
\* do, its timer is active: nobody else will call it.
TimerWhileWorking ==
    \A e \in EndPoint :
        d.ep[e].interface /\ d.ep[e].state # "eNotUsingLeasedAddress" => d.ep[e].timer

\* vDHCPProcess goes through the packets in the socket and returns.
LoopTerminates == loop # {} ~> loop = {}

\* Each end-point gets an address in the end, leased, link-local or default,
\* whatever is lost and however often the interface fails.
EventuallyUp == \A e \in EndPoint : []<>(d.ep[e].up /\ d.ep[e].ip # NoAddress)
===========================================================================
