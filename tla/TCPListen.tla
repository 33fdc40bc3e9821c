----------------------------- MODULE TCPListen -----------------------------
(***************************************************************************)
(* The life of the sockets of one TCP server: a listening socket, and for   *)
(* every client a child socket that the IP task creates (prvHandleListen,   *)
(* prvTCPSocketCopy), that becomes connected, is handed to the user task by *)
(* FreeRTOS_accept, and is freed either by the user (FreeRTOS_closesocket)  *)
(* or, when nobody owns it yet, by the IP task (vTCPStateChange,            *)
(* vSocketCloseNextTime).                                                   *)
(*                                                                          *)
(* The IP task is a loop: it looks at the timers (a walk over the bound     *)
(* sockets), closes the socket that was put aside, and handles one event.   *)
(* The user task runs in between.  A client is its own child socket: the    *)
(* two are created and looked up together.                                  *)
(***************************************************************************)
EXTENDS Lists

CONSTANTS Client,       \* the clients, and the sockets they are given
          Backlog,      \* the argument of FreeRTOS_listen
          Coincide,     \* may a socket time out that precedes, in the list of
                        \* bound sockets, the one that is put aside?
          Preempt       \* may the user task preempt xTCPCheckNewClient?

ASSUME ListenAssumption ==
    /\ IsFiniteSet(Client) /\ Backlog \in Nat
    /\ {Coincide, Preempt} \subseteq BOOLEAN
    /\ Client \cap {"eTCPAcceptEvent", "eSocketCloseEvent"} = {}

VARIABLES
    tcp,      \* the sockets, as shared by both tasks (a record, see Init)
    server,   \* listening socket: "none", "listen", or "closing" once the user
              \* has posted its eSocketCloseEvent
    ip,       \* the IP task: where it is, xTCPTimerCheck's pxIterator, and
              \* xTCPCheckNewClient's pxFound
    events,   \* xNetworkEventQueue: the events that the user task posted
    owned,    \* the sockets that the user task holds
    user,     \* the task in FreeRTOS_accept: "ready" or "waiting"
    wake      \* eSOCKET_ACCEPT in the event group of the listening socket

vars == <<tcp, server, ip, events, owned, user, wake>>

NULL == {}            \* a pointer is a set with at most one element

Listening == server \in {"listen", "closing"}

\* The sockets that nobody owns yet: bPassQueued or bPassAccept is set.
Orphans(t) == t.queued \cup t.acceptable

First(q) == IF q = << >> THEN NULL ELSE {Head(q)}

\* listGET_NEXT: the item after s in the list of bound sockets.
NextBound(t, s) ==
    {t.bound[i + 1] : i \in {j \in 1 .. Len(t.bound) - 1 : t.bound[j] = s}}

-----------------------------------------------------------------------------
(***************************************************************************)
(* Operations on the sockets.                                               *)
(***************************************************************************)
\* The child gives back its place in the backlog of the listening socket.
prvTCPSetSocketCount(t) ==
    [t EXCEPT !.count = IF Listening /\ @ # 0 THEN @ - 1 ELSE @]

\* A child socket is removed from the list and freed.
vSocketClose_StillBound(t, s) ==
    [prvTCPSetSocketCount(t) EXCEPT
        !.state[s] = "free", !.queued = @ \ {s}, !.acceptable = @ \ {s}]

vSocketClose(t, s) ==
    [prvTCPSetSocketCount(t) EXCEPT
        !.state[s] = "free",
        !.bound = Without(@, {s}),
        !.queued = @ \ {s}, !.acceptable = @ \ {s}]

\* Put socket p (or NULL) aside, and close the one that was put aside before.
vSocketCloseNextTime_Forget(t, p) == [t EXCEPT !.pending = p]

vSocketCloseNextTime(t, p) ==
    [(IF t.pending # NULL /\ t.pending # p
      THEN vSocketClose(t, CHOOSE s \in t.pending : TRUE) ELSE t) EXCEPT !.pending = p]

\* vTCPStateChange of a child to eESTABLISHED: from now on it may be accepted.
ToConnected(t, s) ==
    [t EXCEPT !.state[s] = "eESTABLISHED",
              !.peer = IF @ = NULL THEN {s} ELSE @,
              !.queued = @ \ {s},
              !.acceptable = @ \cup {s}]

\* vTCPStateChange to eCLOSED or eCLOSE_WAIT: a socket that nobody owns is
\* no longer offered to the user (vTCPRemoveTCPChild) and is put aside.
ToClosed_KeepFlags(t, s) ==
    LET c == [t EXCEPT !.state[s] = "eCLOSED"]
    IN  IF s \notin Orphans(t) THEN c ELSE vSocketCloseNextTime(c, {s})

ToClosed(t, s) ==
    LET c == [t EXCEPT !.state[s] = "eCLOSED"]
    IN  IF s \notin Orphans(t) THEN c
        ELSE vSocketCloseNextTime([c EXCEPT !.peer = @ \ {s}, !.queued = @ \ {s},
                                            !.acceptable = @ \ {s}], {s})

\* A child for a new client, with bPassQueued set and in state eSYN_RECEIVED.
prvTCPSocketCopy(t, s) ==
    [t EXCEPT !.state[s] = "eSYN_RECEIVED",
              !.queued = @ \cup {s},
              !.count = @ + 1,
              !.peer = IF @ = NULL THEN {s} ELSE @,
              !.bound = Append(@, s)]

\* The listening socket is closed, and every child that nobody owns with it.
CloseServer(t) ==
    [t EXCEPT !.state = [s \in Client |-> IF s \in Orphans(t) THEN "free" ELSE t.state[s]],
              !.bound = Without(@, Orphans(t)),
              !.queued = {}, !.acceptable = {}, !.peer = NULL, !.count = 0]

-----------------------------------------------------------------------------
(***************************************************************************)
(* The IP task: the timers.                                                 *)
(***************************************************************************)
\* vCheckNetworkTimers: the walk is made when the TCP timer has expired or the
\* IP task is about to sleep.
vCheckNetworkTimers(expired) ==
    /\ ip.pc = "timers"
    /\ ip' = [ip EXCEPT !.pc = "walk", !.iterator = IF expired THEN First(tcp.bound) ELSE NULL]
    /\ UNCHANGED <<tcp, server, events, owned, user, wake>>

\* xTCPTimerCheck and prvTCPStatusAgeCheck for one socket: pxIterator is
\* advanced first.  aged: the socket was too long in a state that must not last.
xTCPTimerCheck(s, aged) ==
    /\ ip.pc = "walk" /\ ip.iterator = {s}
    /\ aged => /\ tcp.state[s] \in {"eSYN_RECEIVED", "eLAST_ACK"}
               /\ Coincide \/ tcp.pending \cap NextBound(tcp, s) = {}
    /\ ip' = [ip EXCEPT !.iterator = NextBound(tcp, s)]
    /\ tcp' = IF aged THEN ToClosed(tcp, s) ELSE tcp
    /\ UNCHANGED <<server, events, owned, user, wake>>

\* The end of the walk, and vSocketCloseNextTime( NULL ).
TimersDone ==
    /\ ip.pc = "walk" /\ ip.iterator = NULL
    /\ ip' = [ip EXCEPT !.pc = "event"]
    /\ tcp' = vSocketCloseNextTime(tcp, NULL)
    /\ UNCHANGED <<server, events, owned, user, wake>>

-----------------------------------------------------------------------------
(***************************************************************************)
(* The IP task: a packet arrives (xProcessReceivedTCPPacket).               *)
(***************************************************************************)
Handled == ip' = [ip EXCEPT !.pc = "timers"]

\* A SYN for the listening socket (prvHandleListen).  When the backlog is full
\* it is answered with a RST, and nothing changes.
prvHandleListen(s) ==
    /\ ip.pc = "event" /\ Listening
    /\ tcp.state[s] = "free"
    /\ tcp.count < Backlog
    /\ tcp' = prvTCPSocketCopy(tcp, s)
    /\ Handled
    /\ UNCHANGED <<server, events, owned, user, wake>>

\* The ACK that completes the handshake.
prvHandleSynReceived(s) ==
    /\ ip.pc = "event" /\ tcp.state[s] = "eSYN_RECEIVED"
    /\ tcp' = ToConnected(tcp, s)
    /\ wake' = TRUE
    /\ Handled
    /\ UNCHANGED <<server, events, owned, user>>

\* The client's FIN is accepted.
prvTCPHandleFin(s) ==
    /\ ip.pc = "event" /\ tcp.state[s] = "eESTABLISHED"
    /\ tcp' = [tcp EXCEPT !.state[s] = "eLAST_ACK"]
    /\ Handled
    /\ UNCHANGED <<server, events, owned, user, wake>>

\* A RST, an unexpected packet during the handshake, or the last ACK.
RecvReset(s) ==
    /\ ip.pc = "event"
    /\ tcp.state[s] \in {"eSYN_RECEIVED", "eESTABLISHED", "eLAST_ACK"}
    /\ tcp' = ToClosed(tcp, s)
    /\ Handled
    /\ UNCHANGED <<server, events, owned, user, wake>>

-----------------------------------------------------------------------------
(***************************************************************************)
(* The IP task: an event of the user task.                                  *)
(***************************************************************************)
NoEvent ==
    /\ ip.pc = "event" /\ events = << >>
    /\ Handled
    /\ UNCHANGED <<tcp, server, events, owned, user, wake>>

\* eTCPAcceptEvent: xTCPCheckNewClient looks for another client...
xTCPCheckNewClient ==
    /\ ip.pc = "event" /\ events # << >> /\ Head(events) = "eTCPAcceptEvent"
    /\ LET rows == {i \in 1 .. Len(tcp.bound) : tcp.bound[i] \in tcp.acceptable}
           found == {tcp.bound[i] : i \in {j \in rows : \A k \in rows : j <= k}}
       IN  ip' = [ip EXCEPT !.pc = IF found = NULL THEN "timers" ELSE "found", !.found = found]
    /\ events' = Tail(events)
    /\ UNCHANGED <<tcp, server, owned, user, wake>>

\* ... and makes it the next one to be accepted.
LinkNewClient_NoWake ==
    /\ ip.pc = "found"
    /\ tcp' = [tcp EXCEPT !.peer = ip.found]
    /\ ip' = [ip EXCEPT !.pc = "timers", !.found = NULL]
    /\ UNCHANGED <<server, events, owned, user, wake>>

LinkNewClient ==
    /\ ip.pc = "found"
    /\ tcp' = [tcp EXCEPT !.peer = ip.found]
    /\ wake' = TRUE
    /\ ip' = [ip EXCEPT !.pc = "timers", !.found = NULL]
    /\ UNCHANGED <<server, events, owned, user>>

\* eSocketCloseEvent for a child or for the listening socket.
CloseEvent ==
    /\ ip.pc = "event" /\ events # << >> /\ Head(events) # "eTCPAcceptEvent"
    /\ IF Head(events) = "eSocketCloseEvent"
       THEN tcp' = CloseServer(tcp) /\ server' = "none"
       ELSE tcp' = vSocketClose(tcp, Head(events)) /\ UNCHANGED server
    /\ events' = Tail(events)
    /\ Handled
    /\ UNCHANGED <<owned, user, wake>>

-----------------------------------------------------------------------------
(***************************************************************************)
(* The user task.                                                           *)
(***************************************************************************)
UserRuns == Preempt \/ ip.pc # "found"

\* prvAcceptWaitClient, with the scheduler suspended, and its caller.
FreeRTOS_accept ==
    /\ UserRuns /\ server = "listen" /\ user = "ready"
    /\ IF tcp.peer \cap tcp.acceptable # {}
       THEN /\ tcp' = [tcp EXCEPT !.peer = NULL, !.acceptable = @ \ tcp.peer]
            /\ owned' = owned \cup tcp.peer
            /\ events' = Append(events, "eTCPAcceptEvent")
            /\ UNCHANGED user
       ELSE user' = "waiting" /\ UNCHANGED <<tcp, owned, events>>
    /\ UNCHANGED <<server, ip, wake>>

\* xEventGroupWaitBits returns and clears the bit.
AcceptWakesUp ==
    /\ UserRuns /\ user = "waiting" /\ wake
    /\ user' = "ready" /\ wake' = FALSE
    /\ UNCHANGED <<tcp, server, ip, events, owned>>

\* The user closes a client's socket, or the listening socket.
FreeRTOS_closesocket(s) ==
    /\ UserRuns /\ s \in owned
    /\ owned' = owned \ {s}
    /\ events' = Append(events, s)
    /\ UNCHANGED <<tcp, server, ip, user, wake>>

CloseListening ==
    /\ UserRuns /\ server = "listen" /\ user = "ready"
    /\ server' = "closing"
    /\ events' = Append(events, "eSocketCloseEvent")
    /\ UNCHANGED <<tcp, ip, owned, user, wake>>

\* A new listening socket.  FreeRTOS_bind fails with EADDRINUSE as long as a
\* bound socket has the port number, be it a child of an earlier server.
FreeRTOS_listen_Rebind ==
    /\ UserRuns /\ server = "none"
    /\ server' = "listen" /\ wake' = FALSE
    /\ UNCHANGED <<tcp, ip, events, owned, user>>

FreeRTOS_listen ==
    /\ UserRuns /\ server = "none" /\ tcp.bound = << >>
    /\ server' = "listen" /\ wake' = FALSE
    /\ UNCHANGED <<tcp, ip, events, owned, user>>

-----------------------------------------------------------------------------
Init ==
    /\ tcp = [state      |-> [s \in Client |-> "free"],  \* eTCPState
              bound      |-> << >>,   \* xBoundTCPSocketsList, without the server
              queued     |-> {},      \* the sockets with bPassQueued
              acceptable |-> {},      \* the sockets with bPassAccept
              peer       |-> NULL,    \* pxPeerSocket of the listening socket
              count      |-> 0,       \* its usChildCount
              pending    |-> NULL]    \* xSocketToClose
    /\ server = "none"
    /\ ip = [pc |-> "timers", iterator |-> NULL, found |-> NULL]
    /\ events = << >> /\ owned = {} /\ user = "ready" /\ wake = FALSE

Packet(s) ==
    \/ prvHandleListen(s) \/ prvHandleSynReceived(s)
    \/ prvTCPHandleFin(s) \/ RecvReset(s)

Timers ==
    \/ \E expired \in BOOLEAN : vCheckNetworkTimers(expired)
    \/ \E s \in Client, aged \in BOOLEAN : xTCPTimerCheck(s, aged)
    \/ TimersDone

UserEvent == xTCPCheckNewClient \/ LinkNewClient \/ CloseEvent

Next ==
    \/ Timers \/ NoEvent \/ UserEvent
    \/ \E s \in Client : Packet(s)
    \/ FreeRTOS_accept \/ AcceptWakesUp \/ FreeRTOS_listen \/ CloseListening
    \/ \E s \in Client : FreeRTOS_closesocket(s)

Spec == Init /\ [][Next]_vars

(***************************************************************************)
(* Fairness.  The IP task is scheduled and its queue is first-in first-out, *)
(* so that an event of the user is handled however many packets arrive.     *)
(* The user task calls FreeRTOS_accept again and again.  Time passes: the   *)
(* TCP timer expires again and again, also when no socket is put aside, and *)
(* a socket that stays in a state that must not last becomes too old for    *)
(* it.                                                                      *)
(***************************************************************************)
FairSpec ==
    /\ Spec
    /\ WF_vars(Timers) /\ WF_vars(NoEvent)
    /\ SF_vars(UserEvent)
    /\ WF_vars(FreeRTOS_accept \/ AcceptWakesUp)
    /\ SF_vars(tcp.pending = NULL /\ vCheckNetworkTimers(TRUE))
    /\ \A s \in Client : SF_vars(xTCPTimerCheck(s, TRUE))

-----------------------------------------------------------------------------
Live == {s \in Client : tcp.state[s] # "free"}

\* The socket records, the queue and the two tasks have their types.
TypeOK ==
    /\ tcp.state \in [Client -> {"free", "eSYN_RECEIVED", "eESTABLISHED", "eLAST_ACK", "eCLOSED"}]
    /\ ToSet(tcp.bound) = Live /\ Len(tcp.bound) = Cardinality(Live)
    /\ tcp.queued \subseteq Client /\ tcp.acceptable \subseteq Client
    /\ tcp.peer \subseteq Client /\ tcp.pending \subseteq Client
    /\ server \in {"none", "listen", "closing"} /\ user \in {"ready", "waiting"}
    /\ ip.pc \in {"timers", "walk", "event", "found"}
    /\ ToSet(events) \subseteq Client \cup {"eTCPAcceptEvent", "eSocketCloseEvent"}

\* The walk of xTCPTimerCheck never stands at a socket that was freed by what
\* the walk itself did: a socket that times out is closed "in the next cycle".
IteratorAlive == ip.iterator \subseteq Live

\* No pointer outlives its socket.  pxPeerSocket is, "for server socket: child",
\* a socket that exists, so FreeRTOS_accept can read it; and a socket that the
\* user holds, or has handed to the IP task to be closed, is not freed by
\* anybody else, nor is it put aside to be freed.
PointersAlive ==
    /\ tcp.peer \subseteq Live
    /\ owned \cup (ToSet(events) \cap Client) \subseteq Live
    /\ tcp.pending \cap (owned \cup ToSet(events) \cup Orphans(tcp)) = {}
    /\ owned \cap Orphans(tcp) = {}

\* usChildCount is the "number of connections on this port number", and these
\* never exceed the backlog.
ChildCountExact ==
    Listening => tcp.count = Len(tcp.bound) /\ tcp.count <= Backlog

\* No client is linked to the listening socket, and nothing makes the IP task
\* look for one.
Unlinked == tcp.peer = NULL /\ ip.found = NULL /\ "eTCPAcceptEvent" \notin ToSet(events)

\* A connection of which the handshake is complete, "ready to be picked up by
\* the task that called FreeRTOS_accept()", is picked up or closed, unless the
\* client that was linked to the listening socket has been closed before it
\* was accepted: nobody links another one then.
ClientIsAccepted ==
    \A s \in Client : s \in tcp.acceptable ~> s \notin tcp.acceptable \/ Unlinked

\* A socket that nobody owns and that is not connected does not stay: it
\* becomes connected or its memory is given back.
NoOrphanLeft ==
    \A s \in Client :
        (s \notin owned /\ tcp.state[s] \in {"eSYN_RECEIVED", "eCLOSED"})
            ~> (tcp.state[s] \in {"free", "eESTABLISHED"} \/ s \in owned)
=============================================================================
