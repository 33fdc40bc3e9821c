-------------------------------- MODULE ND --------------------------------
(***************************************************************************)
(* Neighbour discovery (FreeRTOS_ND.c): the cache of MAC addresses of IPv6  *)
(* neighbours with the states of RFC 4861, and the one received packet that *)
(* waits until the address of its sender is resolved                        *)
(* (pxNDWaitingNetworkBuffer).  The IP task makes every step.               *)
(*                                                                          *)
(* A neighbour's own MAC address has the name of its IP address; Other is   *)
(* the MAC address of a second device that answers for the same addresses,  *)
(* as in an address conflict.  All neighbours are on the link, and there is *)
(* one end-point.  A solicitation takes a network buffer that the driver    *)
(* gives back when it has sent it.  What a row keeps after it became free   *)
(* is never read: prvGetFreeNDPCacheEntry clears it.                        *)
(***************************************************************************)
EXTENDS Naturals, Sequences, FiniteSets

CONSTANTS IP,                 \* the addresses of the neighbours
          Other, None,        \* another MAC address; no address
          Entries,            \* ipconfigND_CACHE_ENTRIES
          MaxAge,             \* ipconfigMAX_ND_AGE
          SolicitAge,         \* ndMAX_CACHE_AGE_BEFORE_NEW_ND_SOLICITATION
          DelayTime,          \* ndDELAY_FIRST_PROBE_TIME_SECONDS
          IncompleteTimeout,  \* ndINCOMPLETE_TIMEOUT
          MaxProbes,          \* ipconfigMAX_ND_RE_LOOKUP_ATTEMPTS
          Buffers,            \* the network buffers
          QueueLength,        \* free places of xNetworkEventQueue
          MayLeave,           \* the neighbours that may leave the network
          Routers             \* the neighbours that may be routers

NDAssumption ==
    /\ Entries \in Nat \ {0}
    /\ {MaxAge, SolicitAge, DelayTime, IncompleteTimeout, MaxProbes, Buffers, QueueLength}
           \subseteq Nat
    /\ SolicitAge < MaxAge /\ DelayTime > 0 /\ IncompleteTimeout > 0
    /\ Other \notin IP /\ None \notin IP /\ Other # None
    /\ MayLeave \subseteq IP /\ Routers \subseteq IP

VARIABLES
    xNDCache,   \* [1 .. Entries -> Row]
    waiting,    \* pxNDWaitingNetworkBuffer: a packet, or {} for NULL
    timer,      \* xNDResolutionTimer is active
    rx,         \* the packets of eNetworkRxEvents in xNetworkEventQueue
    free,       \* the number of free network buffers
    gone        \* the neighbours that have left the network

vars == <<xNDCache, waiting, timer, rx, free, gone>>

Rows == 1 .. Entries
MAC == IP \cup {Other}
Bound == {"eND_REACHABLE", "eND_STALE", "eND_DELAY", "eND_PROBE"}
State == Bound \cup {"eND_FREE", "eND_INCOMPLETE"}
Row == [ip : IP \cup {None}, mac : MAC \cup {None}, state : State, age : Nat,
        probes : 0 .. MaxProbes, router : BOOLEAN]
Packet == {p \in [from : IP, mac : MAC] : p.mac \in {p.from, Other}}
NaPacket ==
    {na \in [target : IP, mac : MAC \cup {None}, solicited : BOOLEAN, override : BOOLEAN,
             router : BOOLEAN, multicast : BOOLEAN] :
        na.mac \in {na.target, Other, None} /\ (na.router => na.target \in Routers)}

FreeRow == [ip |-> None, mac |-> None, state |-> "eND_FREE", age |-> 0, probes |-> 0,
            router |-> FALSE]

Init ==
    /\ xNDCache = [x \in Rows |-> FreeRow]
    /\ waiting = {} /\ timer = FALSE /\ rx = << >> /\ free = Buffers
    /\ gone = {}

-----------------------------------------------------------------------------
(***************************************************************************)
(* The cache.                                                               *)
(***************************************************************************)
\* The row of an address: a set with one row, or none.
pxNDPCacheLookup(c, ip) ==
    LET rows == {x \in Rows : c[x].state # "eND_FREE" /\ c[x].ip = ip}
    IN  {x \in rows : \A y \in rows : x <= y}

\* How much a row is worth: 0 is the first to be used for another address.
Rank(r) == CASE r.router -> 3
             [] ~r.router /\ r.state = "eND_STALE" -> 0
             [] ~r.router /\ r.state = "eND_INCOMPLETE" -> 2
             [] OTHER -> 1

Better(c, x, y) ==
    \/ Rank(c[x]) < Rank(c[y])
    \/ Rank(c[x]) = Rank(c[y]) /\ c[x].age < c[y].age
    \/ Rank(c[x]) = Rank(c[y]) /\ c[x].age = c[y].age /\ x <= y

prvGetFreeNDPCacheEntry(c) ==
    LET rows == {x \in Rows : c[x].state = "eND_FREE"}
    IN  IF rows # {} THEN CHOOSE x \in rows : \A y \in rows : x <= y
        ELSE CHOOSE x \in Rows : \A y \in Rows : Better(c, x, y)

\* vNDSendNeighbourSolicitation records what it asks for.
prvNDCacheRecordSolicitation(c, ip) ==
    LET rows == pxNDPCacheLookup(c, ip)
    IN  IF rows = {}
        THEN [c EXCEPT ![prvGetFreeNDPCacheEntry(c)] =
                 [FreeRow EXCEPT !.ip = ip, !.state = "eND_INCOMPLETE",
                                 !.age = IncompleteTimeout]]
        ELSE [x \in Rows |-> IF x \in rows /\ c[x].state = "eND_INCOMPLETE"
                             THEN [c[x] EXCEPT !.age = IncompleteTimeout] ELSE c[x]]

\* Does a lookup give a MAC address?
Hit(c, ip) == \E x \in pxNDPCacheLookup(c, ip) : c[x].state # "eND_INCOMPLETE"

\* A lookup that hits a stale row starts its verification.
prvNDCacheLookup(c, ip) ==
    [x \in Rows |-> IF x \in pxNDPCacheLookup(c, ip) /\ c[x].state = "eND_STALE"
                    THEN [c[x] EXCEPT !.state = "eND_DELAY", !.age = DelayTime] ELSE c[x]]

vNDPCacheUpdate(r, na, state) ==
    [r EXCEPT !.mac = na.mac, !.state = state, !.age = MaxAge, !.probes = 0,
              !.router = na.router]

\* A verification that is under way is not restarted.
vNDPCacheSetState(r, state) ==
    CASE state = "eND_REACHABLE" -> [r EXCEPT !.state = state, !.age = MaxAge, !.probes = 0]
      [] state = "eND_STALE"     -> [r EXCEPT !.state = state, !.age = MaxAge]
      [] state = "eND_PROBE" /\ r.state \in {"eND_DELAY", "eND_PROBE"} ->
           [r EXCEPT !.state = state]
      [] OTHER -> [r EXCEPT !.state = state, !.age = 1, !.probes = 0]

\* Traffic from a neighbour with the known MAC address confirms the row.
vNDRefreshCacheEntryAge(c, p) ==
    [x \in Rows |-> IF /\ x \in pxNDPCacheLookup(c, p.from)
                       /\ c[x].state # "eND_INCOMPLETE" /\ c[x].mac = p.mac
                    THEN [c[x] EXCEPT !.state = "eND_REACHABLE", !.age = MaxAge, !.probes = 0]
                    ELSE c[x]]

-----------------------------------------------------------------------------
(***************************************************************************)
(* Neighbour advertisements.                                                *)
(***************************************************************************)
\* The other checks of prvIsValidNa are about malformed messages.
prvIsValidNa(na) == ~(na.multicast /\ na.solicited)

prvDetermineAction_Override(na, r) ==
    CASE r.state = "eND_INCOMPLETE" /\ na.mac = None -> "eNA_DROP"
      [] r.state # "eND_INCOMPLETE" /\ (na.mac = None \/ na.mac = r.mac) ->
           IF na.solicited THEN "eNA_CONFIRM_REACHABLE" ELSE "eNA_MAINTAIN"
      [] OTHER -> IF na.solicited THEN "eNA_UPDATE_REACHABLE" ELSE "eNA_UPDATE_STALE"

prvDetermineAction(na, r) ==
    CASE r.state = "eND_INCOMPLETE" /\ na.mac = None -> "eNA_DROP"
      [] r.state = "eND_INCOMPLETE" /\ na.mac # None ->
           IF na.solicited THEN "eNA_UPDATE_REACHABLE" ELSE "eNA_UPDATE_STALE"
      [] r.state # "eND_INCOMPLETE" /\ (na.mac = None \/ na.mac = r.mac) ->
           IF na.solicited THEN "eNA_CONFIRM_REACHABLE" ELSE "eNA_MAINTAIN"
      [] r.state # "eND_INCOMPLETE" /\ na.mac \notin {None, r.mac} /\ ~na.override ->
           IF na.solicited /\ r.state = "eND_REACHABLE"
           THEN "eNA_REJECT_MAC_SET_STALE" ELSE "eNA_MAINTAIN"
      [] OTHER -> "eNA_REJECT_MAC_PROBE"

ApplyNa(na, r, action) ==
    CASE action = "eNA_UPDATE_REACHABLE"     -> vNDPCacheUpdate(r, na, "eND_REACHABLE")
      [] action = "eNA_UPDATE_STALE"         -> vNDPCacheUpdate(r, na, "eND_STALE")
      [] action = "eNA_CONFIRM_REACHABLE"    -> vNDPCacheSetState(r, "eND_REACHABLE")
      [] action = "eNA_REJECT_MAC_SET_STALE" -> vNDPCacheSetState(r, "eND_STALE")
      [] action = "eNA_REJECT_MAC_PROBE"     -> vNDPCacheSetState(r, "eND_PROBE")
      [] OTHER -> r

\* The parked packet is handled again when its sender is resolved; it is
\* dropped when the event queue is full.
vNDCheckWaitingPacket(ip) ==
    IF \E p \in waiting : p.from = ip
    THEN /\ waiting' = {} /\ timer' = FALSE
         /\ IF Len(rx) < QueueLength
            THEN rx' = rx \o <<CHOOSE p \in waiting : TRUE>> /\ free' = free
            ELSE rx' = rx /\ free' = free + 1
    ELSE UNCHANGED <<waiting, timer, rx, free>>

\* A neighbour that has left the network no longer sends.  The second device may
\* answer for it, with its own MAC address or without any (no target
\* link-layer option).
CanSend(ip, mac) == ip \in gone => mac # ip

prvProcessNA(na) ==
    /\ free > 0 /\ CanSend(na.target, na.mac) /\ prvIsValidNa(na)
    /\ \E x \in pxNDPCacheLookup(xNDCache, na.target) :
          LET action == prvDetermineAction(na, xNDCache[x])
          IN  /\ xNDCache' = [xNDCache EXCEPT ![x] = ApplyNa(na, @, action)]
              /\ IF action \in {"eNA_UPDATE_REACHABLE", "eNA_UPDATE_STALE",
                                "eNA_CONFIRM_REACHABLE"}
                 THEN vNDCheckWaitingPacket(na.target)
                 ELSE UNCHANGED <<waiting, timer, rx, free>>
    /\ UNCHANGED gone

-----------------------------------------------------------------------------
(***************************************************************************)
(* Packets.                                                                 *)
(***************************************************************************)
\* The driver passes a received UDP or TCP packet to the IP task.
ReceivePacket(p) ==
    /\ free > 0 /\ Len(rx) < QueueLength
    /\ CanSend(p.from, p.mac)
    /\ rx' = Append(rx, p) /\ free' = free - 1
    /\ UNCHANGED <<xNDCache, waiting, timer, gone>>

\* xCheckRequiresNDResolution, and what prvProcessEthernetPacket does with the
\* answer: a packet from an unresolved sender is parked, one at a time.
HandlePacket ==
    /\ rx # << >>
    /\ rx' = Tail(rx)
    /\ IF Hit(xNDCache, Head(rx).from)
       THEN /\ xNDCache' = vNDRefreshCacheEntryAge(
                              prvNDCacheLookup(xNDCache, Head(rx).from), Head(rx))
            /\ free' = free + 1
            /\ UNCHANGED <<waiting, timer>>
       ELSE /\ xNDCache' = IF free > 0
                           THEN prvNDCacheRecordSolicitation(xNDCache, Head(rx).from)
                           ELSE xNDCache
            /\ IF waiting = {} THEN waiting' = {Head(rx)} /\ timer' = TRUE /\ UNCHANGED free
               ELSE UNCHANGED <<waiting, timer>> /\ free' = free + 1
    /\ UNCHANGED gone

\* vProcessGeneratedUDPPacket_IPv6: the packet is sent, or its buffer is used
\* for a solicitation.
SendPacket(ip) ==
    /\ free > 0
    /\ xNDCache' = IF Hit(xNDCache, ip) THEN prvNDCacheLookup(xNDCache, ip)
                   ELSE prvNDCacheRecordSolicitation(xNDCache, ip)
    /\ UNCHANGED <<waiting, timer, rx, free, gone>>

-----------------------------------------------------------------------------
(***************************************************************************)
(* Timers.                                                                  *)
(***************************************************************************)
\* One more solicitation, or no more.  Sending one changes the age of an
\* incomplete row, which is set again after it.
Probe_Unlimited(r) == [r EXCEPT !.probes = @ + 1, !.age = 1]

Probe(r) == IF r.probes < MaxProbes THEN [r EXCEPT !.probes = @ + 1, !.age = 1] ELSE FreeRow

AgeRow(row) ==
    LET r == [row EXCEPT !.age = IF @ > 0 THEN @ - 1 ELSE 0]
    IN  CASE r.state \in {"eND_INCOMPLETE", "eND_PROBE"} /\ r.age = 0 -> Probe(r)
          [] r.state = "eND_REACHABLE" /\ r.age <= SolicitAge ->
               [r EXCEPT !.state = "eND_STALE", !.age = MaxAge]
          [] r.state = "eND_DELAY" /\ r.age = 0 ->
               [r EXCEPT !.state = "eND_PROBE", !.probes = 0, !.age = 1]
          [] r.state \in {"eND_STALE", "eND_FREE"} /\ r.age = 0 -> FreeRow
          [] OTHER -> r

\* Every row ages; a parked packet whose sender cannot be resolved is dropped.
vNDAgeCache_Leak ==
    /\ xNDCache' = [x \in Rows |-> AgeRow(xNDCache[x])]
    /\ IF \E x \in Rows, p \in waiting :
             xNDCache[x].state = "eND_INCOMPLETE" /\ xNDCache'[x] = FreeRow
             /\ xNDCache[x].ip = p.from
       THEN waiting' = {} /\ timer' = FALSE ELSE UNCHANGED <<waiting, timer>>
    /\ UNCHANGED <<free, rx, gone>>

vNDAgeCache ==
    /\ xNDCache' = [x \in Rows |-> AgeRow(xNDCache[x])]
    /\ IF \E x \in Rows, p \in waiting :
             xNDCache[x].state = "eND_INCOMPLETE" /\ xNDCache'[x] = FreeRow
             /\ xNDCache[x].ip = p.from
       THEN waiting' = {} /\ timer' = FALSE /\ free' = free + 1
       ELSE UNCHANGED <<waiting, timer, free>>
    /\ UNCHANGED <<rx, gone>>

\* vCheckNetworkTimers: the parked packet has waited long enough.
ResolutionTimer ==
    /\ timer /\ waiting # {}
    /\ waiting' = {} /\ timer' = FALSE /\ free' = free + 1
    /\ UNCHANGED <<xNDCache, rx, gone>>

\* The network goes down.
FreeRTOS_ClearND ==
    /\ xNDCache' = [x \in Rows |-> FreeRow]
    /\ UNCHANGED <<waiting, timer, rx, free, gone>>

Leave(ip) ==
    /\ ip \in MayLeave \ gone
    /\ gone' = gone \cup {ip}
    /\ UNCHANGED <<xNDCache, waiting, timer, rx, free>>

Next ==
    \/ \E na \in NaPacket : prvProcessNA(na)
    \/ \E p \in Packet : ReceivePacket(p)
    \/ \E ip \in IP : SendPacket(ip) \/ Leave(ip)
    \/ HandlePacket \/ vNDAgeCache \/ ResolutionTimer \/ FreeRTOS_ClearND

Spec == Init /\ [][Next]_vars

\* The ND timer of the IP task expires again and again.
FairSpec == Spec /\ WF_vars(vNDAgeCache)

-----------------------------------------------------------------------------
(***************************************************************************)
(* Properties.                                                              *)
(***************************************************************************)
TypeOK ==
    /\ xNDCache \in [Rows -> Row]
    /\ waiting \subseteq Packet /\ Cardinality(waiting) <= 1
    /\ timer \in BOOLEAN
    /\ rx \in Seq(Packet) /\ Len(rx) <= QueueLength
    /\ free \in 0 .. Buffers
    /\ gone \subseteq IP

\* An address has at most one row, so no stale row is found before the good
\* one, whatever was evicted, expired or cleared (prvNDCacheRecordSolicitation).
UniqueRow ==
    \A x, y \in Rows : x # y /\ xNDCache[x].state # "eND_FREE"
                         => xNDCache[x].ip # xNDCache[y].ip

\* No network buffer is lost or freed twice on the way from the driver to the
\* parked packet and back to the event queue, and a parked packet has its timer
\* running, so that it cannot stay for ever.
BuffersKept ==
    /\ free + Cardinality(waiting) + Len(rx) = Buffers
    /\ waiting # {} => timer

\* While an address is bound its MAC address does not change: a second device
\* that answers for it makes the row be verified, not replaced ("Keep the
\* cached binding and let NUD settle it", prvDetermineAction).
BindingKept ==
    [][\A x, y \in Rows :
          /\ xNDCache[x].state \in Bound /\ xNDCache'[y].state \in Bound
          /\ xNDCache[x].ip = xNDCache'[y].ip
          => xNDCache[x].mac = xNDCache'[y].mac]_vars

\* A solicited advertisement without a MAC address is handled.  It confirms the
\* row whoever has sent it and whatever its other flags are
\* (eNA_CONFIRM_REACHABLE in prvDetermineAction).
ConfirmUnnamed(ip) ==
    prvProcessNA([target |-> ip, mac |-> None, solicited |-> TRUE, override |-> FALSE,
                  router |-> FALSE, multicast |-> FALSE])

\* A neighbour that has left the network is forgotten for good in the end, also
\* when the device keeps sending to it and another device keeps answering for
\* it: a verification that is under way is never restarted (vNDPCacheSetState),
\* and a lookup does not make a row younger, although FreeRTOS_ND.h:135-137 says
\* of eNDGetCacheEntry that it does "refresh the ND cache entry's age".  The
\* exception is a second device that for ever answers solicitations without its
\* MAC address: each answer confirms the row of the neighbour that has left.
GoneIsForgotten ==
    \A ip \in MayLeave :
        \/ ip \in gone ~> [](\A x \in Rows : ~(/\ xNDCache[x].state \in Bound
                                               /\ xNDCache[x].ip = ip /\ xNDCache[x].mac = ip))
        \/ []<><<ConfirmUnnamed(ip)>>_vars
===========================================================================
