-------------------------------- MODULE ARP --------------------------------
(***************************************************************************)
(* Address resolution (FreeRTOS_ARP.c): the cache of MAC addresses of IPv4  *)
(* neighbours, and the one received packet that waits until the address of  *)
(* its sender is resolved (pxARPWaitingNetworkBuffer).  The IP task makes   *)
(* every step.                                                              *)
(*                                                                          *)
(* A neighbour's own MAC address has the name of its IP address; Other is   *)
(* the MAC address of a device that uses several of the addresses.  All     *)
(* addresses are on the link, there is one end-point, it is up, and         *)
(* ipconfigARP_STORES_REMOTE_ADDRESSES is 0.  A request takes a network     *)
(* buffer that the driver gives back when it has sent it.  Defending the    *)
(* own address against a second user sends a request and caches nothing.    *)
(***************************************************************************)
EXTENDS Naturals, Sequences, FiniteSets

CONSTANTS IP,           \* the addresses of the neighbours
          Other, None,  \* another MAC address; no address
          Entries,      \* ipconfigARP_CACHE_ENTRIES
          MaxAge,       \* ipconfigMAX_ARP_AGE
          MaxRetrans,   \* ipconfigMAX_ARP_RETRANSMISSIONS
          Buffers,      \* the network buffers
          QueueLength,  \* free places of xNetworkEventQueue
          MayLeave      \* the neighbours that may leave the network

ASSUME ARPAssumption ==
    /\ {Entries, MaxAge, MaxRetrans} \subseteq Nat \ {0}
    /\ {Buffers, QueueLength} \subseteq Nat
    /\ Other \notin IP /\ None \notin IP /\ Other # None
    /\ MayLeave \subseteq IP

VARIABLES
    xARPCache,  \* [1 .. Entries -> Row]
    waiting,    \* pxARPWaitingNetworkBuffer: a packet, or {} for NULL
    timer,      \* xARPResolutionTimer is active
    rx,         \* the packets of eNetworkRxEvents in xNetworkEventQueue
    free,       \* the number of free network buffers
    gone        \* the neighbours that have left the network

vars == <<xARPCache, waiting, timer, rx, free, gone>>

Rows == 1 .. Entries
MAC == IP \cup {Other}
Row == [ip : IP \cup {None}, mac : MAC \cup {None}, valid : BOOLEAN, age : Nat,
        pxEndPoint : BOOLEAN]   \* pxEndPoint is set
Packet == {p \in [from : IP, mac : MAC] : p.mac \in {p.from, Other}}

EmptyRow == [ip |-> None, mac |-> None, valid |-> FALSE, age |-> 0, pxEndPoint |-> FALSE]

Init ==
    /\ xARPCache = [x \in Rows |-> EmptyRow]
    /\ waiting = {} /\ timer = FALSE /\ rx = << >> /\ free = Buffers
    /\ gone = {}

-----------------------------------------------------------------------------
(***************************************************************************)
(* The cache.                                                               *)
(***************************************************************************)
Lowest(rows) == CHOOSE x \in rows : \A y \in rows : x <= y
Highest(rows) == CHOOSE x \in rows : \A y \in rows : y <= x

xIsIPInARPCache(c, ip) ==
    LET rows == {x \in Rows : c[x].ip = ip} IN rows # {} /\ c[Lowest(rows)].valid

prvCacheLookup(c, ip) ==
    LET rows == {x \in Rows : c[x].ip = ip}
    IN  CASE rows = {} -> "eResolutionCacheMiss"
          [] rows # {} /\ c[Lowest(rows)].valid -> "eResolutionCacheHit"
          [] OTHER -> "eResolutionFailed"

vARPRefreshCacheEntryAge(c, p) ==
    LET rows == {x \in Rows : c[x].ip = p.from /\ c[x].mac = p.mac}
    IN  [x \in Rows |-> IF x \in rows /\ x = Lowest(rows)
                        THEN [c[x] EXCEPT !.age = MaxAge] ELSE c[x]]

\* prvFindCacheEntry: where an address is found, and the row to use otherwise.
Exact(c, mac, ip) == {x \in Rows : c[x].ip = ip /\ c[x].mac = mac}
xIpEntry(c, mac, ip) == {x \in Rows : c[x].ip = ip /\ c[x].mac # mac}
xMacEntry(c, mac, ip) == {x \in Rows : c[x].ip # ip /\ c[x].mac = mac}
xUseEntry(c) ==
    Lowest({x \in Rows : \A y \in Rows : c[x].age <= c[y].age})

Refreshed(r, mac, ip) ==
    [r EXCEPT !.ip = ip, !.mac = mac, !.valid = TRUE, !.age = MaxAge, !.pxEndPoint = TRUE]

vARPRefreshCacheEntry_IpOnly(c, mac, ip) ==
    LET rows == {x \in Rows : c[x].ip = ip}
    IN  [c EXCEPT ![IF rows # {} THEN Lowest(rows) ELSE xUseEntry(c)] = Refreshed(@, mac, ip)]

\* A message has shown that ip has this MAC address.
vARPRefreshCacheEntry(c, mac, ip) ==
    LET exact == Exact(c, mac, ip)
        ipRows == xIpEntry(c, mac, ip)
        macRows == xMacEntry(c, mac, ip)
        use == CASE exact # {} -> Lowest(exact)
                 [] exact = {} /\ macRows # {} -> Highest(macRows)
                 [] exact = {} /\ macRows = {} /\ ipRows # {} -> Highest(ipRows)
                 [] OTHER -> xUseEntry(c)
    IN  [x \in Rows |->
            CASE x = use -> Refreshed(c[x], mac, ip)
              [] exact = {} /\ macRows # {} /\ x # use /\ ipRows # {} /\ x = Highest(ipRows) ->
                   EmptyRow
              [] OTHER -> c[x]]

\* vARPRefreshCacheEntry( NULL, ip, NULL ) reserves a row for the answer.  The
\* row keeps the MAC address and the end-point of its former use.
ReserveCacheEntry(c, ip) ==
    IF \E x \in Rows : c[x].ip = ip THEN c
    ELSE [c EXCEPT ![xUseEntry(c)] = [@ EXCEPT !.ip = ip, !.age = MaxRetrans, !.valid = FALSE]]

-----------------------------------------------------------------------------
(***************************************************************************)
(* ARP messages.                                                            *)
(***************************************************************************)
\* A neighbour that has left the network no longer sends.
CanSend(p) == free > 0 /\ (p.from \in gone => p.mac = Other)

\* A request for the own address is answered in the same buffer.
vARPProcessPacketRequest(p) ==
    /\ CanSend(p)
    /\ xARPCache' = vARPRefreshCacheEntry(xARPCache, p.mac, p.from)
    /\ UNCHANGED <<waiting, timer, rx, free, gone>>

\* A gratuitous request refreshes a valid row, it never makes one.
GratuitousRequest(p) ==
    /\ CanSend(p)
    /\ prvCacheLookup(xARPCache, p.from) = "eResolutionCacheHit"
    /\ xARPCache[Lowest({x \in Rows : xARPCache[x].ip = p.from})].pxEndPoint
    /\ xARPCache' = vARPRefreshCacheEntry(xARPCache, p.mac, p.from)
    /\ UNCHANGED <<waiting, timer, rx, free, gone>>

\* A reply, to this device or to another; the parked packet of its sender is
\* handled again, or dropped when the event queue is full.
vARPProcessPacketReply(p, toUs) ==
    /\ CanSend(p)
    /\ xARPCache' = IF toUs \/ xIsIPInARPCache(xARPCache, p.from)
                    THEN vARPRefreshCacheEntry(xARPCache, p.mac, p.from) ELSE xARPCache
    /\ IF \E w \in waiting : w.from = p.from
       THEN /\ waiting' = {} /\ timer' = FALSE
            /\ IF Len(rx) < QueueLength
               THEN rx' = rx \o <<CHOOSE w \in waiting : TRUE>> /\ free' = free
               ELSE rx' = rx /\ free' = free + 1
       ELSE UNCHANGED <<waiting, timer, rx, free>>
    /\ UNCHANGED gone

-----------------------------------------------------------------------------
(***************************************************************************)
(* Packets.                                                                 *)
(***************************************************************************)
\* The driver passes a received packet to the IP task.
ReceivePacket(p) ==
    /\ CanSend(p) /\ Len(rx) < QueueLength
    /\ rx' = Append(rx, p) /\ free' = free - 1
    /\ UNCHANGED <<xARPCache, waiting, timer, gone>>

\* xCheckRequiresARPResolution for a TCP or ICMP packet, or a UDP packet for a
\* socket; a packet from an unresolved sender is parked, one at a time.
HandlePacket ==
    /\ rx # << >>
    /\ rx' = Tail(rx)
    /\ IF xIsIPInARPCache(xARPCache, Head(rx).from)
       THEN /\ xARPCache' = vARPRefreshCacheEntryAge(xARPCache, Head(rx))
            /\ free' = free + 1 /\ UNCHANGED <<waiting, timer>>
       ELSE /\ IF waiting = {} THEN waiting' = {Head(rx)} /\ timer' = TRUE /\ free' = free
               ELSE UNCHANGED <<waiting, timer>> /\ free' = free + 1
            /\ UNCHANGED xARPCache
    /\ UNCHANGED gone

\* A DNS, LLMNR, mDNS or NetBIOS packet for which there is no socket.
HandleNamePacket ==
    /\ rx # << >>
    /\ rx' = Tail(rx) /\ free' = free + 1
    /\ xARPCache' = vARPRefreshCacheEntry(xARPCache, Head(rx).mac, Head(rx).from)
    /\ UNCHANGED <<waiting, timer, gone>>

\* What the comments on eARPGetCacheEntry say: a hit refreshes the age.
SendPacket_Refreshes(ip) ==
    /\ free > 0
    /\ xARPCache' = IF prvCacheLookup(xARPCache, ip) = "eResolutionCacheMiss"
                    THEN ReserveCacheEntry(xARPCache, ip)
                    ELSE [x \in Rows |-> IF xARPCache[x].ip = ip /\ xARPCache[x].valid
                                         THEN [xARPCache[x] EXCEPT !.age = MaxAge]
                                         ELSE xARPCache[x]]
    /\ UNCHANGED <<waiting, timer, rx, free, gone>>

\* vProcessGeneratedUDPPacket_IPv4: the packet is sent, or its buffer is used
\* for a request, or it is dropped because an answer is awaited.
SendPacket(ip) ==
    /\ free > 0
    /\ xARPCache' = IF prvCacheLookup(xARPCache, ip) = "eResolutionCacheMiss"
                    THEN ReserveCacheEntry(xARPCache, ip) ELSE xARPCache
    /\ UNCHANGED <<waiting, timer, rx, free, gone>>

-----------------------------------------------------------------------------
(***************************************************************************)
(* Timers.                                                                  *)
(***************************************************************************)
\* A row that expires keeps all but its IP address.
AgeRow(r) ==
    IF r.age > 0
    THEN [r EXCEPT !.age = @ - 1, !.ip = IF r.age = 1 THEN None ELSE @] ELSE r

vARPAgeCache ==
    /\ xARPCache' = [x \in Rows |-> AgeRow(xARPCache[x])]
    /\ UNCHANGED <<waiting, timer, rx, free, gone>>

\* vCheckNetworkTimers: the parked packet has waited long enough.
ResolutionTimer ==
    /\ timer /\ waiting # {}
    /\ waiting' = {} /\ timer' = FALSE /\ free' = free + 1
    /\ UNCHANGED <<xARPCache, rx, gone>>

\* The network went down: the rows of its end-point are cleared.  Rows that
\* were reserved have no end-point, or the one of their former use.
FreeRTOS_ClearARP ==
    /\ xARPCache' = [x \in Rows |-> IF xARPCache[x].pxEndPoint THEN EmptyRow ELSE xARPCache[x]]
    /\ UNCHANGED <<waiting, timer, rx, free, gone>>

Leave(ip) ==
    /\ ip \in MayLeave \ gone
    /\ gone' = gone \cup {ip}
    /\ UNCHANGED <<xARPCache, waiting, timer, rx, free>>

Next ==
    \/ \E p \in Packet :
          \/ vARPProcessPacketRequest(p) \/ GratuitousRequest(p) \/ ReceivePacket(p)
          \/ \E toUs \in BOOLEAN : vARPProcessPacketReply(p, toUs)
    \/ \E ip \in IP : SendPacket(ip) \/ Leave(ip)
    \/ HandlePacket \/ HandleNamePacket
    \/ vARPAgeCache \/ ResolutionTimer \/ FreeRTOS_ClearARP

Spec == Init /\ [][Next]_vars

\* The ARP timer of the IP task expires again and again.
FairSpec == Spec /\ WF_vars(vARPAgeCache)

-----------------------------------------------------------------------------
(***************************************************************************)
(* Properties.                                                              *)
(***************************************************************************)
TypeOK ==
    /\ xARPCache \in [Rows -> Row]
    /\ waiting \subseteq Packet /\ Cardinality(waiting) <= 1
    /\ timer \in BOOLEAN
    /\ rx \in Seq(Packet) /\ Len(rx) <= QueueLength
    /\ free \in 0 .. Buffers
    /\ gone \subseteq IP

\* An address has at most one row, so that prvCacheLookup, which takes the
\* first, cannot return an older binding than another row has; and a MAC address
\* is in at most one row, whatever was reserved or expired in between.
UniqueRow ==
    \A x, y \in Rows : x # y =>
        /\ xARPCache[x].ip = None \/ xARPCache[x].ip # xARPCache[y].ip
        /\ xARPCache[x].mac = None \/ xARPCache[x].mac # xARPCache[y].mac

\* No network buffer is lost or freed twice on the way from the driver to the
\* parked packet and back to the event queue, and a parked packet has its timer
\* running, so that it cannot stay for ever.
BuffersKept ==
    /\ free + Cardinality(waiting) + Len(rx) = Buffers
    /\ waiting # {} => timer

\* A row is reserved for an address: sending to it gives eResolutionFailed.
Reserved(ip) == \E x \in Rows : xARPCache[x].ip = ip /\ ~xARPCache[x].valid

\* A neighbour that has left the network is forgotten for good in the end, also
\* when the device keeps sending to it and another device uses its address: only
\* traffic with the cached MAC address refreshes a row, and a lookup does not,
\* although FreeRTOS_ARP.c:875-877 says of eARPGetCacheEntry that it does "refresh
\* the ARP cache entry's age".  Nor does a row stay reserved for it: sending
\* again does not prolong a reservation that nobody answers (prvCacheLookup), so
\* that a new request can be made.
GoneIsForgotten ==
    \A ip \in MayLeave :
        /\ ip \in gone ~> [](\A x \in Rows : ~(/\ xARPCache[x].ip = ip /\ xARPCache[x].mac = ip
                                               /\ xARPCache[x].valid))
        /\ Reserved(ip) ~> ~Reserved(ip)
=============================================================================
