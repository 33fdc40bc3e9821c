---------------------------- MODULE MCNeighbours ----------------------------
(***************************************************************************)
(* Two small caches for TLC, of IPv4 or of IPv6 neighbours; the network is  *)
(* chosen at the start.  Three neighbours for two rows make rows be used    *)
(* again.                                                                   *)
(***************************************************************************)
EXTENDS ARP

CONSTANTS SolicitAge, DelayTime, IncompleteTimeout, MaxProbes, Routers

VARIABLES xNDCache, version

Nd == INSTANCE ND

ASSUME NeighbourAssumption == Nd!NDAssumption

MCvars == <<vars, xNDCache, version>>

\* A step of the one network or of the other.
V4(A) == version = "IPv4" /\ A /\ UNCHANGED <<xNDCache, version>>
V6(A) == version = "IPv6" /\ A /\ UNCHANGED <<xARPCache, version>>

MCInit == Init /\ Nd!Init /\ version \in {"IPv4", "IPv6"}

MCNext == V4(Next) \/ V6(Nd!Next)

\* The ARP and ND timers of the IP task expire again and again.
MCSpec ==
    /\ MCInit /\ [][MCNext]_MCvars
    /\ WF_MCvars(V4(vARPAgeCache))
    /\ WF_MCvars(V6(Nd!vNDAgeCache))

-----------------------------------------------------------------------------
\* The rows, the parked packet, the queue and the buffers have their types.
NeighbourTypeOK == IF version = "IPv4" THEN TypeOK ELSE Nd!TypeOK

\* No address has two rows, of which the older would be found first, whatever
\* was evicted, expired, reserved or cleared.
NeighbourUniqueRow == IF version = "IPv4" THEN UniqueRow ELSE Nd!UniqueRow

\* The network buffer of a packet that waits for an address (pxARPWaitingNetworkBuffer,
\* pxNDWaitingNetworkBuffer) has one owner at any time, and is timed.
NeighbourBuffersKept == IF version = "IPv4" THEN BuffersKept ELSE Nd!BuffersKept

\* A bound IPv6 address keeps its MAC address until the row is given up.
NeighbourBindingKept == Nd!BindingKept

\* A neighbour that has left is forgotten, whatever is sent to its address and
\* whoever uses the address, unless IPv6 advertisements that do not name a MAC
\* address go on confirming it; an ARP request that is not answered is given up
\* (vARPAgeCache, vNDAgeCache).
NeighbourGoneIsForgotten ==
    /\ version = "IPv4" => GoneIsForgotten
    /\ version = "IPv6" => Nd!GoneIsForgotten
=============================================================================
