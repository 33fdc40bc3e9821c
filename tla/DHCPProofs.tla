----------------------------- MODULE DHCPProofs -----------------------------
(***************************************************************************)
(* Proofs about the DHCP client, for any number of end-points and servers   *)
(* and every value of the bounds.                                           *)
(***************************************************************************)
EXTENDS DHCP, FiniteSetTheorems, SequenceTheorems, TLAPS

EpType == [state : State, expected : State, socket : BOOLEAN, doublings : 0 .. MaxDoublings,
           server : Server \cup {NoAddress}, offered : Server \cup {NoAddress, LinkLocal},
           ip : Server \cup {NoAddress, Default, LinkLocal},
           up : BOOLEAN, timer : BOOLEAN, interface : BOOLEAN]

DType == [ep : [EndPoint -> EpType], open : BOOLEAN, users : Nat, rx : Seq(Packet),
          sent : [EndPoint -> SUBSET (Server \cup {"discover"})]]

\* The end-points that hold the socket.
Users(x) == {e \in EndPoint : x.ep[e].socket}

Counted(x) == x.users = Cardinality(Users(x)) /\ (x.open <=> Users(x) # {})

\* The packets that can lease an address to an end-point.
Acks(x) == {p \in Packet : p.current /\ p.type = "ACK" /\ \E i \in 1 .. Len(x.rx) : x.rx[i] = p}

\* What processing end-point e may do to the shared data: the count stays
\* right, no packet is added or made current, and no other end-point changes.
Keeps(x, y, e) ==
    /\ y \in DType
    /\ Counted(y)
    /\ Len(y.rx) <= Len(x.rx) /\ Acks(y) \subseteq Acks(x)
    /\ \A f \in EndPoint : f # e => y.ep[f] = x.ep[f]

\* Nobody awaits or sends a message without the socket.
Waits(r) ==
    r.state \in {"eWaitingOffer", "eSendDHCPRequest", "eWaitingAcknowledge"} => r.socket

\* A started end-point with something left to do has an active timer.
Timed(r) == r.interface /\ r.state # "eNotUsingLeasedAddress" => r.timer

\* Whoever asks for a lease, or has one, knows its server.
Served(r) ==
    r.state \in {"eSendDHCPRequest", "eWaitingAcknowledge", "eLeasedAddress"}
        => r.server \in Server

-----------------------------------------------------------------------------
(***************************************************************************)
(* The shared data.                                                         *)
(***************************************************************************)
LEMMA MaxDoublingsNat == MaxDoublings \in Nat /\ 0 \in 0 .. MaxDoublings
BY DHCPAssumption

LEMMA EpTyped == ASSUME NEW x \in DType, NEW e \in EndPoint PROVE x.ep[e] \in EpType
BY DEF DType

\* Taking part of the state twice is the same as taking part once.
LEMMA KeepsTransitive ==
    ASSUME NEW x \in DType, NEW y \in DType, NEW z \in DType, NEW e \in EndPoint,
           Keeps(x, y, e), Keeps(y, z, e)
    PROVE  Keeps(x, z, e)
<1>1. Len(x.rx) \in Nat /\ Len(y.rx) \in Nat /\ Len(z.rx) \in Nat
    BY LenProperties DEF DType
<1>2. QED BY <1>1 DEF Keeps

LEMMA KeepsReflexive ==
    ASSUME NEW x \in DType, NEW e \in EndPoint, Counted(x)
    PROVE  Keeps(x, x, e)
<1>1. Len(x.rx) \in Nat BY LenProperties DEF DType
<1>2. QED BY <1>1 DEF Keeps

\* The data of end-point e are replaced, but not its share of the socket.
LEMMA SetEndPoint ==
    ASSUME NEW x \in DType, NEW e \in EndPoint, Counted(x), NEW r \in EpType,
           r.socket = x.ep[e].socket
    PROVE  LET y == [x EXCEPT !.ep[e] = r] IN Keeps(x, y, e) /\ y.ep[e] = r
<1> DEFINE y == [x EXCEPT !.ep[e] = r]
<1>1. y \in DType /\ y.ep = [x.ep EXCEPT ![e] = r]
      /\ y.rx = x.rx /\ y.users = x.users /\ y.open = x.open
    BY DEF DType
<1>2. y.ep[e] = r /\ \A f \in EndPoint : f # e => y.ep[f] = x.ep[f]
    BY <1>1 DEF DType
<1>3. Users(y) = Users(x) BY <1>2 DEF Users
<1>4. Counted(y) BY <1>1, <1>3 DEF Counted
<1>5. Len(x.rx) \in Nat BY LenProperties DEF DType
<1> HIDE DEF y
<1>6. QED BY <1>1, <1>2, <1>4, <1>5 DEF Keeps, Acks, y

LEMMA SetSent ==
    ASSUME NEW x \in DType, NEW e \in EndPoint, Counted(x),
           NEW s \in SUBSET (Server \cup {"discover"})
    PROVE  LET y == [x EXCEPT !.sent[e] = s] IN Keeps(x, y, e) /\ y.ep = x.ep
<1> DEFINE y == [x EXCEPT !.sent[e] = s]
<1>1. y \in DType /\ y.ep = x.ep
      /\ y.rx = x.rx /\ y.users = x.users /\ y.open = x.open
    BY DEF DType
<1>2. Users(y) = Users(x) BY <1>1 DEF Users
<1>3. Counted(y) BY <1>1, <1>2 DEF Counted
<1>4. Len(x.rx) \in Nat BY LenProperties DEF DType
<1> HIDE DEF y
<1>5. QED BY <1>1, <1>3, <1>4 DEF Keeps, Acks, y

\* Packets are removed, or replaced by packets of no transaction.
LEMMA SetPackets ==
    ASSUME NEW x \in DType, NEW e \in EndPoint, Counted(x),
           NEW q \in Seq(Packet), Len(q) <= Len(x.rx),
           \A i \in 1 .. Len(q) : q[i].current => \E j \in 1 .. Len(x.rx) : x.rx[j] = q[i]
    PROVE  LET y == [x EXCEPT !.rx = q] IN Keeps(x, y, e) /\ y.ep = x.ep
<1> DEFINE y == [x EXCEPT !.rx = q]
<1>1. y \in DType /\ y.ep = x.ep
      /\ y.rx = q /\ y.users = x.users /\ y.open = x.open
    BY DEF DType
<1>2. Users(y) = Users(x) BY <1>1 DEF Users
<1>3. Counted(y) BY <1>1, <1>2 DEF Counted
<1>4. Acks(y) \subseteq Acks(x) BY <1>1 DEF Acks
<1> HIDE DEF y
<1>5. QED BY <1>1, <1>3, <1>4 DEF Keeps, y

-----------------------------------------------------------------------------
(***************************************************************************)
(* The operations on the socket.                                            *)
(***************************************************************************)
LEMMA Taking ==
    ASSUME NEW x \in DType, NEW e \in EndPoint, Counted(x), x.rx # << >>
    PROVE  Keeps(x, Taken(x), e) /\ Taken(x).ep = x.ep
<1>1. x.rx \in Seq(Packet) BY DEF DType
<1>2. /\ Tail(x.rx) \in Seq(Packet) /\ Len(Tail(x.rx)) = Len(x.rx) - 1
      /\ \A i \in 1 .. Len(Tail(x.rx)) : Tail(x.rx)[i] = x.rx[i + 1]
    BY <1>1, HeadTailProperties
<1>3. Len(x.rx) \in Nat BY <1>1, LenProperties
<1>4. \A i \in 1 .. Len(Tail(x.rx)) : \E j \in 1 .. Len(x.rx) : x.rx[j] = Tail(x.rx)[i]
    BY <1>2, <1>3
<1> DEFINE q == Tail(x.rx)
<1>5. Taken(x) = [x EXCEPT !.rx = q] BY DEF Taken, DType
<1>6. q \in Seq(Packet) /\ Len(q) <= Len(x.rx)
      /\ \A i \in 1 .. Len(q) : q[i].current => \E j \in 1 .. Len(x.rx) : x.rx[j] = q[i]
    BY <1>2, <1>3, <1>4
<1> HIDE DEF q
<1>7. QED BY <1>5, <1>6, SetPackets

LEMMA Closing ==
    ASSUME NEW x \in DType, NEW e \in EndPoint, Counted(x)
    PROVE  /\ Keeps(x, prvCloseDHCPSocket(x, e), e)
           /\ prvCloseDHCPSocket(x, e).ep[e] = [x.ep[e] EXCEPT !.socket = FALSE]
<1> DEFINE y == prvCloseDHCPSocket(x, e)
           r == [x.ep[e] EXCEPT !.socket = FALSE]
           q == IF x.users > 1 THEN x.rx ELSE << >>
           o == x.users > 1
<1>0. IsFiniteSet(Users(x)) BY FS_Subset, DHCPAssumption DEF Users
<1>1. x.users \in Nat /\ (x.users = 0 <=> Users(x) = {})
    BY <1>0, FS_EmptySet, FS_CardinalityType DEF Counted
<1>2. CASE ~x.ep[e].socket
    <2>1. x.ep[e].socket = FALSE BY <1>2, EpTyped DEF EpType
    <2>2. r = x.ep[e] BY <2>1, EpTyped DEF EpType
    <2>3. y = x BY <1>2 DEF prvCloseDHCPSocket
    <2>4. QED BY <2>2, <2>3, KeepsReflexive
<1>3. CASE x.ep[e].socket
    <2>1. e \in Users(x) /\ x.open /\ x.users # 0 BY <1>1, <1>3 DEF Users, Counted
    <2>2. y = [x EXCEPT !.users = x.users - 1, !.open = o, !.rx = q, !.ep[e] = r]
        BY <1>3, <2>1 DEF prvCloseDHCPSocket, DType
    <2>3. r \in EpType /\ r.interface = x.ep[e].interface /\ r.socket = FALSE
        BY EpTyped DEF EpType
    <2>4. o \in BOOLEAN OBVIOUS
    <2>5. q \in Seq(Packet) /\ Len(q) <= Len(x.rx) /\ Len(x.rx) \in Nat
          /\ \A i \in 1 .. Len(q) : q[i] = x.rx[i] /\ i \in 1 .. Len(x.rx)
        <3>1. x.rx \in Seq(Packet) /\ Len(x.rx) \in Nat BY LenProperties DEF DType
        <3>2. QED BY <3>1
    <2>6. x.users - 1 \in Nat BY <1>1, <2>1
    <2> HIDE DEF r, o, q, y
    <2>7. y \in DType /\ y.users = x.users - 1 /\ y.open = o /\ y.rx = q
          /\ y.ep = [x.ep EXCEPT ![e] = r]
        BY <2>2, <2>3, <2>4, <2>5, <2>6 DEF DType
    <2>8. y.ep[e] = r /\ \A f \in EndPoint : f # e => y.ep[f] = x.ep[f]
        BY <2>7 DEF DType
    <2>9. Users(y) = Users(x) \ {e} BY <2>8, <2>3 DEF Users
    <2>10. Cardinality(Users(y)) = Cardinality(Users(x)) - 1 /\ IsFiniteSet(Users(y))
        BY <1>0, <2>1, <2>9, FS_RemoveElement
    <2>11. Users(y) = {} <=> Cardinality(Users(y)) = 0 BY <2>10, FS_EmptySet
    <2>12. Counted(y)
        <3>1. y.open <=> x.users > 1 BY <2>7 DEF o
        <3>2. y.users = Cardinality(Users(y)) /\ (x.users > 1 <=> Cardinality(Users(y)) # 0)
            BY <1>1, <2>1, <2>7, <2>10 DEF Counted
        <3>3. QED BY <2>11, <3>1, <3>2 DEF Counted
    <2>13. Acks(y) \subseteq Acks(x) BY <2>5, <2>7 DEF Acks
    <2>14. QED BY <2>3, <2>5, <2>7, <2>8, <2>12, <2>13 DEF Keeps, y, r
<1>4. QED BY <1>2, <1>3

LEMMA Creating ==
    ASSUME NEW x \in DType, NEW e \in EndPoint, Counted(x)
    PROVE  /\ Keeps(x, prvCreateDHCPSocket(x, e), e)
           /\ prvCreateDHCPSocket(x, e).ep[e] = [x.ep[e] EXCEPT !.socket = TRUE]
<1> DEFINE y == prvCreateDHCPSocket(x, e)
           r == [x.ep[e] EXCEPT !.socket = TRUE]
           o == TRUE
           q == IF x.open THEN x.rx ELSE << >>
<1>0. IsFiniteSet(Users(x)) BY FS_Subset, DHCPAssumption DEF Users
<1>1. x.users \in Nat /\ (x.users = 0 <=> Users(x) = {})
    BY <1>0, FS_EmptySet, FS_CardinalityType DEF Counted
<1>2. CASE x.ep[e].socket
    <2>1. x.ep[e].socket = TRUE BY <1>2, EpTyped DEF EpType
    <2>2. r = x.ep[e] BY <2>1, EpTyped DEF EpType
    <2>3. e \in Users(x) /\ x.open BY <1>2 DEF Users, Counted
    <2>4. y = x BY <1>2, <2>3 DEF prvCreateDHCPSocket
    <2>5. QED BY <2>2, <2>4, KeepsReflexive
<1>3. CASE ~x.ep[e].socket
    <2>1. e \notin Users(x) BY <1>3 DEF Users
    <2>2. y = [x EXCEPT !.users = x.users + 1, !.open = o, !.rx = q, !.ep[e] = r]
        <3>1. CASE ~x.open
            <4>1. x.users + 1 = 1 BY <1>1, <3>1 DEF Counted
            <4>2. QED BY <3>1, <4>1 DEF prvCreateDHCPSocket, DType
        <3>2. CASE x.open
            <4>1. x.open = TRUE BY <3>2 DEF DType
            <4>2. y = [x EXCEPT !.users = x.users + 1, !.ep[e] = r]
                BY <1>3, <3>2 DEF prvCreateDHCPSocket, DType
            <4>3. QED BY <3>2, <4>1, <4>2 DEF DType
        <3>3. QED BY <3>1, <3>2
    <2>3. r \in EpType /\ r.interface = x.ep[e].interface /\ r.socket = TRUE
        BY EpTyped DEF EpType
    <2>4. x.users + 1 \in Nat BY <1>1
    <2>5. q \in Seq(Packet) /\ Len(q) <= Len(x.rx) /\ Len(x.rx) \in Nat
          /\ \A i \in 1 .. Len(q) : q[i] = x.rx[i] /\ i \in 1 .. Len(x.rx)
        <3>1. x.rx \in Seq(Packet) /\ Len(x.rx) \in Nat BY LenProperties DEF DType
        <3>2. QED BY <3>1
    <2>6. o \in BOOLEAN OBVIOUS
    <2> HIDE DEF r, o, q, y
    <2>7. y \in DType /\ y.users = x.users + 1 /\ y.open = o /\ y.rx = q
          /\ y.ep = [x.ep EXCEPT ![e] = r]
        BY <2>2, <2>3, <2>4, <2>5, <2>6 DEF DType
    <2>8. y.ep[e] = r /\ \A f \in EndPoint : f # e => y.ep[f] = x.ep[f]
        BY <2>7 DEF DType
    <2>9. Users(y) = Users(x) \cup {e} BY <2>8, <2>3 DEF Users
    <2>10. Cardinality(Users(y)) = Cardinality(Users(x)) + 1
        BY <1>0, <2>1, <2>9, FS_AddElement
    <2>12. Counted(y) BY <1>1, <2>7, <2>9, <2>10 DEF Counted, o
    <2>13. Acks(y) \subseteq Acks(x) BY <2>5, <2>7 DEF Acks
    <2>14. QED BY <2>3, <2>5, <2>7, <2>8, <2>12, <2>13 DEF Keeps, y, r
<1>4. QED BY <1>2, <1>3

LEMMA Renewing ==
    ASSUME NEW x \in DType, NEW e \in EndPoint, Counted(x)
    PROVE  Keeps(x, NewTransactionId(x, e), e) /\ NewTransactionId(x, e).ep = x.ep
<1> DEFINE q == [i \in DOMAIN x.rx |-> [x.rx[i] EXCEPT !.current = x.rx[i].current /\ x.rx[i].to # e]]
           z == [x EXCEPT !.sent[e] = {}]
<1>1. z \in DType /\ z.rx = x.rx /\ z.ep = x.ep BY DEF DType
<1>2. NewTransactionId(x, e) = [z EXCEPT !.rx = q]
    <2>1. NewTransactionId(x, e) = [x EXCEPT !.sent[e] = {}, !.rx = q]
        BY DEF NewTransactionId
    <2> HIDE DEF q
    <2>2. QED BY <2>1 DEF DType
<1>3. x.rx \in Seq(Packet) /\ DOMAIN x.rx = 1 .. Len(x.rx) /\ Len(x.rx) \in Nat
    BY LenProperties DEF DType
<1>4. ASSUME NEW i \in 1 .. Len(x.rx)
      PROVE  q[i] \in Packet /\ (q[i].current => q[i] = x.rx[i])
    <2>1. x.rx[i] \in Packet BY <1>3, ElementOfSeq
    <2>2. q[i] = [x.rx[i] EXCEPT !.current = x.rx[i].current /\ x.rx[i].to # e]
        BY <1>3, <2>1 DEF Packet
    <2>3. (x.rx[i].current /\ x.rx[i].to # e) \in BOOLEAN OBVIOUS
    <2>4. q[i] \in Packet /\ q[i].current = (x.rx[i].current /\ x.rx[i].to # e)
        BY <2>1, <2>2, <2>3 DEF Packet
    <2>5. ASSUME q[i].current PROVE q[i] = x.rx[i]
        <3>1. x.rx[i].current /\ x.rx[i].to # e BY <2>4, <2>5
        <3>2. x.rx[i].current = TRUE BY <2>1, <3>1 DEF Packet
        <3>3. q[i] = [x.rx[i] EXCEPT !.current = TRUE] BY <2>2, <3>1
        <3>4. QED BY <2>1, <3>2, <3>3 DEF Packet
    <2>6. QED BY <2>4, <2>5
<1>5. q \in Seq(Packet) /\ Len(q) = Len(x.rx)
    <2>1. q \in [1 .. Len(x.rx) -> Packet] BY <1>3, <1>4
    <2>2. QED BY <1>3, <2>1
<1>6. \A i \in 1 .. Len(q) : q[i].current => \E j \in 1 .. Len(z.rx) : z.rx[j] = q[i]
    BY <1>1, <1>4, <1>5
<1>7. Keeps(x, z, e) BY SetSent
<1> HIDE DEF q, z
<1>8. Keeps(z, [z EXCEPT !.rx = q], e) /\ [z EXCEPT !.rx = q].ep = z.ep
    <2>1. Counted(z) /\ Len(q) <= Len(z.rx) BY <1>1, <1>3, <1>5, <1>7 DEF Keeps
    <2>2. QED BY <1>1, <1>5, <1>6, <2>1, SetPackets
<1>9. [z EXCEPT !.rx = q] \in DType BY <1>8 DEF Keeps
<1>10. QED BY <1>1, <1>2, <1>7, <1>8, <1>9, KeepsTransitive

-----------------------------------------------------------------------------
(***************************************************************************)
(* The state machine of one end-point.  Lives says what a handler makes of   *)
(* the data of its own end-point.                                           *)
(***************************************************************************)
\* The address of the end-point is the old one, or not one of a server, or is
\* in G, and the three invariants of an end-point are kept.
Lives(x, y, e, G) ==
    /\ Keeps(x, y, e)
    /\ Waits(x.ep[e]) => Waits(y.ep[e])
    /\ Timed(x.ep[e]) => Timed(y.ep[e])
    /\ Served(x.ep[e]) => Served(y.ep[e])
    /\ y.ep[e].ip \in {x.ep[e].ip, NoAddress, Default, LinkLocal} \cup G

\* A handler that only sets fields of its end-point.
LEMMA Setting ==
    ASSUME NEW x \in DType, NEW e \in EndPoint, Counted(x), NEW r \in EpType, NEW G,
           r.socket = x.ep[e].socket,
           r.ip \in {x.ep[e].ip, NoAddress, Default, LinkLocal} \cup G,
           Timed(x.ep[e]) => Timed(r),
           Waits(x.ep[e]) => Waits(r),
           Served(x.ep[e]) => Served(r)
    PROVE  LET y == [x EXCEPT !.ep[e] = r]
           IN  Lives(x, y, e, G) /\ y \in DType /\ Counted(y) /\ y.ep[e] = r
<1> DEFINE y == [x EXCEPT !.ep[e] = r]
<1>1. Keeps(x, y, e) /\ y.ep[e] = r BY SetEndPoint
<1> HIDE DEF y
<1>2. QED BY <1>1 DEF Lives, Keeps, y

\* The socket is closed in a state that does not need it.
LEMMA ClosingLives ==
    ASSUME NEW x \in DType, NEW e \in EndPoint, Counted(x), Waits([x.ep[e] EXCEPT !.socket = FALSE])
    PROVE  LET y == prvCloseDHCPSocket(x, e) IN Lives(x, y, e, {})
<1> DEFINE y == prvCloseDHCPSocket(x, e)
           r == [x.ep[e] EXCEPT !.socket = FALSE]
<1>1. Keeps(x, y, e) /\ y.ep[e] = r BY Closing
<1>2. x.ep[e] \in EpType BY EpTyped
<1>3. r.ip = x.ep[e].ip /\ r.timer = x.ep[e].timer /\ r.interface = x.ep[e].interface
      /\ r.state = x.ep[e].state /\ r.server = x.ep[e].server
    BY <1>2 DEF EpType
<1>4. Waits(r) OBVIOUS
<1> HIDE DEF y, r
<1>5. QED BY <1>1, <1>3, <1>4 DEF Lives, Timed, Served, y

\* Steps of the same end-point one after the other.
LEMMA LivesTransitive ==
    ASSUME NEW x \in DType, NEW y, NEW z, NEW e \in EndPoint, NEW G,
           Lives(x, y, e, G), Lives(y, z, e, {})
    PROVE  Lives(x, z, e, G)
<1>1. y \in DType /\ z \in DType BY DEF Lives, Keeps
<1>2. Keeps(x, z, e) BY <1>1, KeepsTransitive DEF Lives
<1>3. QED BY <1>2 DEF Lives

LEMMA LivesMonotone ==
    ASSUME NEW x, NEW y, NEW e, NEW G, Lives(x, y, e, {})
    PROVE  Lives(x, y, e, G)
BY DEF Lives

LEMMA LivesSame ==
    ASSUME NEW x \in DType, NEW y, NEW e \in EndPoint, Keeps(x, y, e), y.ep = x.ep
    PROVE  Lives(x, y, e, {}) /\ y \in DType /\ Counted(y)
BY DEF Lives, Keeps

LEMMA LivesReflexive ==
    ASSUME NEW x \in DType, NEW e \in EndPoint, Counted(x)
    PROVE  Lives(x, x, e, {})
BY KeepsReflexive, LivesSame

LEMMA GivingUp ==
    ASSUME NEW x \in DType, NEW e \in EndPoint, Counted(x)
    PROVE  Lives(x, GiveUp(x, e), e, {})
<1> DEFINE r == [x.ep[e] EXCEPT !.ip = Default, !.timer = FALSE, !.up = TRUE,
                                !.state = "eNotUsingLeasedAddress"]
           z == [x EXCEPT !.ep[e] = r]
<1>0. x.ep[e] \in EpType BY EpTyped
<1>1. r \in EpType /\ r.socket = x.ep[e].socket
      /\ r.state = "eNotUsingLeasedAddress" /\ r.ip = Default
    BY <1>0 DEF EpType, State
<1>2. GiveUp(x, e) = prvCloseDHCPSocket(z, e) BY DEF GiveUp, DType
<1>3. [r EXCEPT !.socket = FALSE].state = "eNotUsingLeasedAddress" BY <1>1 DEF EpType
<1> HIDE DEF r
<1>4. Lives(x, z, e, {}) /\ z \in DType /\ Counted(z) /\ z.ep[e] = r
    BY <1>1, Setting DEF Timed, Waits, Served
<1> HIDE DEF z
<1>5. Lives(z, GiveUp(x, e), e, {}) BY <1>2, <1>3, <1>4, ClosingLives DEF Waits
<1>6. QED BY <1>4, <1>5, LivesTransitive

LEMMA LookingUp ==
    ASSUME NEW x \in DType, NEW e \in EndPoint, Counted(x),
           x.ep[e].state # "eNotUsingLeasedAddress"
    PROVE  Lives(x, prvPrepareLinkLayerIPLookUp(x, e), e, {})
<1> DEFINE r == [x.ep[e] EXCEPT !.offered = LinkLocal, !.ip = LinkLocal,
                                !.state = "eGetLinkLayerAddress"]
           z == [x EXCEPT !.ep[e] = r]
<1>0. x.ep[e] \in EpType BY EpTyped
<1>1. r \in EpType /\ r.socket = x.ep[e].socket /\ r.interface = x.ep[e].interface
      /\ r.state = "eGetLinkLayerAddress" /\ r.ip = LinkLocal /\ r.timer = x.ep[e].timer
    BY <1>0 DEF EpType, State
<1>2. prvPrepareLinkLayerIPLookUp(x, e) = prvCloseDHCPSocket(z, e)
    BY DEF prvPrepareLinkLayerIPLookUp, DType
<1>3. [r EXCEPT !.socket = FALSE].state = "eGetLinkLayerAddress" BY <1>1 DEF EpType
<1> HIDE DEF r
<1>4. Lives(x, z, e, {}) /\ z \in DType /\ Counted(z) /\ z.ep[e] = r
    BY <1>1, Setting DEF Timed, Waits, Served
<1> HIDE DEF z
<1>5. Lives(z, prvPrepareLinkLayerIPLookUp(x, e), e, {})
    BY <1>2, <1>3, <1>4, ClosingLives DEF Waits
<1>6. QED BY <1>4, <1>5, LivesTransitive

LEMMA Discovering ==
    ASSUME NEW x \in DType, NEW e \in EndPoint, Counted(x)
    PROVE  LET y == prvSendDHCPDiscover(x, e)
           IN  Lives(x, y, e, {}) /\ y \in DType /\ Counted(y) /\ y.ep = x.ep
<1> DEFINE s == x.sent[e] \cup {"discover"}
<1>1. s \in SUBSET (Server \cup {"discover"}) BY DEF DType
<1>2. prvSendDHCPDiscover(x, e) = [x EXCEPT !.sent[e] = s] BY DEF prvSendDHCPDiscover, DType
<1> HIDE DEF s
<1>3. QED BY <1>1, <1>2, SetSent, LivesSame

LEMMA SendingRequest ==
    ASSUME NEW x \in DType, NEW e \in EndPoint, Counted(x), x.ep[e].server \in Server
    PROVE  LET y == prvSendDHCPRequest(x, e)
           IN  Lives(x, y, e, {}) /\ y \in DType /\ Counted(y) /\ y.ep = x.ep
<1> DEFINE s == x.sent[e] \cup {x.ep[e].server}
<1>1. s \in SUBSET (Server \cup {"discover"}) BY DEF DType
<1>2. prvSendDHCPRequest(x, e) = [x EXCEPT !.sent[e] = s] BY DEF prvSendDHCPRequest, DType
<1> HIDE DEF s
<1>3. QED BY <1>1, <1>2, SetSent, LivesSame

\* SendRequest in an end-point that knows its server and has the socket.
LEMMA Requesting ==
    ASSUME NEW x \in DType, NEW e \in EndPoint, NEW c, Counted(x),
           x.ep[e].server \in Server, Waits(x.ep[e]) => x.ep[e].socket,
           x.ep[e].state # "eNotUsingLeasedAddress"
    PROVE  LET y == SendRequest(x, e, c)
           IN  Lives(x, y, e, {}) /\ y \in DType /\ Counted(y)
<1>1. CASE CanSend(x, e, c)
    <2> DEFINE z == prvSendDHCPRequest(x, e)
               r == [x.ep[e] EXCEPT !.state = "eWaitingAcknowledge", !.doublings = 0]
    <2>1. Lives(x, z, e, {}) /\ z \in DType /\ Counted(z) /\ z.ep = x.ep BY SendingRequest
    <2> HIDE DEF z
    <2>2. SendRequest(x, e, c) = [z EXCEPT !.ep[e] = r]
        BY <1>1, <2>1 DEF SendRequest, DType, z
    <2>3. x.ep[e] \in EpType /\ x.ep[e].socket BY <1>1, EpTyped DEF CanSend
    <2>4. /\ r \in EpType /\ r.socket = x.ep[e].socket /\ r.ip = x.ep[e].ip
          /\ r.timer = x.ep[e].timer /\ r.interface = x.ep[e].interface
          /\ r.server = x.ep[e].server
        BY <2>3, MaxDoublingsNat DEF EpType, State
    <2> HIDE DEF r
    <2> DEFINE y == [z EXCEPT !.ep[e] = r]
    <2>5. Lives(z, y, e, {}) /\ y \in DType /\ Counted(y)
        BY <2>1, <2>3, <2>4, Setting DEF Timed, Waits, Served
    <2>6. QED BY <2>1, <2>2, <2>5, LivesTransitive
<1>2. CASE ~CanSend(x, e, c)
    <2> DEFINE r == [x.ep[e] EXCEPT !.state = "eSendDHCPRequest"]
    <2>1. SendRequest(x, e, c) = [x EXCEPT !.ep[e] = r] BY <1>2 DEF SendRequest, DType
    <2>2. x.ep[e] \in EpType BY EpTyped
    <2>3. /\ r \in EpType /\ r.socket = x.ep[e].socket /\ r.ip = x.ep[e].ip
          /\ r.timer = x.ep[e].timer /\ r.interface = x.ep[e].interface
          /\ r.server = x.ep[e].server
        BY <2>2 DEF EpType, State
    <2> HIDE DEF r
    <2>4. QED BY <2>1, <2>3, Setting DEF Timed, Waits, Served
<1>3. QED BY <1>1, <1>2

LEMMA Initialising ==
    ASSUME NEW x \in DType, NEW e \in EndPoint, NEW c, Counted(x)
    PROVE  LET y == prvInitialiseDHCP(x, e, c)
           IN  /\ Keeps(x, y, e) /\ y.ep[e].ip = x.ep[e].ip
               /\ c.random => y.ep[e].timer
               /\ y.ep[e].interface = x.ep[e].interface
               /\ ~c.random => y = x
<1>1. CASE ~c.random BY <1>1, KeepsReflexive DEF prvInitialiseDHCP
<1>2. CASE c.random
    <2> DEFINE z == NewTransactionId(x, e)
               r == [x.ep[e] EXCEPT !.offered = NoAddress, !.server = NoAddress,
                                    !.doublings = 0, !.timer = TRUE]
               w == [z EXCEPT !.ep[e] = r]
               y == prvInitialiseDHCP(x, e, c)
    <2>1. Keeps(x, z, e) /\ z \in DType /\ Counted(z) /\ z.ep = x.ep BY Renewing DEF Keeps
    <2> HIDE DEF z
    <2>2. y = prvCreateDHCPSocket(w, e)
        <3>1. w = [z EXCEPT !.ep[e].offered = NoAddress, !.ep[e].server = NoAddress,
                            !.ep[e].doublings = 0, !.ep[e].timer = TRUE]
            BY <2>1 DEF DType
        <3>2. QED BY <1>2, <3>1 DEF prvInitialiseDHCP, z
    <2>3. x.ep[e] \in EpType BY EpTyped
    <2>4. /\ r \in EpType /\ r.socket = x.ep[e].socket /\ r.ip = x.ep[e].ip
          /\ r.timer = TRUE /\ r.interface = x.ep[e].interface
        BY <2>3, MaxDoublingsNat DEF EpType
    <2> HIDE DEF r
    <2>5. Keeps(z, w, e) /\ w.ep[e] = r /\ w \in DType /\ Counted(w)
        <3>1. r.socket = z.ep[e].socket BY <2>1, <2>4
        <3>2. Keeps(z, w, e) /\ w.ep[e] = r BY <2>1, <2>4, <3>1, SetEndPoint
        <3>3. QED BY <3>2 DEF Keeps
    <2> HIDE DEF w
    <2>6. Keeps(w, y, e) /\ y.ep[e] = [r EXCEPT !.socket = TRUE]
        BY <2>2, <2>5, Creating
    <2>7. y.ep[e].ip = x.ep[e].ip /\ y.ep[e].timer = TRUE
          /\ y.ep[e].interface = x.ep[e].interface
        BY <2>4, <2>6 DEF EpType
    <2> HIDE DEF y
    <2>8. Keeps(x, y, e) BY <2>1, <2>5, <2>6, KeepsTransitive DEF Keeps
    <2>9. QED BY <1>2, <2>7, <2>8 DEF y
<1>3. QED BY <1>1, <1>2

\* prvInitialiseDHCP is always followed by the same assignment.
LEMMA Starting ==
    ASSUME NEW x \in DType, NEW e \in EndPoint, NEW c, Counted(x)
    PROVE  LET y == [prvInitialiseDHCP(x, e, c) EXCEPT
                        !.ep[e].state = "eWaitingSendFirstDiscover"]
           IN  /\ Keeps(x, y, e) /\ y.ep[e].ip = x.ep[e].ip
               /\ Waits(y.ep[e]) /\ Served(y.ep[e])
               /\ c.random \/ x.ep[e].timer => Timed(y.ep[e])
               /\ y.ep[e].interface = x.ep[e].interface
<1> DEFINE z == prvInitialiseDHCP(x, e, c)
           r == [z.ep[e] EXCEPT !.state = "eWaitingSendFirstDiscover"]
           y == [z EXCEPT !.ep[e] = r]
<1>1. /\ Keeps(x, z, e) /\ z.ep[e].ip = x.ep[e].ip /\ z \in DType /\ Counted(z)
      /\ z.ep[e].interface = x.ep[e].interface
      /\ c.random => z.ep[e].timer
      /\ ~c.random => z = x
    BY Initialising DEF Keeps
<1> HIDE DEF z
<1>2. z.ep[e] \in EpType BY <1>1, EpTyped
<1>3. /\ r \in EpType /\ r.socket = z.ep[e].socket /\ r.ip = z.ep[e].ip
      /\ r.timer = z.ep[e].timer /\ r.interface = z.ep[e].interface
      /\ r.state = "eWaitingSendFirstDiscover"
    BY <1>2 DEF EpType, State
<1> HIDE DEF r
<1>4. Keeps(z, y, e) /\ y.ep[e] = r BY <1>1, <1>3, SetEndPoint
<1>5. [z EXCEPT !.ep[e].state = "eWaitingSendFirstDiscover"] = y BY <1>1 DEF DType, r
<1> HIDE DEF y
<1>6. Keeps(x, y, e) BY <1>1, <1>4, KeepsTransitive DEF Keeps
<1>7. QED BY <1>1, <1>3, <1>4, <1>5, <1>6 DEF z, Waits, Served, Timed

LEMMA FirstDiscover ==
    ASSUME NEW x \in DType, NEW e \in EndPoint, NEW c, Counted(x),
           x.ep[e].state = "eWaitingSendFirstDiscover"
    PROVE  Lives(x, xHandleWaitingFirstDiscover(x, e, c), e, {})
<1>1. CASE c.answer # "eDHCPContinue" \/ ~x.ep[e].socket
    BY <1>1, GivingUp DEF xHandleWaitingFirstDiscover
<1>2. CASE ~(c.answer # "eDHCPContinue" \/ ~x.ep[e].socket)
    <2> DEFINE r == [x.ep[e] EXCEPT !.ip = NoAddress]
               down == [x EXCEPT !.ep[e] = r]
    <2>1. [x EXCEPT !.ep[e].ip = NoAddress] = down BY DEF DType
    <2>2. x.ep[e] \in EpType BY EpTyped
    <2>3. /\ r \in EpType /\ r.socket = x.ep[e].socket /\ r.ip = NoAddress
          /\ r.timer = x.ep[e].timer /\ r.interface = x.ep[e].interface
          /\ r.state = x.ep[e].state /\ r.server = x.ep[e].server
        BY <2>2 DEF EpType
    <2> HIDE DEF r
    <2>4. Lives(x, down, e, {}) /\ down \in DType /\ Counted(down) /\ down.ep[e] = r
        BY <2>3, Setting DEF Timed, Waits, Served
    <2> HIDE DEF down
    <2>5. CASE ~CanSend(x, e, c)
        BY <1>2, <2>1, <2>4, <2>5 DEF xHandleWaitingFirstDiscover
    <2>6. CASE CanSend(x, e, c)
        <3> DEFINE z == prvSendDHCPDiscover(down, e)
                   s == [r EXCEPT !.state = "eWaitingOffer"]
                   y == [z EXCEPT !.ep[e] = s]
        <3>1. Lives(down, z, e, {}) /\ z \in DType /\ Counted(z) /\ z.ep = down.ep
            BY <2>4, Discovering
        <3> HIDE DEF z
        <3>2. /\ s \in EpType /\ s.socket = r.socket /\ s.ip = r.ip
              /\ s.timer = r.timer /\ s.interface = r.interface
              /\ s.state = "eWaitingOffer"
            BY <2>3 DEF EpType, State
        <3>3. [z EXCEPT !.ep[e].state = "eWaitingOffer"] = y BY <2>4, <3>1 DEF DType
        <3> HIDE DEF s
        <3>4. r.socket /\ r.state # "eNotUsingLeasedAddress" BY <1>2, <2>3
        <3>5. z.ep[e] = r BY <2>4, <3>1
        <3>6. Lives(z, y, e, {})
            BY <3>1, <3>2, <3>4, <3>5, Setting DEF Timed, Waits, Served
        <3> HIDE DEF y
        <3>7. Lives(x, z, e, {}) BY <2>4, <3>1, LivesTransitive
        <3>8. Lives(x, y, e, {}) BY <3>6, <3>7, LivesTransitive
        <3>9. QED BY <1>2, <2>1, <2>6, <3>3, <3>8 DEF xHandleWaitingFirstDiscover, z
    <2>7. QED BY <2>5, <2>6
<1>3. QED BY <1>1, <1>2

\* The next packet in the socket.
LEMMA HeadPacket ==
    ASSUME NEW x \in DType, x.rx # << >>
    PROVE  /\ Head(x.rx) \in Packet /\ Head(x.rx).from \in Server
           /\ Head(x.rx).current /\ Head(x.rx).type = "ACK" => Head(x.rx) \in Acks(x)
<1>1. x.rx \in Seq(Packet) BY DEF DType
<1>2. Head(x.rx) \in Packet /\ Head(x.rx) = x.rx[1] /\ Len(x.rx) \in Nat /\ Len(x.rx) # 0
    BY <1>1, HeadTailProperties, EmptySeq, LenProperties
<1>3. 1 \in 1 .. Len(x.rx) BY <1>2
<1>4. QED BY <1>2, <1>3 DEF Acks, Packet

LEMMA Offering ==
    ASSUME NEW x \in DType, NEW e \in EndPoint, NEW c, NEW check \in BOOLEAN, Counted(x),
           x.ep[e].state = "eWaitingOffer", check => x.rx # << >>
    PROVE  Lives(x, xHandleWaitingOffer(x, e, check, c), e, {})
<1> DEFINE y == xHandleWaitingOffer(x, e, check, c)
<1>0. x.ep[e] \in EpType BY EpTyped
<1>1. CASE check /\ ~ReplyAccepted(x, e, "OFFER")
    <2>1. y = Taken(x) BY <1>1 DEF xHandleWaitingOffer
    <2>2. QED BY <1>1, <2>1, Taking, LivesSame
<1>2. CASE check /\ ReplyAccepted(x, e, "OFFER")
    <2> DEFINE t == Taken(x)
               a == Head(x.rx).from
               r == [t.ep[e] EXCEPT !.server = a, !.offered = a]
               o == [t EXCEPT !.ep[e] = r]
    <2>1. Lives(x, t, e, {}) /\ t \in DType /\ Counted(t) /\ t.ep = x.ep
        BY <1>2, Taking, LivesSame
    <2>2. a \in Server BY <1>2, HeadPacket
    <2>3. y = IF c.answer = "eDHCPContinue" THEN SendRequest(o, e, c) ELSE GiveUp(o, e)
        <3>1. o = [t EXCEPT !.ep[e].server = a, !.ep[e].offered = a] BY <2>1 DEF DType
        <3>2. QED BY <1>2, <3>1 DEF xHandleWaitingOffer
    <2> HIDE DEF t, a
    <2>4. /\ r \in EpType /\ r.socket = x.ep[e].socket /\ r.ip = x.ep[e].ip
          /\ r.timer = x.ep[e].timer /\ r.interface = x.ep[e].interface
          /\ r.state = x.ep[e].state /\ r.server = a
        BY <1>0, <2>1, <2>2 DEF EpType
    <2> HIDE DEF r
    <2>5. t.ep[e] = x.ep[e] BY <2>1
    <2>6. Lives(t, o, e, {}) /\ o \in DType /\ Counted(o) /\ o.ep[e] = r
        BY <2>1, <2>2, <2>4, <2>5, Setting DEF Timed, Waits, Served
    <2> HIDE DEF o
    <2>7. Lives(o, y, e, {})
        <3>1. CASE c.answer = "eDHCPContinue"
            BY <2>2, <2>3, <2>4, <2>6, <3>1, Requesting DEF Waits
        <3>2. CASE c.answer # "eDHCPContinue" BY <2>3, <2>6, <3>2, GivingUp
        <3>3. QED BY <3>1, <3>2
    <2> HIDE DEF y
    <2>8. Lives(x, o, e, {}) BY <2>1, <2>6, LivesTransitive
    <2>9. QED BY <2>7, <2>8, LivesTransitive DEF y
<1>3. CASE ~check /\ ~c.elapsed BY <1>3, LivesReflexive DEF xHandleWaitingOffer
<1>4. CASE ~check /\ c.elapsed /\ x.ep[e].doublings = MaxDoublings
    BY <1>4, GivingUp, LookingUp DEF xHandleWaitingOffer
<1>5. CASE ~check /\ c.elapsed /\ x.ep[e].doublings # MaxDoublings
    <2> DEFINE r == [x.ep[e] EXCEPT !.doublings = x.ep[e].doublings + 1]
               z == [x EXCEPT !.ep[e] = r]
               n == NewTransactionId(z, e)
    <2>1. /\ r \in EpType /\ r.socket = x.ep[e].socket /\ r.ip = x.ep[e].ip
          /\ r.timer = x.ep[e].timer /\ r.interface = x.ep[e].interface
          /\ r.state = x.ep[e].state /\ r.server = x.ep[e].server
        <3>1. x.ep[e].doublings + 1 \in 0 .. MaxDoublings
            BY <1>0, <1>5, MaxDoublingsNat DEF EpType
        <3>2. QED BY <1>0, <3>1 DEF EpType
    <2>2. z = [x EXCEPT !.ep[e].doublings = @ + 1] BY DEF DType
    <2> HIDE DEF r
    <2>3. Lives(x, z, e, {}) /\ z \in DType /\ Counted(z) /\ z.ep[e] = r
        BY <2>1, Setting DEF Timed, Waits, Served
    <2> HIDE DEF z
    <2>4. Lives(z, n, e, {}) /\ n \in DType /\ Counted(n) /\ n.ep = z.ep
        BY <2>3, Renewing, LivesSame
    <2>5. Lives(x, n, e, {}) BY <2>3, <2>4, LivesTransitive
    <2>6. CASE ~c.random
        BY <1>5, <2>2, <2>3, <2>6 DEF xHandleWaitingOffer
    <2>7. CASE c.random /\ CanSend(x, e, c)
        <3>1. y = prvSendDHCPDiscover(n, e) BY <1>5, <2>2, <2>7 DEF xHandleWaitingOffer
        <3> HIDE DEF n, y
        <3>2. Lives(n, y, e, {}) BY <2>4, <3>1, Discovering
        <3>3. QED BY <2>5, <3>2, LivesTransitive DEF y
    <2>8. CASE c.random /\ ~CanSend(x, e, c)
        <3> DEFINE s == [r EXCEPT !.state = "eInitialWait"]
        <3>1. y = [n EXCEPT !.ep[e].state = "eInitialWait"]
            BY <1>5, <2>2, <2>8 DEF xHandleWaitingOffer
        <3> HIDE DEF n, y
        <3>2. y = [n EXCEPT !.ep[e] = s] BY <2>3, <2>4, <3>1 DEF DType
        <3>3. /\ s \in EpType /\ s.socket = r.socket /\ s.ip = r.ip
              /\ s.timer = r.timer /\ s.interface = r.interface /\ s.state = "eInitialWait"
            BY <2>1 DEF EpType, State
        <3>4. n.ep[e] = r BY <2>3, <2>4
        <3> HIDE DEF s
        <3>5. Lives(n, y, e, {})
            BY <2>1, <2>4, <3>2, <3>3, <3>4, Setting DEF Timed, Waits, Served
        <3>6. QED BY <2>5, <3>5, LivesTransitive DEF y
    <2>9. QED BY <2>6, <2>7, <2>8
<1>6. QED BY <1>1, <1>2, <1>3, <1>4, <1>5

LEMMA StartingAgain ==
    ASSUME NEW x \in DType, NEW e \in EndPoint, Counted(x),
           x.ep[e].state # "eNotUsingLeasedAddress"
    PROVE  Lives(x, StartAgain(x, e), e, {})
<1> DEFINE r == [x.ep[e] EXCEPT !.state = "eInitialWait", !.expected = "eInitialWait"]
<1>1. StartAgain(x, e) = [x EXCEPT !.ep[e] = r] BY DEF StartAgain, DType
<1>2. x.ep[e] \in EpType BY EpTyped
<1>3. /\ r \in EpType /\ r.socket = x.ep[e].socket /\ r.ip = x.ep[e].ip
      /\ r.timer = x.ep[e].timer /\ r.interface = x.ep[e].interface
      /\ r.state = "eInitialWait"
    BY <1>2 DEF EpType, State
<1> HIDE DEF r
<1>4. QED BY <1>1, <1>3, Setting DEF Timed, Waits, Served

LEMMA Acknowledging ==
    ASSUME NEW x \in DType, NEW e \in EndPoint, NEW c, NEW check \in BOOLEAN, Counted(x),
           x.ep[e].state = "eWaitingAcknowledge", check => x.rx # << >>,
           x.ep[e].server \in Server
    PROVE  Lives(x, vHandleWaitingAcknowledge(x, e, check, c), e,
                 {a \in Server : check /\ Head(x.rx).type = "ACK" /\ Head(x.rx).from = a})
<1> DEFINE y == vHandleWaitingAcknowledge(x, e, check, c)
           t == Taken(x)
           G == {a \in Server : check /\ Head(x.rx).type = "ACK" /\ Head(x.rx).from = a}
<1> HIDE DEF G
<1>0. x.ep[e] \in EpType BY EpTyped
<1>1. ASSUME check
      PROVE  Lives(x, t, e, {}) /\ t \in DType /\ Counted(t) /\ t.ep = x.ep
    BY <1>1, Taking, LivesSame
<1>2. CASE check /\ ReplyAccepted(x, e, "ACK")
    <2> DEFINE a == Head(x.rx).from
               r == [t.ep[e] EXCEPT !.offered = a, !.ip = a, !.up = TRUE, !.timer = TRUE,
                                    !.state = "eLeasedAddress"]
               z == [t EXCEPT !.ep[e] = r]
    <2>1. a \in Server BY <1>2, HeadPacket
    <2>2. a \in G BY <1>2, <2>1 DEF G, ReplyAccepted
    <2>3. y = prvCloseDHCPSocket(z, e)
        <3>1. z = [t EXCEPT !.ep[e].offered = a, !.ep[e].ip = a, !.ep[e].up = TRUE,
                            !.ep[e].timer = TRUE, !.ep[e].state = "eLeasedAddress"]
            BY <1>1, <1>2 DEF DType
        <3> HIDE DEF z
        <3>2. Head(x.rx).type # "NAK" BY <1>2 DEF ReplyAccepted
        <3>3. QED BY <1>2, <3>1, <3>2 DEF vHandleWaitingAcknowledge
    <2> HIDE DEF t, a
    <2>4. t.ep[e] = x.ep[e] BY <1>1, <1>2
    <2>5. /\ r \in EpType /\ r.socket = t.ep[e].socket /\ r.ip = a /\ r.timer = TRUE
          /\ r.state = "eLeasedAddress" /\ r.server = x.ep[e].server
        BY <1>0, <2>4, <2>1 DEF EpType, State
    <2>6. [r EXCEPT !.socket = FALSE].state = "eLeasedAddress" BY <2>5 DEF EpType
    <2> HIDE DEF r
    <2>7. Lives(t, z, e, G) /\ z \in DType /\ Counted(z) /\ z.ep[e] = r
        BY <1>1, <1>2, <2>2, <2>5, Setting DEF Timed, Waits, Served
    <2> HIDE DEF z
    <2>8. Lives(z, y, e, {}) BY <2>3, <2>6, <2>7, ClosingLives DEF Waits
    <2> HIDE DEF y
    <2>9. Lives(t, y, e, G) BY <1>1, <1>2, <2>7, <2>8, LivesTransitive
    <2>10. Lives(x, y, e, G)
        <3>1. y \in DType /\ Keeps(x, y, e)
            BY <1>1, <1>2, <2>9, KeepsTransitive DEF Lives, Keeps
        <3>2. QED BY <2>4, <2>9, <3>1 DEF Lives
    <2>11. QED BY <2>10 DEF y, G
<1>3. CASE check /\ ~ReplyAccepted(x, e, "ACK")
    <2>1. y = IF Head(x.rx).type = "NAK" THEN StartAgain(t, e) ELSE t
        BY <1>3 DEF vHandleWaitingAcknowledge
    <2> HIDE DEF t
    <2>2. t.ep[e] = x.ep[e] BY <1>1, <1>3
    <2>3. Lives(t, y, e, {}) BY <1>1, <1>3, <2>1, <2>2, StartingAgain, LivesReflexive
    <2> HIDE DEF y
    <2>4. Lives(x, y, e, {}) BY <1>1, <1>3, <2>3, LivesTransitive
    <2>5. QED BY <2>4, LivesMonotone DEF y
<1>4. CASE ~check /\ (~c.elapsed \/ x.ep[e].doublings = MaxDoublings)
    <2>1. y = x \/ y = StartAgain(x, e) BY <1>4 DEF vHandleWaitingAcknowledge
    <2>2. Lives(x, y, e, {}) BY <2>1, StartingAgain, LivesReflexive
    <2>3. QED BY <2>2, LivesMonotone
<1>5. CASE ~check /\ c.elapsed /\ x.ep[e].doublings # MaxDoublings
    <2> DEFINE r == [x.ep[e] EXCEPT !.doublings = x.ep[e].doublings + 1]
               z == [x EXCEPT !.ep[e] = r]
    <2>1. /\ r \in EpType /\ r.socket = x.ep[e].socket /\ r.ip = x.ep[e].ip
          /\ r.timer = x.ep[e].timer /\ r.interface = x.ep[e].interface
          /\ r.state = x.ep[e].state /\ r.server = x.ep[e].server
        <3>1. x.ep[e].doublings + 1 \in 0 .. MaxDoublings
            BY <1>0, <1>5, MaxDoublingsNat DEF EpType
        <3>2. QED BY <1>0, <3>1 DEF EpType
    <2>2. z = [x EXCEPT !.ep[e].doublings = @ + 1] BY DEF DType
    <2> HIDE DEF r
    <2>3. Lives(x, z, e, {}) /\ z \in DType /\ Counted(z) /\ z.ep[e] = r
        BY <2>1, Setting DEF Timed, Waits, Served
    <2> HIDE DEF z
    <2>4. y = IF CanSend(z, e, c) THEN prvSendDHCPRequest(z, e)
              ELSE [z EXCEPT !.ep[e].state = "eSendDHCPRequest"]
        BY <1>5, <2>2 DEF vHandleWaitingAcknowledge
    <2>5. Lives(z, y, e, {})
        <3>1. CASE CanSend(z, e, c) BY <2>1, <2>3, <2>4, <3>1, SendingRequest
        <3>2. CASE ~CanSend(z, e, c)
            <4> DEFINE s == [r EXCEPT !.state = "eSendDHCPRequest"]
            <4>1. y = [z EXCEPT !.ep[e] = s] BY <2>3, <2>4, <3>2 DEF DType
            <4>2. /\ s \in EpType /\ s.socket = r.socket /\ s.ip = r.ip
                  /\ s.timer = r.timer /\ s.interface = r.interface
                  /\ s.state = "eSendDHCPRequest" /\ s.server = r.server
                BY <2>1 DEF EpType, State
            <4> HIDE DEF s, y
            <4>3. QED BY <2>1, <2>3, <4>1, <4>2, Setting DEF Timed, Waits, Served
        <3>3. QED BY <3>1, <3>2
    <2> HIDE DEF y
    <2>6. Lives(x, y, e, {}) BY <2>3, <2>5, LivesTransitive
    <2>7. QED BY <2>6, LivesMonotone DEF y
<1>6. QED BY <1>2, <1>3, <1>4, <1>5

LEMMA Releasing ==
    ASSUME NEW x \in DType, NEW e \in EndPoint, NEW c, Counted(x),
           x.ep[e].state = "eLeasedAddress", x.ep[e].server \in Server
    PROVE  Lives(x, prvHandleWaitingeLeasedAddress(x, e, c), e, {})
<1> DEFINE w == prvHandleWaitingeLeasedAddress(x, e, c)
<1>0. x.ep[e] \in EpType BY EpTyped
<1>1. CASE ~x.ep[e].up
    <2> DEFINE r == [x.ep[e] EXCEPT !.timer = TRUE]
    <2>1. w = [x EXCEPT !.ep[e] = r] BY <1>1 DEF prvHandleWaitingeLeasedAddress, DType
    <2>2. /\ r \in EpType /\ r.socket = x.ep[e].socket /\ r.ip = x.ep[e].ip
          /\ r.timer = TRUE /\ r.state = x.ep[e].state /\ r.server = x.ep[e].server
        BY <1>0 DEF EpType
    <2> HIDE DEF r
    <2>3. QED BY <2>1, <2>2, Setting DEF Timed, Waits, Served
<1>2. CASE x.ep[e].up
    <2> DEFINE y == prvCreateDHCPSocket(x, e)
               z == IF c.random THEN NewTransactionId(y, e) ELSE y
               p == [x.ep[e] EXCEPT !.socket = TRUE]
               r == [p EXCEPT !.doublings = 0]
               o == [z EXCEPT !.ep[e] = r]
               q == SendRequest(o, e, c)
               s == [q.ep[e] EXCEPT !.timer = TRUE]
    <2>1. Keeps(x, y, e) /\ y \in DType /\ Counted(y) /\ y.ep[e] = p
        BY Creating DEF Keeps
    <2>2. /\ p \in EpType /\ p.socket = TRUE /\ p.ip = x.ep[e].ip
          /\ p.timer = x.ep[e].timer /\ p.interface = x.ep[e].interface
          /\ p.state = x.ep[e].state /\ p.server = x.ep[e].server
        BY <1>0 DEF EpType
    <2> HIDE DEF p, y
    <2>3. Lives(x, y, e, {})
        BY <2>1, <2>2 DEF Lives, Timed, Waits, Served
    <2>4. Lives(y, z, e, {}) /\ z \in DType /\ Counted(z) /\ z.ep = y.ep
        BY <2>1, Renewing, LivesSame, LivesReflexive
    <2>5. w = [SendRequest([z EXCEPT !.ep[e].doublings = 0], e, c) EXCEPT !.ep[e].timer = TRUE]
        BY <1>2 DEF prvHandleWaitingeLeasedAddress, y
    <2> HIDE DEF z, w
    <2>6. z.ep[e] = p BY <2>1, <2>4
    <2>7. [z EXCEPT !.ep[e].doublings = 0] = o BY <2>4, <2>6 DEF DType
    <2>8. /\ r \in EpType /\ r.socket = TRUE /\ r.ip = p.ip
          /\ r.timer = p.timer /\ r.interface = p.interface
          /\ r.state = p.state /\ r.server = p.server
        BY <2>2, MaxDoublingsNat DEF EpType
    <2> HIDE DEF r
    <2>9. Lives(z, o, e, {}) /\ o \in DType /\ Counted(o) /\ o.ep[e] = r
        BY <2>2, <2>4, <2>6, <2>8, Setting DEF Timed, Waits, Served
    <2> HIDE DEF o
    <2>10. Lives(o, q, e, {}) /\ q \in DType /\ Counted(q)
        BY <2>2, <2>8, <2>9, Requesting
    <2>11. w = [q EXCEPT !.ep[e] = s]
        <3>1. w = [q EXCEPT !.ep[e].timer = TRUE] BY <2>5, <2>7
        <3> HIDE DEF q
        <3>2. QED BY <2>10, <3>1 DEF DType
    <2> HIDE DEF q
    <2>12. q.ep[e] \in EpType BY <2>10, EpTyped
    <2>13. /\ s \in EpType /\ s.socket = q.ep[e].socket /\ s.ip = q.ep[e].ip
           /\ s.timer = TRUE /\ s.state = q.ep[e].state /\ s.server = q.ep[e].server
        BY <2>12 DEF EpType
    <2> HIDE DEF s
    <2>14. Lives(q, w, e, {}) BY <2>10, <2>11, <2>13, Setting DEF Timed, Waits, Served
    <2>15. Lives(x, z, e, {}) BY <2>3, <2>4, LivesTransitive
    <2>16. Lives(x, o, e, {}) BY <2>9, <2>15, LivesTransitive
    <2>17. Lives(x, q, e, {}) BY <2>10, <2>16, LivesTransitive
    <2>18. QED BY <2>14, <2>17, LivesTransitive DEF w
<1>3. QED BY <1>1, <1>2

LEMMA GettingLinkLayerAddress ==
    ASSUME NEW x \in DType, NEW e \in EndPoint, NEW c, Counted(x),
           x.ep[e].state = "eGetLinkLayerAddress"
    PROVE  Lives(x, GetLinkLayerAddress(x, e, c), e, {})
<1>1. CASE ~c.elapsed \/ c.clash
    BY <1>1, LivesReflexive, LookingUp DEF GetLinkLayerAddress
<1>2. CASE c.elapsed /\ ~c.clash
    <2> DEFINE r == [x.ep[e] EXCEPT !.up = TRUE, !.state = "eNotUsingLeasedAddress"]
    <2>1. GetLinkLayerAddress(x, e, c) = [x EXCEPT !.ep[e] = r]
        BY <1>2 DEF GetLinkLayerAddress, DType
    <2>2. x.ep[e] \in EpType BY EpTyped
    <2>3. r \in EpType /\ r.socket = x.ep[e].socket /\ r.ip = x.ep[e].ip
          /\ r.state = "eNotUsingLeasedAddress"
        BY <2>2 DEF EpType, State
    <2> HIDE DEF r
    <2>4. QED BY <2>1, <2>3, Setting DEF Timed, Waits, Served
<1>3. QED BY <1>1, <1>2

\* The servers that a packet in the socket allows e to use.
Offers(x, e) == {a \in Server : \E p \in Acks(x) : p.to = e /\ p.from = a}

LEMMA Processing ==
    ASSUME NEW x \in DType, NEW e \in EndPoint, NEW c, NEW check \in BOOLEAN, Counted(x),
           Served(x.ep[e]),
           check => x.rx # << >> /\ Head(x.rx).current /\ Head(x.rx).to = e
    PROVE  Lives(x, vDHCPProcessEndPoint(x, e, check, c), e, Offers(x, e))
<1> DEFINE y == vDHCPProcessEndPoint(x, e, check, c)
           s == x.ep[e].state
<1>0. x.ep[e] \in EpType /\ s \in State BY EpTyped DEF EpType
<1>1. CASE s # x.ep[e].expected
    <2>1. y = x BY <1>1 DEF vDHCPProcessEndPoint
    <2>2. QED BY <2>1, LivesReflexive, LivesMonotone
<1>2. CASE s = x.ep[e].expected
    <2>1. CASE s = "eInitialWait"
        <3>1. y = [prvInitialiseDHCP(x, e, c) EXCEPT
                      !.ep[e].state = "eWaitingSendFirstDiscover"]
            BY <1>2, <2>1 DEF vDHCPProcessEndPoint
        <3>2. /\ Keeps(x, y, e) /\ y.ep[e].ip = x.ep[e].ip /\ Waits(y.ep[e])
              /\ Served(y.ep[e]) /\ (c.random \/ x.ep[e].timer => Timed(y.ep[e]))
              /\ y.ep[e].interface = x.ep[e].interface
            BY <3>1, Starting
        <3> HIDE DEF y
        <3>3. Timed(x.ep[e]) => Timed(y.ep[e]) BY <2>1, <3>2 DEF Timed
        <3>4. Lives(x, y, e, {}) BY <3>2, <3>3 DEF Lives
        <3>5. QED BY <3>4, LivesMonotone DEF y
    <2>2. CASE s = "eWaitingSendFirstDiscover"
        <3>1. y = xHandleWaitingFirstDiscover(x, e, c) BY <1>2, <2>2 DEF vDHCPProcessEndPoint
        <3>2. QED BY <2>2, <3>1, FirstDiscover, LivesMonotone
    <2>3. CASE s = "eSendDHCPRequest"
        <3>1. y = SendRequest(x, e, c) BY <1>2, <2>3 DEF vDHCPProcessEndPoint
        <3>2. x.ep[e].server \in Server BY <2>3 DEF Served
        <3>3. Waits(x.ep[e]) => x.ep[e].socket BY <2>3 DEF Waits
        <3>4. Lives(x, y, e, {}) BY <2>3, <3>1, <3>2, <3>3, Requesting
        <3>5. QED BY <3>4, LivesMonotone
    <2>4. CASE s = "eWaitingOffer"
        <3>1. y = xHandleWaitingOffer(x, e, check, c) BY <1>2, <2>4 DEF vDHCPProcessEndPoint
        <3>2. QED BY <2>4, <3>1, Offering, LivesMonotone
    <2>5. CASE s = "eWaitingAcknowledge"
        <3> DEFINE G == {a \in Server : check /\ Head(x.rx).type = "ACK" /\ Head(x.rx).from = a}
        <3>1. y = vHandleWaitingAcknowledge(x, e, check, c)
            BY <1>2, <2>5 DEF vDHCPProcessEndPoint
        <3>2. Lives(x, y, e, G) BY <2>5, <3>1, Acknowledging DEF Served
        <3>3. G \subseteq Offers(x, e) BY HeadPacket DEF Offers
        <3> HIDE DEF G, y
        <3>4. QED BY <3>2, <3>3 DEF Lives, y
    <2>6. CASE s = "eGetLinkLayerAddress"
        <3>1. y = GetLinkLayerAddress(x, e, c) BY <1>2, <2>6 DEF vDHCPProcessEndPoint
        <3>2. QED BY <2>6, <3>1, GettingLinkLayerAddress, LivesMonotone
    <2>7. CASE s = "eLeasedAddress"
        <3>1. y = prvHandleWaitingeLeasedAddress(x, e, c)
            BY <1>2, <2>7 DEF vDHCPProcessEndPoint
        <3>2. x.ep[e].server \in Server BY <2>7 DEF Served
        <3>3. QED BY <2>7, <3>1, <3>2, Releasing, LivesMonotone
    <2>8. CASE s = "eNotUsingLeasedAddress"
        <3> DEFINE r == [x.ep[e] EXCEPT !.timer = FALSE]
        <3>1. y = [x EXCEPT !.ep[e] = r] BY <1>2, <2>8 DEF vDHCPProcessEndPoint, DType
        <3>2. /\ r \in EpType /\ r.socket = x.ep[e].socket /\ r.ip = x.ep[e].ip
              /\ r.state = s
            BY <1>0 DEF EpType
        <3> HIDE DEF r
        <3>3. Lives(x, y, e, {})
            BY <2>8, <3>1, <3>2, Setting DEF Timed, Waits, Served
        <3>4. QED BY <3>3, LivesMonotone
    <2>9. QED BY <1>0, <2>1, <2>2, <2>3, <2>4, <2>5, <2>6, <2>7, <2>8 DEF State
<1>3. QED BY <1>1, <1>2

-----------------------------------------------------------------------------
(***************************************************************************)
(* The inductive invariant.  The two of its parts that depend on an          *)
(* end-point being started again at once are needed only for the theorems   *)
(* that assume so.                                                          *)
(***************************************************************************)
\* What an end-point uses, or is about to use, was granted to it.
Granted(x, g) ==
    /\ \A e \in EndPoint : x.ep[e].ip \in Server => x.ep[e].ip \in g[e]
    /\ \A p \in Acks(x) : p.from \in g[p.to]

EachEndPoint(x) ==
    \A e \in EndPoint : /\ Served(x.ep[e])
                        /\ "init" \notin MayFail => Waits(x.ep[e])
                        /\ "random" \notin MayFail => Timed(x.ep[e])

DataInv(x, g) ==
    /\ x \in DType /\ Counted(x) /\ Len(x.rx) <= MaxPackets
    /\ EachEndPoint(x)
    /\ Granted(x, g)

TaskInv ==
    /\ events \in Seq(EndPoint) /\ Len(events) <= QueueLength
    /\ loop = {} \/ \E l \in [ep : EndPoint, process : BOOLEAN] : loop = {l}
    /\ granted \in [EndPoint -> SUBSET Server]
    /\ downs \in 0 .. MaxDown

IInv == DataInv(d, granted) /\ TaskInv

LEMMA NatBounds == {QueueLength, MaxPackets, MaxDown} \subseteq Nat
BY DHCPAssumption

\* The other values of an address are no address of a server.
LEMMA NoServer == NoAddress \notin Server /\ Default \notin Server /\ LinkLocal \notin Server
BY DHCPAssumption

LEMMA InitIInv == Init => IInv
<1> SUFFICES ASSUME Init PROVE IInv OBVIOUS
<1>1. Cardinality({}) = 0 /\ Len(<< >>) = 0 BY FS_EmptySet
<1>2. d \in DType BY MaxDoublingsNat DEF Init, DType, EpType, State
<1>3. Users(d) = {} BY DEF Users, Init
<1>4. Counted(d) BY <1>1, <1>3 DEF Counted, Init
<1>5. Acks(d) = {} BY <1>1 DEF Acks, Init
<1>6. EachEndPoint(d) BY DEF EachEndPoint, Served, Waits, Timed, Init
<1>7. Granted(d, granted) BY <1>5, NoServer DEF Granted, Init
<1>8. DataInv(d, granted) BY <1>1, <1>2, <1>4, <1>6, <1>7, NatBounds DEF DataInv, Init
<1>9. TaskInv BY <1>1, NatBounds DEF TaskInv, Init
<1>10. QED BY <1>8, <1>9 DEF IInv

\* What has to be shown of a step that changes only the data of end-point e.
LEMMA OneEndPoint ==
    ASSUME NEW x, NEW y, NEW e \in EndPoint, NEW g \in [EndPoint -> SUBSET Server],
           DataInv(x, g), Keeps(x, y, e),
           Served(y.ep[e]),
           "init" \notin MayFail => Waits(y.ep[e]),
           "random" \notin MayFail => Timed(y.ep[e]),
           y.ep[e].ip \in {x.ep[e].ip, NoAddress, Default, LinkLocal} \cup Offers(x, e)
    PROVE  DataInv(y, g)
<1>1. x \in DType /\ Counted(x) /\ Len(x.rx) <= MaxPackets BY DEF DataInv
<1>2. y \in DType /\ Counted(y) /\ Len(y.rx) <= Len(x.rx) BY DEF Keeps
<1>3. Len(x.rx) \in Nat /\ Len(y.rx) \in Nat /\ MaxPackets \in Nat
    BY <1>1, <1>2, LenProperties, NatBounds DEF DType
<1>4. \A f \in EndPoint : f # e => y.ep[f] = x.ep[f] BY DEF Keeps
<1>5. EachEndPoint(y) BY <1>4 DEF DataInv, EachEndPoint
<1>6. Granted(y, g)
    <2>1. Acks(y) \subseteq Acks(x) BY DEF Keeps
    <2>2. \A a \in Offers(x, e) : a \in g[e] BY DEF DataInv, Granted, Offers
    <2>3. y.ep[e].ip \in Server => y.ep[e].ip \in g[e]
        BY <2>2, NoServer DEF DataInv, Granted
    <2>4. QED BY <1>4, <2>1, <2>3 DEF DataInv, Granted
<1>7. QED BY <1>1, <1>2, <1>3, <1>5, <1>6 DEF DataInv

LEMMA StepDataInv ==
    ASSUME NEW x, NEW y, NEW e \in EndPoint, NEW g \in [EndPoint -> SUBSET Server],
           DataInv(x, g), Lives(x, y, e, Offers(x, e))
    PROVE  DataInv(y, g)
<1>1. /\ Served(x.ep[e])
      /\ "init" \notin MayFail => Waits(x.ep[e])
      /\ "random" \notin MayFail => Timed(x.ep[e])
    BY DEF DataInv, EachEndPoint
<1>2. QED BY <1>1, OneEndPoint DEF Lives

\* vDHCPProcessEndPoint, for a packet or not.
LEMMA ProcessDataInv ==
    ASSUME IInv, NEW e \in EndPoint, NEW c, NEW check \in BOOLEAN,
           check => d.rx # << >> /\ Head(d.rx).current /\ Head(d.rx).to = e
    PROVE  DataInv(vDHCPProcessEndPoint(d, e, check, c), granted)
<1>1. d \in DType /\ Counted(d) /\ Served(d.ep[e]) BY DEF IInv, DataInv, EachEndPoint
<1>2. Lives(d, vDHCPProcessEndPoint(d, e, check, c), e, Offers(d, e)) BY <1>1, Processing
<1>3. QED BY <1>2, StepDataInv DEF IInv, TaskInv

\* xSendDHCPEvent changes nothing but eExpectedState.
LEMMA Expecting ==
    ASSUME NEW x, NEW e \in EndPoint, NEW g \in [EndPoint -> SUBSET Server], DataInv(x, g)
    PROVE  DataInv([x EXCEPT !.ep[e].expected = x.ep[e].state], g)
<1> DEFINE r == [x.ep[e] EXCEPT !.expected = x.ep[e].state]
           y == [x EXCEPT !.ep[e] = r]
<1>1. x \in DType /\ Counted(x) BY DEF DataInv
<1>2. x.ep[e] \in EpType BY <1>1, EpTyped
<1>3. /\ r \in EpType /\ r.socket = x.ep[e].socket /\ r.ip = x.ep[e].ip
      /\ r.timer = x.ep[e].timer /\ r.interface = x.ep[e].interface
      /\ r.state = x.ep[e].state /\ r.server = x.ep[e].server
    BY <1>2 DEF EpType
<1>4. [x EXCEPT !.ep[e].expected = x.ep[e].state] = y BY <1>1 DEF DType
<1> HIDE DEF r
<1>5. Lives(x, y, e, {}) BY <1>1, <1>3, Setting DEF Timed, Waits, Served
<1> HIDE DEF y
<1>6. QED BY <1>4, <1>5, LivesMonotone, StepDataInv

LEMMA SendingEvent ==
    ASSUME TaskInv, NEW x, NEW e \in EndPoint, NEW g \in [EndPoint -> SUBSET Server],
           DataInv(x, g), xSendDHCPEvent(x, e)
    PROVE  DataInv(d', g) /\ events' \in Seq(EndPoint) /\ Len(events') <= QueueLength
<1>1. DataInv(d', g) BY Expecting DEF xSendDHCPEvent
<1>2. events' \in Seq(EndPoint) /\ Len(events') <= QueueLength
    <2>1. events \in Seq(EndPoint) /\ Len(events) \in Nat /\ Len(events) <= QueueLength
        BY LenProperties DEF TaskInv
    <2>2. CASE Len(events) < QueueLength
        <3>1. events' = Append(events, e) BY <2>2 DEF xSendDHCPEvent
        <3>2. events' \in Seq(EndPoint) /\ Len(events') = Len(events) + 1
            BY <2>1, <3>1, AppendProperties
        <3>3. QED BY <2>1, <2>2, <3>2, NatBounds
    <2>3. CASE ~(Len(events) < QueueLength) BY <2>1, <2>3 DEF xSendDHCPEvent
    <2>4. QED BY <2>2, <2>3
<1>3. QED BY <1>1, <1>2

LEMMA TimerExpiresIInv ==
    ASSUME IInv, NEW e \in EndPoint, TimerExpires(e)
    PROVE  IInv'
<1>1. DataInv(d', granted) /\ events' \in Seq(EndPoint) /\ Len(events') <= QueueLength
    BY SendingEvent DEF TimerExpires, IInv, TaskInv
<1>2. loop' = loop /\ granted' = granted /\ downs' = downs BY DEF TimerExpires
<1>3. TaskInv' BY <1>1, <1>2 DEF IInv, TaskInv
<1>4. QED BY <1>1, <1>2, <1>3 DEF IInv

\* A packet arrives: when it acknowledges a request, that is a grant.
LEMMA ReceiveIInv ==
    ASSUME IInv, NEW p \in Packet, Receive(p)
    PROVE  IInv'
<1> DEFINE q == Append(d.rx, p)
           x == [d EXCEPT !.rx = q]
<1>1. d \in DType /\ Counted(d) /\ p.to \in EndPoint /\ p.from \in Server
    BY DEF IInv, DataInv, Packet
<1>2. d.rx \in Seq(Packet) /\ Len(d.rx) \in Nat /\ Len(d.rx) < MaxPackets
    BY <1>1, LenProperties DEF DType, Receive
<1>3. /\ q \in Seq(Packet) /\ Len(q) = Len(d.rx) + 1
      /\ \A i \in 1 .. Len(d.rx) : q[i] = d.rx[i]
      /\ q[Len(d.rx) + 1] = p
    BY <1>2, AppendProperties
<1>4. /\ granted' \in [EndPoint -> SUBSET Server]
      /\ \A e \in EndPoint : granted[e] \subseteq granted'[e]
      /\ p.current /\ p.type = "ACK" => p.from \in granted'[p.to]
    BY <1>1 DEF Receive, IInv, TaskInv
<1>5. xSendDHCPEvent(x, p.to) BY DEF Receive
<1> HIDE DEF q
<1>6. x \in DType /\ x.rx = q /\ x.ep = d.ep /\ x.users = d.users /\ x.open = d.open
    BY <1>1, <1>3 DEF DType
<1> HIDE DEF x
<1>7. Counted(x) BY <1>1, <1>6 DEF Counted, Users
<1>8. Acks(x) \subseteq Acks(d) \cup {p}
    <2>1. \A i \in 1 .. Len(q) : i = Len(d.rx) + 1 \/ i \in 1 .. Len(d.rx) BY <1>2, <1>3
    <2>2. QED BY <1>3, <1>6, <2>1 DEF Acks
<1>9. Granted(x, granted')
    <2>1. \A e \in EndPoint : x.ep[e].ip \in Server => x.ep[e].ip \in granted'[e]
        BY <1>4, <1>6 DEF IInv, DataInv, Granted
    <2>2. ASSUME NEW a \in Acks(x) PROVE a.from \in granted'[a.to]
        <3>1. a.to \in EndPoint /\ a.current /\ a.type = "ACK" BY <2>2 DEF Acks, Packet
        <3>2. CASE a \in Acks(d) BY <1>4, <3>1, <3>2 DEF IInv, DataInv, Granted
        <3>3. CASE a = p BY <1>4, <3>1, <3>3
        <3>4. QED BY <1>8, <2>2, <3>2, <3>3
    <2>3. QED BY <2>1, <2>2 DEF Granted
<1>10. EachEndPoint(x) BY <1>6 DEF IInv, DataInv, EachEndPoint
<1>11. Len(x.rx) <= MaxPackets BY <1>2, <1>3, <1>6, NatBounds
<1>12. DataInv(x, granted') BY <1>6, <1>7, <1>9, <1>10, <1>11 DEF DataInv
<1>13. DataInv(d', granted') /\ events' \in Seq(EndPoint) /\ Len(events') <= QueueLength
    BY <1>1, <1>4, <1>5, <1>12, SendingEvent DEF IInv
<1>14. loop' = loop /\ downs' = downs BY DEF Receive
<1>15. TaskInv' BY <1>4, <1>13, <1>14 DEF IInv, TaskInv
<1>16. QED BY <1>13, <1>15 DEF IInv

LEMMA HandleEventIInv ==
    ASSUME IInv, NEW c, HandleEvent(c)
    PROVE  IInv'
<1> DEFINE e == Head(events)
<1>1. events \in Seq(EndPoint) /\ events # << >> BY DEF IInv, TaskInv, HandleEvent
<1>2. /\ e \in EndPoint /\ Tail(events) \in Seq(EndPoint)
      /\ Len(Tail(events)) = Len(events) - 1 /\ Len(events) \in Nat
    BY <1>1, HeadTailProperties, LenProperties
<1>3. granted' = granted /\ downs' = downs /\ events' = Tail(events) BY DEF HandleEvent
<1>4. DataInv(d', granted)
    <2>1. d' = d \/ d' = vDHCPProcessEndPoint(d, e, FALSE, c) BY DEF HandleEvent
    <2>2. DataInv(vDHCPProcessEndPoint(d, e, FALSE, c), granted)
        BY <1>2, ProcessDataInv
    <2>3. QED BY <2>1, <2>2 DEF IInv
<1>5. loop' = {} \/ loop' = {[ep |-> e, process |-> TRUE]} BY DEF HandleEvent
<1>6. [ep |-> e, process |-> TRUE] \in [ep : EndPoint, process : BOOLEAN] BY <1>2
<1>7. Len(events) <= QueueLength /\ QueueLength \in Nat BY NatBounds DEF IInv, TaskInv
<1>8. events' \in Seq(EndPoint) /\ Len(events') <= QueueLength BY <1>2, <1>3, <1>7
<1> HIDE DEF e
<1>9. TaskInv' BY <1>3, <1>5, <1>6, <1>8 DEF IInv, TaskInv
<1>10. QED BY <1>3, <1>4, <1>9 DEF IInv

LEMMA NextPacketIInv ==
    ASSUME IInv, NEW l \in loop, NEW c, NextPacket(l, c)
    PROVE  IInv'
<1>1. l \in [ep : EndPoint, process : BOOLEAN] BY DEF IInv, TaskInv
<1>2. granted' = granted /\ downs' = downs /\ events' = events /\ d.rx # << >>
    BY DEF NextPacket
<1>3. CASE \E e \in Target(d) :
               /\ d' = vDHCPProcessEndPoint(d, e, TRUE, c)
               /\ loop' = {[l EXCEPT !.process = @ /\ e # l.ep]}
    <2>1. PICK e \in Target(d) : /\ d' = vDHCPProcessEndPoint(d, e, TRUE, c)
                                 /\ loop' = {[l EXCEPT !.process = @ /\ e # l.ep]}
        BY <1>3
    <2>2. e \in EndPoint /\ Head(d.rx).current /\ Head(d.rx).to = e BY <2>1 DEF Target
    <2>3. DataInv(d', granted) BY <1>2, <2>1, <2>2, ProcessDataInv
    <2> DEFINE b == l.process /\ e # l.ep
    <2>4. b \in BOOLEAN OBVIOUS
    <2>5. loop' = {[l EXCEPT !.process = b]} BY <2>1
    <2> HIDE DEF b
    <2>6. [l EXCEPT !.process = b] \in [ep : EndPoint, process : BOOLEAN] BY <1>1, <2>4
    <2>7. TaskInv' BY <1>2, <2>5, <2>6 DEF IInv, TaskInv
    <2>8. QED BY <1>2, <2>3, <2>7 DEF IInv
<1>4. CASE d' = Taken(d) /\ loop' = loop
    <2>1. d \in DType /\ Counted(d) BY DEF IInv, DataInv
    <2>2. Lives(d, Taken(d), l.ep, {}) BY <1>1, <1>2, <2>1, Taking, LivesSame
    <2>3. DataInv(d', granted)
        BY <1>1, <1>4, <2>2, LivesMonotone, StepDataInv DEF IInv, TaskInv
    <2>4. TaskInv' BY <1>2, <1>4 DEF IInv, TaskInv
    <2>5. QED BY <1>2, <2>3, <2>4 DEF IInv
<1>5. QED BY <1>3, <1>4 DEF NextPacket

LEMMA LoopEndsIInv ==
    ASSUME IInv, NEW l \in loop, NEW c, LoopEnds(l, c)
    PROVE  IInv'
<1>1. l.ep \in EndPoint BY DEF IInv, TaskInv
<1>2. granted' = granted /\ downs' = downs /\ events' = events /\ loop' = {}
    BY DEF LoopEnds
<1>3. d' = d \/ d' = vDHCPProcessEndPoint(d, l.ep, FALSE, c) BY DEF LoopEnds
<1>4. DataInv(vDHCPProcessEndPoint(d, l.ep, FALSE, c), granted) BY <1>1, ProcessDataInv
<1>5. DataInv(d', granted) BY <1>3, <1>4 DEF IInv
<1>6. TaskInv' BY <1>2 DEF IInv, TaskInv
<1>7. QED BY <1>2, <1>5, <1>6 DEF IInv

\* An interface goes down and, if it can be initialised, DHCP starts again.
LEMMA NetworkDownIInv ==
    ASSUME IInv, NEW e \in EndPoint, NEW ok \in BOOLEAN, NEW c \in Chance,
           ~ok => "init" \in MayFail, NetworkDown(e, ok, c), downs' \in 0 .. MaxDown
    PROVE  IInv'
<1> DEFINE r == [d.ep[e] EXCEPT !.up = FALSE, !.timer = FALSE, !.interface = ok]
           z == [d EXCEPT !.ep[e] = r]
           s == [r EXCEPT !.socket = FALSE]
           stop == prvCloseDHCPSocket(z, e)
           start == [prvInitialiseDHCP(stop, e, c) EXCEPT
                        !.ep[e].state = "eWaitingSendFirstDiscover"]
<1>1. d \in DType /\ Counted(d) /\ Served(d.ep[e]) BY DEF IInv, DataInv, EachEndPoint
<1>2. d.ep[e] \in EpType BY <1>1, EpTyped
<1>3. /\ r \in EpType /\ r.socket = d.ep[e].socket /\ r.ip = d.ep[e].ip
      /\ r.interface = ok /\ r.state = d.ep[e].state /\ r.server = d.ep[e].server
    BY <1>2 DEF EpType
<1>4. z = [d EXCEPT !.ep[e].up = FALSE, !.ep[e].timer = FALSE, !.ep[e].interface = ok]
    BY <1>1 DEF DType
<1>5. d' = IF ~ok THEN stop ELSE start
    <2> HIDE DEF z
    <2>1. QED BY <1>4 DEF NetworkDown
<1>6. s.ip = r.ip /\ s.interface = ok /\ s.state = r.state /\ s.server = r.server
    BY <1>3 DEF EpType
<1> HIDE DEF r
<1>7. Keeps(d, z, e) /\ z.ep[e] = r /\ z \in DType /\ Counted(z)
    BY <1>1, <1>3, SetEndPoint DEF Keeps
<1> HIDE DEF z
<1>8. Keeps(z, stop, e) /\ stop.ep[e] = s BY <1>7, Closing
<1> HIDE DEF s, stop
<1>9. Keeps(d, stop, e) /\ stop \in DType /\ Counted(stop)
    BY <1>1, <1>7, <1>8, KeepsTransitive DEF Keeps
<1>10. granted \in [EndPoint -> SUBSET Server] /\ DataInv(d, granted) BY DEF IInv, TaskInv
<1>11. DataInv(d', granted)
    <2>1. CASE ~ok
        <3>1. d' = stop BY <1>5, <2>1
        <3>2. Served(stop.ep[e]) BY <1>1, <1>3, <1>6, <1>8 DEF Served
        <3>3. Timed(stop.ep[e]) BY <1>6, <1>8, <2>1 DEF Timed
        <3>4. stop.ep[e].ip = d.ep[e].ip BY <1>3, <1>6, <1>8
        <3>5. QED BY <1>9, <1>10, <2>1, <3>1, <3>2, <3>3, <3>4, OneEndPoint
    <2>2. CASE ok
        <3>1. d' = start BY <1>5, <2>2
        <3>2. /\ Keeps(stop, start, e) /\ start.ep[e].ip = stop.ep[e].ip
              /\ Waits(start.ep[e]) /\ Served(start.ep[e])
              /\ c.random => Timed(start.ep[e])
            BY <1>9, Starting
        <3> HIDE DEF start
        <3>3. Keeps(d, start, e) BY <1>1, <1>9, <3>2, KeepsTransitive DEF Keeps
        <3>4. "random" \notin MayFail => c.random BY DEF Chance
        <3>5. start.ep[e].ip = d.ep[e].ip BY <1>3, <1>6, <1>8, <3>2
        <3>6. QED BY <1>10, <3>1, <3>2, <3>3, <3>4, <3>5, OneEndPoint
    <2>3. QED BY <2>1, <2>2
<1>12. granted' = granted /\ events' = events /\ loop' = loop BY DEF NetworkDown
<1>13. TaskInv' BY <1>12 DEF IInv, TaskInv
<1>14. QED BY <1>11, <1>12, <1>13 DEF IInv

LEMMA NextIInv == IInv /\ [Next]_vars => IInv'
<1> SUFFICES ASSUME IInv, [Next]_vars PROVE IInv' OBVIOUS
<1>1. ASSUME NEW e \in EndPoint, TimerExpires(e) PROVE IInv'
    BY <1>1, TimerExpiresIInv
<1>2. ASSUME NEW e \in EndPoint, InterfaceFails(e) PROVE IInv'
    <2>1. downs' \in 0 .. MaxDown BY <1>2, NatBounds DEF InterfaceFails, IInv, TaskInv
    <2>2. PICK ok \in {TRUE} \cup {"init" \notin MayFail}, c \in Chance : NetworkDown(e, ok, c)
        BY <1>2 DEF InterfaceFails
    <2>3. ok \in BOOLEAN /\ (~ok => "init" \in MayFail) BY <2>2
    <2>4. QED BY <2>1, <2>2, <2>3, NetworkDownIInv
<1>3. ASSUME NEW e \in EndPoint, InterfaceStarts(e) PROVE IInv'
    <2>1. downs' \in 0 .. MaxDown BY <1>3 DEF InterfaceStarts, IInv, TaskInv
    <2>2. PICK c \in Chance : NetworkDown(e, TRUE, c) BY <1>3 DEF InterfaceStarts
    <2>3. QED BY <2>1, <2>2, NetworkDownIInv
<1>4. ASSUME NEW p \in Packet, Receive(p) PROVE IInv' BY <1>4, ReceiveIInv
<1>5. ASSUME HandleNextEvent PROVE IInv' BY <1>5, HandleEventIInv DEF HandleNextEvent
<1>6. ASSUME vDHCPProcess PROVE IInv'
    BY <1>6, NextPacketIInv, LoopEndsIInv DEF vDHCPProcess
<1>7. CASE UNCHANGED vars
    BY <1>7 DEF vars, IInv, DataInv, TaskInv, Counted, Users, EachEndPoint, Granted, Acks,
                Served, Waits, Timed
<1>8. QED BY <1>1, <1>2, <1>3, <1>4, <1>5, <1>6, <1>7 DEF Next

\* The inductive invariant holds at all times.
THEOREM Invariance == Spec => []IInv
BY InitIInv, NextIInv, PTL DEF Spec

-----------------------------------------------------------------------------
(***************************************************************************)
(* The theorems.                                                            *)
(***************************************************************************)
\* Every variable of the client has its type, and no queue is overfull:
\* neither the packets in the socket, nor the eDHCPEvents, nor the count of
\* the users of the socket, whatever fails and in whatever order the events
\* of the end-points come.
THEOREM Typed == Spec => []TypeOK
<1>1. IInv => TypeOK
    <2> SUFFICES ASSUME IInv PROVE TypeOK OBVIOUS
    <2>1. d \in DType /\ Counted(d) /\ Len(d.rx) <= MaxPackets BY DEF IInv, DataInv
    <2>2. d.users \in 0 .. Cardinality(EndPoint)
        <3>1. Users(d) \subseteq EndPoint /\ IsFiniteSet(EndPoint)
            BY DHCPAssumption DEF Users
        <3>2. Cardinality(Users(d)) <= Cardinality(EndPoint) BY <3>1, FS_Subset
        <3>3. Cardinality(Users(d)) \in Nat /\ Cardinality(EndPoint) \in Nat
            BY <3>1, FS_Subset, FS_CardinalityType
        <3>4. QED BY <2>1, <3>2, <3>3 DEF Counted
    <2>3. Cardinality(loop) <= 1
        <3>1. CASE loop = {} BY <3>1, FS_EmptySet
        <3>2. CASE loop # {}
            <4>1. PICK l : loop = {l} BY <3>2 DEF IInv, TaskInv
            <4>2. Cardinality(loop) = 1 BY <4>1, FS_Singleton
            <4>3. QED BY <4>2
        <3>3. QED BY <3>1, <3>2
    <2>4. d.ep \in [EndPoint -> EpType] /\ d.open \in BOOLEAN /\ d.rx \in Seq(Packet)
          /\ d.sent \in [EndPoint -> SUBSET (Server \cup {"discover"})]
        BY <2>1 DEF DType
    <2>5. QED BY <2>1, <2>2, <2>3, <2>4 DEF TypeOK, EpType, IInv, TaskInv
<1>2. QED BY <1>1, Invariance, PTL

\* An end-point uses an address of a server only after that server has
\* acknowledged a request of this end-point (prvProcessDHCPReplies checks the
\* transaction, the type and the server of a reply, vDHCPProcess for whom it is).
THEOREM LeaseGranted == Spec => []LeasedIsGranted
<1>1. IInv => LeasedIsGranted BY DEF IInv, DataInv, Granted, LeasedIsGranted
<1>2. QED BY <1>1, Invariance, PTL

\* The socket is open exactly as long as an end-point holds it and the count
\* is exact, whatever fails (prvCreateDHCPSocket, prvCloseDHCPSocket).
SocketCounted ==
    LET users == {e \in EndPoint : d.ep[e].socket}
    IN  d.users = Cardinality(users) /\ (d.open <=> users # {})

\* The count of the users of the socket is exact on every path, even when
\* interfaces fail to come up.
THEOREM SocketCount == Spec => []SocketCounted
<1>1. IInv => SocketCounted BY DEF IInv, DataInv, Counted, Users, SocketCounted
<1>2. QED BY <1>1, Invariance, PTL

\* When a driver always initialises its interface again, no end-point sends or
\* awaits a message without the socket either.  (vDHCPStop leaves the state
\* alone: an interface that stays down keeps it, without the socket.)
THEOREM SocketIsShared ==
    ASSUME "init" \notin MayFail
    PROVE  Spec => []SocketShared
<1>1. IInv => SocketShared
    BY DEF IInv, DataInv, Counted, Users, EachEndPoint, Waits, SocketShared
<1>2. QED BY <1>1, Invariance, PTL

\* When a random number can always be had, the timer of each started end-point
\* is active until its state machine is done.  (Without one, prvInitialiseDHCP
\* returns before it starts the timer that vDHCPStop has stopped.)
THEOREM TimerRuns ==
    ASSUME "random" \notin MayFail
    PROVE  Spec => []TimerWhileWorking
<1>1. IInv => TimerWhileWorking
    BY DEF IInv, DataInv, EachEndPoint, Timed, TimerWhileWorking
<1>2. QED BY <1>1, Invariance, PTL

=============================================================================
