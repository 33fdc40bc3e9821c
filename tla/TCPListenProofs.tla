-------------------------- MODULE TCPListenProofs --------------------------
(***************************************************************************)
(* Proofs about the sockets of a TCP server, for every number of clients    *)
(* and every backlog.                                                       *)
(***************************************************************************)
EXTENDS TCPListen, ListLemmas, SequenceTheorems

-----------------------------------------------------------------------------
(***************************************************************************)
(* The inductive invariant.                                                 *)
(***************************************************************************)
State == {"free", "eSYN_RECEIVED", "eESTABLISHED", "eLAST_ACK", "eCLOSED"}

TcpType == [state : [Client -> State], bound : Seq(Client), queued : SUBSET Client,
            acceptable : SUBSET Client, peer : SUBSET Client, count : Nat,
            pending : SUBSET Client]

LiveIn(t) == {s \in Client : t.state[s] # "free"}

AtMostOne(S) == \A x, y \in S : x = y

\* The list holds every socket that exists, once; nobody owns the sockets that
\* may be linked or have not finished the handshake; the one that is put aside
\* exists and is offered to nobody.
Shape(t) ==
    /\ t \in TcpType
    /\ Distinct(t.bound) /\ ToSet(t.bound) = LiveIn(t)
    /\ Orphans(t) \subseteq LiveIn(t) /\ t.queued \cap t.acceptable = {}
    /\ t.peer \subseteq Orphans(t) /\ AtMostOne(t.peer)
    /\ t.pending \subseteq LiveIn(t) \ Orphans(t) /\ AtMostOne(t.pending)
    /\ \A s \in Client : t.state[s] = "eSYN_RECEIVED" => s \in t.queued

\* The children are counted while there is a listening socket, and without one
\* every child has an owner.
Counted(t, listening) ==
    IF listening THEN t.count = Cardinality(LiveIn(t)) /\ t.count <= Backlog
                 ELSE t.count = 0 /\ Orphans(t) = {}

\* The sockets in H exist, and nobody but their holder frees them.
Held(t, H) == H \subseteq LiveIn(t) \ (Orphans(t) \cup t.pending)

Good(t, listening, H) == Shape(t) /\ Counted(t, listening) /\ Held(t, H)

Event == Client \cup {"eTCPAcceptEvent", "eSocketCloseEvent"}

\* The sockets that the user task holds, or has posted to be closed.
Handed == owned \cup (ToSet(events) \cap Client)

\* A socket is posted once, by the task that held it.
Posted ==
    /\ events \in Seq(Event) /\ owned \subseteq Client
    /\ \A i, j \in 1 .. Len(events) : events[i] \in Client /\ events[i] = events[j] => i = j
    /\ owned \cap ToSet(events) = {}

Tasks ==
    /\ server \in {"none", "listen", "closing"} /\ user \in {"ready", "waiting"}
    /\ ip \in [pc : {"timers", "walk", "event", "found"}, iterator : SUBSET Client,
               found : SUBSET Client]
    /\ ip.pc = "found" => ip.found \subseteq tcp.acceptable /\ AtMostOne(ip.found)

IInv == Good(tcp, Listening, Handed) /\ Posted /\ Tasks

-----------------------------------------------------------------------------
(***************************************************************************)
(* The operations on the sockets.                                           *)
(***************************************************************************)
LEMMA LiveCount ==
    ASSUME NEW t, Shape(t)
    PROVE  /\ IsFiniteSet(LiveIn(t)) /\ Cardinality(LiveIn(t)) \in Nat
           /\ Len(t.bound) = Cardinality(LiveIn(t))
<1>1. t.bound \in Seq(Client) /\ Distinct(t.bound) /\ ToSet(t.bound) = LiveIn(t)
    BY DEF Shape, TcpType
<1>2. IsFiniteSet(LiveIn(t)) /\ Len(t.bound) = Cardinality(LiveIn(t))
    BY <1>1, DistinctLength
<1> QED
    BY <1>2, FS_CardinalityType

\* Closing a socket that nobody owns and that is not put aside.
LEMMA Closing ==
    ASSUME NEW t, Shape(t), Counted(t, Listening),
           NEW s \in LiveIn(t), s \notin Orphans(t), s \notin t.pending
    PROVE  LET u == vSocketClose(t, s)
           IN  /\ Shape(u) /\ Counted(u, Listening)
               /\ LiveIn(u) = LiveIn(t) \ {s} /\ Orphans(u) = Orphans(t)
               /\ u.acceptable = t.acceptable /\ u.pending = t.pending
<1> DEFINE u == vSocketClose(t, s)
           n == IF Listening /\ t.count # 0 THEN t.count - 1 ELSE t.count
           b == Without(t.bound, {s})
<1>1. t \in TcpType /\ s \in Client
    BY DEF Shape, LiveIn
<1>2. /\ u.state = [t.state EXCEPT ![s] = "free"] /\ u.bound = b
      /\ u.queued = t.queued \ {s} /\ u.acceptable = t.acceptable \ {s}
      /\ u.peer = t.peer /\ u.count = n /\ u.pending = t.pending
      /\ u = [state |-> u.state, bound |-> u.bound, queued |-> u.queued,
              acceptable |-> u.acceptable, peer |-> u.peer, count |-> u.count,
              pending |-> u.pending]
    <2> DEFINE c == prvTCPSetSocketCount(t)
    <2>1. c = [t EXCEPT !.count = n]
        BY DEF prvTCPSetSocketCount
    <2> HIDE DEF n
    <2>2. /\ c.state = t.state /\ c.bound = t.bound /\ c.queued = t.queued
          /\ c.acceptable = t.acceptable /\ c.peer = t.peer /\ c.pending = t.pending
          /\ c.count = n
          /\ DOMAIN c = {"state", "bound", "queued", "acceptable", "peer", "count", "pending"}
          /\ c = [state |-> c.state, bound |-> c.bound, queued |-> c.queued,
                  acceptable |-> c.acceptable, peer |-> c.peer, count |-> c.count,
                  pending |-> c.pending]
        BY <2>1, <1>1 DEF TcpType
    <2> HIDE DEF c
    <2>3. u = [c EXCEPT !.state[s] = "free", !.bound = Without(@, {s}),
                        !.queued = @ \ {s}, !.acceptable = @ \ {s}]
        BY DEF vSocketClose, c
    <2> HIDE DEF u
    <2> QED
        BY <2>2, <2>3
<1>3. t.queued \ {s} = t.queued /\ t.acceptable \ {s} = t.acceptable
    BY DEF Orphans
<1>4. b \in Seq(Client) /\ Distinct(b) /\ ToSet(b) = LiveIn(t) \ {s}
    BY <1>1, WithoutList DEF Shape, TcpType
<1>5. n \in Nat
    BY <1>1 DEF TcpType
<1> HIDE DEF u, b, n
<1>6. u.state \in [Client -> State] /\ LiveIn(u) = LiveIn(t) \ {s}
      /\ \A x \in Client : u.state[x] = "eSYN_RECEIVED" => t.state[x] = "eSYN_RECEIVED"
    BY <1>1, <1>2 DEF TcpType, State, LiveIn
<1>7. u \in TcpType
    BY <1>1, <1>2, <1>3, <1>4, <1>5, <1>6 DEF TcpType
<1>8. Orphans(u) = Orphans(t)
    BY <1>2, <1>3 DEF Orphans
<1>9. Shape(u)
    BY <1>2, <1>3, <1>4, <1>6, <1>7, <1>8 DEF Shape
<1>10. Counted(u, Listening)
    <2>1. IsFiniteSet(LiveIn(t)) /\ Cardinality(LiveIn(t)) \in Nat
        BY LiveCount
    <2>2. Cardinality(LiveIn(u)) = Cardinality(LiveIn(t)) - 1 /\ Cardinality(LiveIn(t)) # 0
        BY <2>1, <1>6, FS_RemoveElement, FS_EmptySet
    <2> QED
        BY <2>1, <2>2, <1>2, <1>8, ListenAssumption DEF Counted, n
<1> QED
    BY <1>2, <1>3, <1>6, <1>8, <1>9, <1>10 DEF u

\* Putting another socket aside, or none, closes the one that was.
LEMMA PuttingAside ==
    ASSUME NEW t, NEW H, Good(t, Listening, H),
           NEW p, p \subseteq LiveIn(t) \ Orphans(t), AtMostOne(p), p \cap H = {}
    PROVE  LET u == vSocketCloseNextTime(t, p)
           IN  Good(u, Listening, H) /\ u.acceptable = t.acceptable
<1> DEFINE v == [t EXCEPT !.pending = p]
           u == vSocketCloseNextTime(t, p)
<1>1. t \in TcpType /\ p \in SUBSET Client
    BY DEF Good, Shape, LiveIn
<1>2. /\ v.state = t.state /\ v.bound = t.bound /\ v.queued = t.queued
      /\ v.acceptable = t.acceptable /\ v.peer = t.peer /\ v.count = t.count /\ v.pending = p
      /\ v \in TcpType
    BY <1>1 DEF TcpType
<1>3. LiveIn(v) = LiveIn(t) /\ Orphans(v) = Orphans(t)
    BY <1>2 DEF LiveIn, Orphans
<1>4. Shape(v) /\ Counted(v, Listening) /\ Held(v, H)
    BY <1>2, <1>3 DEF Good, Shape, Counted, Held
<1>5. CASE t.pending = NULL \/ t.pending = p
    <2>1. u = v
        BY <1>5 DEF vSocketCloseNextTime
    <2> QED
        BY <2>1, <1>2, <1>4 DEF Good
<1>6. CASE t.pending # NULL /\ t.pending # p
    <2> DEFINE x == CHOOSE x \in t.pending : TRUE
    <2>1. x \in t.pending
        BY <1>6 DEF NULL
    <2>2. u = [vSocketClose(t, x) EXCEPT !.pending = p]
        BY <1>6 DEF vSocketCloseNextTime
    <2> HIDE DEF x
    <2>3. vSocketClose(v, x) = [vSocketClose(t, x) EXCEPT !.pending = p]
        BY <1>1 DEF vSocketClose, prvTCPSetSocketCount, TcpType
    <2>4. x \in LiveIn(t) /\ x \notin Orphans(t) /\ x \notin H
        BY <2>1 DEF Good, Shape, Held
    <2>5. x \notin p
        BY <2>1, <1>6 DEF Good, Shape, AtMostOne
    <2> HIDE DEF v, u
    <2>6. u = vSocketClose(v, x) /\ x \in LiveIn(v) /\ x \notin Orphans(v) /\ x \notin v.pending
        BY <2>2, <2>3, <2>4, <2>5, <1>2, <1>3
    <2>7. /\ Shape(u) /\ Counted(u, Listening)
          /\ LiveIn(u) = LiveIn(t) \ {x} /\ Orphans(u) = Orphans(t)
          /\ u.acceptable = t.acceptable /\ u.pending = p
        BY <2>6, <1>2, <1>3, <1>4, Closing
    <2>8. Held(u, H)
        BY <2>4, <2>7 DEF Good, Held
    <2> QED
        BY <2>7, <2>8 DEF Good, u
<1> QED
    BY <1>5, <1>6

\* Another state for a socket that exists.
LEMMA Changing ==
    ASSUME NEW t, NEW H, Good(t, Listening, H), NEW s \in LiveIn(t),
           NEW state \in {"eLAST_ACK", "eCLOSED"}
    PROVE  LET u == [t EXCEPT !.state[s] = state]
           IN  /\ Good(u, Listening, H) /\ LiveIn(u) = LiveIn(t) /\ Orphans(u) = Orphans(t)
               /\ u.state[s] = state /\ u.acceptable = t.acceptable
<1> DEFINE u == [t EXCEPT !.state[s] = state]
<1>1. t \in TcpType /\ s \in Client
    BY DEF Good, Shape, LiveIn
<1>2. /\ u.state = [t.state EXCEPT ![s] = state]
      /\ u.bound = t.bound /\ u.queued = t.queued
      /\ u.acceptable = t.acceptable /\ u.peer = t.peer /\ u.count = t.count
      /\ u.pending = t.pending
      /\ u \in TcpType /\ u.state[s] = state
    BY <1>1 DEF TcpType, State
<1> HIDE DEF u
<1>3. LiveIn(u) = LiveIn(t) /\ Orphans(u) = Orphans(t)
      /\ \A x \in Client : u.state[x] = "eSYN_RECEIVED" => t.state[x] = "eSYN_RECEIVED"
    BY <1>1, <1>2 DEF LiveIn, Orphans, TcpType
<1>4. Shape(u) /\ Counted(u, Listening) /\ Held(u, H)
    BY <1>2, <1>3 DEF Good, Shape, Counted, Held
<1> QED
    BY <1>2, <1>3, <1>4 DEF Good, u

\* A socket is closed by its client or by its timer.
LEMMA ClosingState ==
    ASSUME NEW t, NEW H, Good(t, Listening, H), NEW s \in LiveIn(t)
    PROVE  Good(ToClosed(t, s), Listening, H)
<1> DEFINE c == [t EXCEPT !.state[s] = "eCLOSED"]
           d == [c EXCEPT !.peer = @ \ {s}, !.queued = @ \ {s}, !.acceptable = @ \ {s}]
<1>1. /\ Good(c, Listening, H) /\ LiveIn(c) = LiveIn(t) /\ Orphans(c) = Orphans(t)
      /\ c.state[s] = "eCLOSED"
    BY Changing
<1>2. CASE s \notin Orphans(t)
    BY <1>1, <1>2 DEF ToClosed
<1>3. CASE s \in Orphans(t)
    <2>1. ToClosed(t, s) = vSocketCloseNextTime(d, {s})
        BY <1>3 DEF ToClosed
    <2> HIDE DEF c
    <2>2. c \in TcpType /\ s \in Client
        BY <1>1 DEF Good, Shape, LiveIn
    <2>3. /\ d.state = c.state /\ d.bound = c.bound /\ d.queued = c.queued \ {s}
          /\ d.acceptable = c.acceptable \ {s} /\ d.peer = c.peer \ {s}
          /\ d.count = c.count /\ d.pending = c.pending /\ d \in TcpType
        BY <2>2 DEF TcpType
    <2> HIDE DEF d
    <2>4. LiveIn(d) = LiveIn(c) /\ Orphans(d) = Orphans(c) \ {s}
        BY <2>3 DEF LiveIn, Orphans
    <2>5. s \notin c.pending /\ s \notin H
        BY <1>1, <1>3 DEF Good, Shape, Held
    <2>6. Shape(d)
        BY <1>1, <2>3, <2>4, <2>5 DEF Good, Shape, AtMostOne
    <2>7. Counted(d, Listening)
        BY <1>1, <2>3, <2>4 DEF Good, Counted
    <2>8. Held(d, H)
        BY <1>1, <2>3, <2>4 DEF Good, Held
    <2>9. {s} \subseteq LiveIn(d) \ Orphans(d) /\ AtMostOne({s}) /\ {s} \cap H = {}
        BY <1>1, <2>4, <2>5 DEF AtMostOne
    <2> QED
        BY <2>1, <2>6, <2>7, <2>8, <2>9, PuttingAside DEF Good
<1> QED
    BY <1>2, <1>3

\* The handshake of a client is completed.
LEMMA Connecting ==
    ASSUME NEW t, NEW H, Good(t, Listening, H), NEW s \in Client, t.state[s] = "eSYN_RECEIVED"
    PROVE  Good(ToConnected(t, s), Listening, H)
<1> DEFINE u == ToConnected(t, s)
           p == IF t.peer = NULL THEN {s} ELSE t.peer
<1>1. t \in TcpType /\ s \in t.queued /\ s \in LiveIn(t)
    BY DEF Good, Shape, LiveIn
<1>2. p \in SUBSET Client /\ p \subseteq t.peer \cup {s} /\ AtMostOne(p)
    BY <1>1 DEF Good, Shape, TcpType, AtMostOne
<1> HIDE DEF p
<1>3. /\ u.state = [t.state EXCEPT ![s] = "eESTABLISHED"]
      /\ u.bound = t.bound /\ u.queued = t.queued \ {s}
      /\ u.acceptable = t.acceptable \cup {s} /\ u.peer = p /\ u.count = t.count
      /\ u.pending = t.pending /\ u \in TcpType
    <2>1. u = [t EXCEPT !.state[s] = "eESTABLISHED", !.peer = p, !.queued = @ \ {s},
                        !.acceptable = @ \cup {s}]
        BY <1>1 DEF ToConnected, p, TcpType
    <2> HIDE DEF u
    <2> QED
        BY <2>1, <1>1, <1>2 DEF TcpType, State
<1> HIDE DEF u
<1>4. /\ LiveIn(u) = LiveIn(t) /\ Orphans(u) = Orphans(t)
      /\ \A x \in Client : u.state[x] = "eSYN_RECEIVED" => x # s /\ t.state[x] = "eSYN_RECEIVED"
    BY <1>1, <1>3 DEF LiveIn, Orphans, TcpType
<1>5. Shape(u)
    BY <1>1, <1>2, <1>3, <1>4 DEF Good, Shape, Orphans
<1>6. Counted(u, Listening) /\ Held(u, H)
    BY <1>3, <1>4 DEF Good, Counted, Held
<1> QED
    BY <1>5, <1>6 DEF Good, u

\* A child for a new client.
LEMMA Copying ==
    ASSUME NEW t, NEW H, Good(t, Listening, H), NEW s \in Client, t.state[s] = "free",
           Listening, t.count < Backlog
    PROVE  Good(prvTCPSocketCopy(t, s), Listening, H)
<1> DEFINE u == prvTCPSocketCopy(t, s)
           p == IF t.peer = NULL THEN {s} ELSE t.peer
           b == Append(t.bound, s)
<1>1. t \in TcpType /\ s \notin LiveIn(t) /\ s \notin ToSet(t.bound)
    BY DEF Good, Shape, LiveIn
<1>2. p \in SUBSET Client /\ p \subseteq t.peer \cup {s} /\ AtMostOne(p)
    BY <1>1 DEF Good, Shape, TcpType, AtMostOne
<1>3. b \in Seq(Client) /\ Distinct(b) /\ ToSet(b) = LiveIn(t) \cup {s}
    BY <1>1, AppendList DEF Good, Shape, TcpType
<1>4. t.count + 1 \in Nat
    BY <1>1 DEF TcpType
<1>5. u = [t EXCEPT !.state[s] = "eSYN_RECEIVED", !.queued = @ \cup {s}, !.count = @ + 1,
                    !.peer = p, !.bound = b]
    BY <1>1 DEF prvTCPSocketCopy, TcpType
<1> HIDE DEF p, b, u
<1>6. /\ u.state = [t.state EXCEPT ![s] = "eSYN_RECEIVED"]
      /\ u.bound = b /\ u.queued = t.queued \cup {s}
      /\ u.acceptable = t.acceptable /\ u.peer = p /\ u.count = t.count + 1
      /\ u.pending = t.pending /\ u \in TcpType
    BY <1>1, <1>2, <1>3, <1>4, <1>5 DEF TcpType, State
<1>7. /\ LiveIn(u) = LiveIn(t) \cup {s} /\ Orphans(u) = Orphans(t) \cup {s}
      /\ \A x \in Client : u.state[x] = "eSYN_RECEIVED" => x = s \/ t.state[x] = "eSYN_RECEIVED"
    BY <1>1, <1>6 DEF LiveIn, Orphans, TcpType
<1>8. s \notin t.pending /\ s \notin H /\ s \notin t.acceptable
    BY <1>1 DEF Good, Shape, Held, Orphans
<1>9. Shape(u)
    BY <1>1, <1>2, <1>3, <1>6, <1>7, <1>8 DEF Good, Shape
<1>10. Counted(u, Listening)
    <2>1. IsFiniteSet(LiveIn(t)) /\ Cardinality(LiveIn(t)) \in Nat
        BY LiveCount DEF Good
    <2>2. Cardinality(LiveIn(u)) = Cardinality(LiveIn(t)) + 1
        BY <2>1, <1>1, <1>7, FS_AddElement
    <2> QED
        BY <2>1, <2>2, <1>6, ListenAssumption DEF Good, Counted
<1>11. Held(u, H)
    BY <1>6, <1>7, <1>8 DEF Good, Held
<1> QED
    BY <1>9, <1>10, <1>11 DEF Good, u

\* The listening socket is closed.
LEMMA ClosingServer ==
    ASSUME NEW t, NEW H, NEW l, Good(t, l, H)
    PROVE  Good(CloseServer(t), FALSE, H)
<1> DEFINE u == CloseServer(t)
           b == Without(t.bound, Orphans(t))
           f == [s \in Client |-> IF s \in Orphans(t) THEN "free" ELSE t.state[s]]
<1>1. t \in TcpType
    BY DEF Good, Shape
<1>2. b \in Seq(Client) /\ Distinct(b) /\ ToSet(b) = LiveIn(t) \ Orphans(t)
    BY <1>1, WithoutList DEF Good, Shape, TcpType
<1>3. f \in [Client -> State] /\ \A x \in Client : f[x] = IF x \in Orphans(t) THEN "free" ELSE t.state[x]
    BY <1>1 DEF TcpType, State
<1>4. u = [t EXCEPT !.state = f, !.bound = b, !.queued = {}, !.acceptable = {}, !.peer = {},
                    !.count = 0]
    BY <1>1 DEF CloseServer, NULL, TcpType
<1> HIDE DEF f, b, u
<1>5. /\ u.state = f /\ u.bound = b /\ u.queued = {} /\ u.acceptable = {} /\ u.peer = {}
      /\ u.count = 0 /\ u.pending = t.pending /\ u \in TcpType
    BY <1>1, <1>2, <1>3, <1>4 DEF TcpType
<1>6. LiveIn(u) = LiveIn(t) \ Orphans(t) /\ Orphans(u) = {}
    BY <1>3, <1>5 DEF LiveIn, Orphans
<1>7. \A x \in Client : u.state[x] # "eSYN_RECEIVED"
    BY <1>3, <1>5 DEF Good, Shape, Orphans
<1>8. Shape(u)
    BY <1>2, <1>5, <1>6, <1>7 DEF Good, Shape, AtMostOne
<1>9. Counted(u, FALSE) /\ Held(u, H)
    BY <1>5, <1>6 DEF Good, Counted, Held
<1> QED
    BY <1>8, <1>9 DEF Good, u

-----------------------------------------------------------------------------
(***************************************************************************)
(* The event queue.                                                         *)
(***************************************************************************)
\* The IP task takes the first event.
LEMMA TakingEvent ==
    ASSUME Posted, events # << >>, events' = Tail(events), UNCHANGED owned
    PROVE  /\ Posted' /\ Head(events) \in Event
           /\ Handed' \subseteq Handed
           /\ Head(events) \in Client => Head(events) \in Handed /\ Head(events) \notin Handed'
<1> DEFINE t == Tail(events)
<1>1. events \in Seq(Event) /\ Len(events) \in Nat
    BY LenProperties DEF Posted
<1>2. /\ Head(events) \in Event /\ t \in Seq(Event) /\ Len(t) = Len(events) - 1 /\ Len(events) >= 1
      /\ Head(events) = events[1]
      /\ \A i \in 1 .. Len(t) : i + 1 \in 1 .. Len(events) /\ t[i] = events[i + 1]
    BY <1>1, HeadTailProperties, EmptySeq
<1> HIDE DEF t
<1>3. \A x : x \in ToSet(t) <=> \E i \in 1 .. Len(t) : t[i] = x
    BY <1>2, ElementsOf
<1>4. \A x : x \in ToSet(events) <=> \E i \in 1 .. Len(events) : events[i] = x
    BY <1>1, ElementsOf
<1>5. ToSet(t) \subseteq ToSet(events) /\ Head(events) \in ToSet(events)
    BY <1>1, <1>2, <1>3, <1>4
<1>6. \A i, j \in 1 .. Len(t) : t[i] \in Client /\ t[i] = t[j] => i = j
    <2> SUFFICES ASSUME NEW i \in 1 .. Len(t), NEW j \in 1 .. Len(t), t[i] \in Client, t[i] = t[j]
                 PROVE  i = j
        OBVIOUS
    <2>1. i + 1 = j + 1
        BY <1>2 DEF Posted
    <2> QED
        BY <2>1, <1>1, <1>2
<1>7. Head(events) \in Client => Head(events) \notin ToSet(t)
    <2> SUFFICES ASSUME Head(events) \in Client, NEW i \in 1 .. Len(t), t[i] = Head(events)
                 PROVE  FALSE
        BY <1>3
    <2>1. 1 \in 1 .. Len(events) /\ i + 1 \in 1 .. Len(events)
        BY <1>1, <1>2
    <2>2. 1 = i + 1
        BY <2>1, <1>2 DEF Posted
    <2> QED
        BY <2>2, <1>1, <1>2
<1>8. events' = t /\ owned' = owned
    BY DEF t
<1> QED
    BY <1>2, <1>5, <1>6, <1>7, <1>8 DEF Posted, Handed

\* The user task posts an event: a new client's socket only when it holds it.
LEMMA PostingEvent ==
    ASSUME Posted, NEW e \in Event, events' = Append(events, e),
           owned' \subseteq Client, owned' \cap ToSet(events) = {}, e \notin owned',
           e \notin ToSet(events) \/ e \notin Client
    PROVE  /\ Posted' /\ Handed' \subseteq owned' \cup Handed \cup {e}
           /\ e \notin Client => Handed' = owned' \cup (ToSet(events) \cap Client)
<1> DEFINE q == Append(events, e)
<1>1. events \in Seq(Event)
    BY DEF Posted
<1>2. /\ q \in Seq(Event) /\ Len(q) = Len(events) + 1 /\ Len(events) \in Nat
      /\ \A i \in 1 .. Len(events) + 1 : q[i] = IF i <= Len(events) THEN events[i] ELSE e
    BY <1>1
<1>3. ToSet(q) = ToSet(events) \cup {e}
    BY <1>1, AppendList
<1>4. e \in Client => \A i \in 1 .. Len(events) : events[i] # e
    BY <1>1, ElementsOf
<1>5. \A i, j \in 1 .. Len(q) : q[i] \in Client /\ q[i] = q[j] => i = j
    BY <1>2, <1>4 DEF Posted
<1>6. events' = q
    OBVIOUS
<1> HIDE DEF q
<1> QED
    BY <1>2, <1>3, <1>5, <1>6 DEF Posted, Handed

-----------------------------------------------------------------------------
(***************************************************************************)
(* The steps.  Without preemption the IP task is not interrupted between    *)
(* finding a client and linking it.                                         *)
(***************************************************************************)
LEMMA InitInv == Init => IInv
<1> SUFFICES ASSUME Init PROVE IInv
    OBVIOUS
<1> DEFINE z == [s \in Client |-> "free"]
<1>1. z \in [Client -> State] /\ \A s \in Client : z[s] = "free"
    BY DEF State
<1>2. << >> \in Seq(Client) /\ << >> \in Seq(Event) /\ Len(<< >>) = 0 /\ 1 .. 0 = {}
    BY EmptySeq
<1>3. ToSet(<< >>) = {} /\ Distinct(<< >>)
    BY <1>2, ElementsOf DEF Distinct
<1>4. /\ tcp = [state |-> z, bound |-> << >>, queued |-> {}, acceptable |-> {}, peer |-> {},
                count |-> 0, pending |-> {}]
      /\ events = << >> /\ owned = {}
    BY DEF Init, NULL
<1> HIDE DEF z
<1>5. /\ tcp \in TcpType /\ tcp.state = z /\ tcp.bound = << >> /\ tcp.queued = {}
      /\ tcp.acceptable = {} /\ tcp.peer = {} /\ tcp.count = 0 /\ tcp.pending = {}
    BY <1>1, <1>2, <1>4 DEF TcpType
<1>6. LiveIn(tcp) = {} /\ Orphans(tcp) = {}
    BY <1>1, <1>5 DEF LiveIn, Orphans
<1>7. Shape(tcp)
    BY <1>1, <1>3, <1>5, <1>6 DEF Shape, AtMostOne
<1>8. Counted(tcp, Listening)
    <2>1. ~Listening
        BY DEF Init, Listening
    <2> QED
        BY <2>1, <1>5, <1>6 DEF Counted
<1>9. Held(tcp, Handed)
    BY <1>3, <1>4 DEF Held, Handed
<1>10. Posted
    BY <1>2, <1>3, <1>4 DEF Posted
<1>11. Tasks
    BY DEF Init, Tasks, NULL
<1> QED
    BY <1>7, <1>8, <1>9, <1>10, <1>11 DEF IInv, Good

\* A step that leaves the queue and the user task alone, and keeps the sockets
\* in order.
LEMMA IPStep ==
    ASSUME IInv, UNCHANGED <<server, events, owned, user>>,
           Good(tcp', Listening, Handed),
           ip' \in [pc : {"timers", "walk", "event"}, iterator : SUBSET Client,
                    found : SUBSET Client]
    PROVE  IInv'
<1>1. Listening' = Listening /\ Handed' = Handed /\ Posted'
    BY DEF IInv, Listening, Handed, Posted
<1>2. Good(tcp', Listening', Handed')
    BY <1>1
<1>3. Tasks'
    BY DEF IInv, Tasks
<1> QED
    BY <1>1, <1>2, <1>3 DEF IInv

LEMMA NextBoundTyped ==
    ASSUME NEW t \in TcpType, NEW s PROVE NextBound(t, s) \in SUBSET Client
<1>1. t.bound \in Seq(Client) /\ Len(t.bound) \in Nat
    BY LenProperties DEF TcpType
<1>2. \A j \in 1 .. Len(t.bound) - 1 : t.bound[j + 1] \in Client
    BY <1>1, ElementOfSeq
<1> QED
    BY <1>2 DEF NextBound

LEMMA FirstTyped ==
    ASSUME NEW q \in Seq(Client) PROVE First(q) \in SUBSET Client
BY HeadTailProperties DEF First, NULL

LEMMA NextInv == ASSUME Preempt = FALSE PROVE IInv /\ [Next]_vars => IInv'
<1> SUFFICES ASSUME IInv, [Next]_vars PROVE IInv'
    OBVIOUS
<1>1. /\ Good(tcp, Listening, Handed) /\ Posted /\ Tasks
      /\ tcp \in TcpType /\ ip \in [pc : {"timers", "walk", "event", "found"},
                                    iterator : SUBSET Client, found : SUBSET Client]
    BY DEF IInv, Tasks, Good, Shape
<1>2. ASSUME Handled PROVE ip' \in [pc : {"timers", "walk", "event"}, iterator : SUBSET Client,
                                     found : SUBSET Client]
    BY <1>1, <1>2 DEF Handled
<1>3. CASE UNCHANGED vars
    BY <1>1, <1>3 DEF vars, IInv, Good, Listening, Handed, Posted, Tasks
<1>4. ASSUME NEW expired \in BOOLEAN, vCheckNetworkTimers(expired) PROVE IInv'
    <2>1. First(tcp.bound) \in SUBSET Client /\ NULL \in SUBSET Client
        BY <1>1, FirstTyped DEF TcpType, NULL
    <2> DEFINE it == IF expired THEN First(tcp.bound) ELSE NULL
    <2>2. it \in SUBSET Client /\ ip' = [ip EXCEPT !.pc = "walk", !.iterator = it]
        BY <1>4, <2>1 DEF vCheckNetworkTimers
    <2> HIDE DEF it
    <2>3. ip' \in [pc : {"timers", "walk", "event"}, iterator : SUBSET Client,
                   found : SUBSET Client]
        BY <1>1, <2>2
    <2>4. UNCHANGED <<tcp, server, events, owned, user>>
        BY <1>4 DEF vCheckNetworkTimers
    <2> QED
        BY <1>1, <2>3, <2>4, IPStep
<1>5. ASSUME NEW s \in Client, NEW aged \in BOOLEAN, xTCPTimerCheck(s, aged) PROVE IInv'
    <2>1. ip' \in [pc : {"timers", "walk", "event"}, iterator : SUBSET Client,
                   found : SUBSET Client]
        <3> DEFINE it == NextBound(tcp, s)
        <3>1. it \in SUBSET Client
            BY <1>1, NextBoundTyped
        <3>2. ip.pc = "walk" /\ ip' = [ip EXCEPT !.iterator = it]
            BY <1>5 DEF xTCPTimerCheck
        <3> HIDE DEF it
        <3> QED
            BY <1>1, <3>1, <3>2
    <2>2. Good(tcp', Listening, Handed)
        <3>1. CASE aged
            <4>1. tcp' = ToClosed(tcp, s) /\ s \in LiveIn(tcp)
                BY <1>5, <3>1 DEF xTCPTimerCheck, LiveIn
            <4> QED
                BY <4>1, <1>1, ClosingState
        <3>2. CASE ~aged
            BY <1>1, <1>5, <3>2 DEF xTCPTimerCheck
        <3> QED
            BY <3>1, <3>2
    <2>3. UNCHANGED <<server, events, owned, user>>
        BY <1>5 DEF xTCPTimerCheck
    <2> QED
        BY <2>1, <2>2, <2>3, IPStep
<1>6. CASE TimersDone
    <2>1. ip' \in [pc : {"timers", "walk", "event"}, iterator : SUBSET Client,
                   found : SUBSET Client]
        BY <1>1, <1>6 DEF TimersDone
    <2>2. Good(tcp', Listening, Handed)
        <3>1. tcp' = vSocketCloseNextTime(tcp, {}) /\ AtMostOne({})
            BY <1>6 DEF TimersDone, NULL, AtMostOne
        <3> QED
            BY <3>1, <1>1, PuttingAside
    <2>3. UNCHANGED <<server, events, owned, user>>
        BY <1>6 DEF TimersDone
    <2> QED
        BY <2>1, <2>2, <2>3, IPStep
<1>7. CASE NoEvent
    BY <1>1, <1>2, <1>7, IPStep DEF NoEvent
<1>8. ASSUME NEW s \in Client, Packet(s) PROVE IInv'
    <2>1. Handled /\ UNCHANGED <<server, events, owned, user>>
        BY <1>8 DEF Packet, prvHandleListen, prvHandleSynReceived, prvTCPHandleFin, RecvReset
    <2>2. Good(tcp', Listening, Handed)
        <3>1. CASE prvHandleListen(s)
            BY <1>1, <3>1, Copying DEF prvHandleListen
        <3>2. CASE prvHandleSynReceived(s)
            BY <1>1, <3>2, Connecting DEF prvHandleSynReceived
        <3>3. CASE prvTCPHandleFin(s)
            <4>1. s \in LiveIn(tcp) /\ tcp' = [tcp EXCEPT !.state[s] = "eLAST_ACK"]
                BY <3>3 DEF prvTCPHandleFin, LiveIn
            <4> QED
                BY <4>1, <1>1, Changing
        <3>4. CASE RecvReset(s)
            <4>1. s \in LiveIn(tcp) /\ tcp' = ToClosed(tcp, s)
                BY <3>4 DEF RecvReset, LiveIn
            <4> QED
                BY <4>1, <1>1, ClosingState
        <3> QED
            BY <1>8, <3>1, <3>2, <3>3, <3>4 DEF Packet
    <2> QED
        BY <1>2, <2>1, <2>2, IPStep
<1>9. CASE xTCPCheckNewClient
    <2> DEFINE rows == {i \in 1 .. Len(tcp.bound) : tcp.bound[i] \in tcp.acceptable}
               found == {tcp.bound[i] : i \in {j \in rows : \A k \in rows : j <= k}}
               pc == IF found = NULL THEN "timers" ELSE "found"
    <2>1. ip' = [ip EXCEPT !.pc = pc, !.found = found]
        BY <1>9 DEF xTCPCheckNewClient
    <2>2. found \subseteq tcp.acceptable /\ AtMostOne(found)
        <3>1. \A i, j \in rows : i <= j /\ j <= i => i = j
            BY <1>1, LenProperties DEF TcpType
        <3> QED
            BY <3>1 DEF AtMostOne
    <2>3. found \in SUBSET Client /\ pc \in {"timers", "found"}
        BY <1>1, <2>2 DEF TcpType
    <2> HIDE DEF found, pc
    <2>4. /\ ip' \in [pc : {"timers", "walk", "event", "found"}, iterator : SUBSET Client,
                      found : SUBSET Client]
          /\ ip'.found = found
        BY <1>1, <2>1, <2>3
    <2>5. UNCHANGED <<tcp, server, owned, user>> /\ events # << >> /\ events' = Tail(events)
        BY <1>9 DEF xTCPCheckNewClient
    <2>6. Posted' /\ Handed' \subseteq Handed
        BY <1>1, <2>5, TakingEvent
    <2>7. Good(tcp', Listening', Handed')
        BY <1>1, <2>5, <2>6 DEF Good, Held, Listening
    <2>8. Tasks'
        BY <1>1, <2>2, <2>4, <2>5 DEF Tasks
    <2> QED
        BY <2>6, <2>7, <2>8 DEF IInv
<1>10. CASE LinkNewClient
    <2>1. /\ tcp' = [tcp EXCEPT !.peer = ip.found] /\ UNCHANGED <<server, events, owned, user>>
          /\ ip.found \subseteq tcp.acceptable /\ AtMostOne(ip.found)
        BY <1>1, <1>10 DEF LinkNewClient, Tasks
    <2>2. /\ tcp'.state = tcp.state /\ tcp'.bound = tcp.bound /\ tcp'.queued = tcp.queued
          /\ tcp'.acceptable = tcp.acceptable /\ tcp'.peer = ip.found /\ tcp'.count = tcp.count
          /\ tcp'.pending = tcp.pending /\ tcp' \in TcpType
        BY <1>1, <2>1 DEF TcpType
    <2>3. LiveIn(tcp') = LiveIn(tcp) /\ Orphans(tcp') = Orphans(tcp)
        BY <2>2 DEF LiveIn, Orphans
    <2>4. ip.found \subseteq Orphans(tcp)
        BY <2>1 DEF Orphans
    <2>5. Good(tcp', Listening, Handed)
        BY <1>1, <2>1, <2>2, <2>3, <2>4 DEF Good, Shape, Counted, Held
    <2>6. ip' \in [pc : {"timers", "walk", "event"}, iterator : SUBSET Client,
                   found : SUBSET Client]
        BY <1>1, <1>10 DEF LinkNewClient, NULL
    <2> QED
        BY <2>1, <2>5, <2>6, IPStep
<1>11. CASE CloseEvent
    <2>1. /\ events # << >> /\ events' = Tail(events) /\ UNCHANGED <<owned, user>>
          /\ Head(events) # "eTCPAcceptEvent"
          /\ ip' \in [pc : {"timers", "walk", "event"}, iterator : SUBSET Client,
                      found : SUBSET Client]
        BY <1>2, <1>11 DEF CloseEvent
    <2>2. /\ Posted' /\ Head(events) \in Event /\ Handed' \subseteq Handed
          /\ Head(events) \in Client => Head(events) \in Handed /\ Head(events) \notin Handed'
        BY <1>1, <2>1, TakingEvent
    <2>3. Good(tcp', Listening', Handed') /\ server' \in {"none", "listen", "closing"}
        <3>1. CASE Head(events) = "eSocketCloseEvent"
            <4>1. tcp' = CloseServer(tcp) /\ server' = "none" /\ Listening' = FALSE
                BY <1>11, <3>1 DEF CloseEvent, Listening
            <4>2. Good(tcp', FALSE, Handed)
                BY <4>1, <1>1, ClosingServer
            <4> QED
                BY <4>1, <4>2, <2>2 DEF Good, Held
        <3>2. CASE Head(events) # "eSocketCloseEvent"
            <4> DEFINE s == Head(events)
            <4>1. s \in Client
                BY <2>1, <2>2, <3>2 DEF Event
            <4>2. tcp' = vSocketClose(tcp, s) /\ server' = server /\ Listening' = Listening
                BY <1>11, <3>2 DEF CloseEvent, Listening
            <4>3. s \in LiveIn(tcp) /\ s \notin Orphans(tcp) /\ s \notin tcp.pending
                BY <4>1, <2>2, <1>1 DEF Good, Held
            <4> HIDE DEF s
            <4>4. /\ Shape(tcp') /\ Counted(tcp', Listening)
                  /\ LiveIn(tcp') = LiveIn(tcp) \ {s} /\ Orphans(tcp') = Orphans(tcp)
                  /\ tcp'.pending = tcp.pending
                BY <4>2, <4>3, <1>1, Closing DEF Good
            <4>5. Held(tcp', Handed')
                BY <1>1, <2>2, <4>1, <4>4 DEF Good, Held, s
            <4> QED
                BY <1>1, <4>2, <4>4, <4>5 DEF Good, Tasks
        <3> QED
            BY <3>1, <3>2
    <2>4. Tasks'
        BY <1>1, <2>1, <2>3 DEF Tasks
    <2> QED
        BY <2>2, <2>3, <2>4 DEF IInv
<1>12. CASE FreeRTOS_accept
    <2>1. /\ UNCHANGED <<server, ip>> /\ user' \in {"ready", "waiting"} /\ ip.pc # "found"
          /\ server = "listen" /\ Listening' = Listening
        BY <1>12, Preempt = FALSE DEF FreeRTOS_accept, UserRuns, Listening
    <2>2. CASE tcp.peer \cap tcp.acceptable # {}
        <3>1. /\ tcp' = [tcp EXCEPT !.peer = NULL, !.acceptable = @ \ tcp.peer]
              /\ owned' = owned \cup tcp.peer /\ events' = Append(events, "eTCPAcceptEvent")
            BY <1>12, <2>2 DEF FreeRTOS_accept
        <3>2. /\ tcp'.state = tcp.state /\ tcp'.bound = tcp.bound /\ tcp'.queued = tcp.queued
              /\ tcp'.acceptable = tcp.acceptable \ tcp.peer /\ tcp'.peer = {}
              /\ tcp'.count = tcp.count
              /\ tcp'.pending = tcp.pending /\ tcp' \in TcpType
            BY <1>1, <3>1 DEF TcpType, NULL
        <3>3. tcp.peer \subseteq tcp.acceptable
            BY <1>1, <2>2 DEF Good, Shape, AtMostOne
        <3>4. LiveIn(tcp') = LiveIn(tcp) /\ Orphans(tcp') = Orphans(tcp) \ tcp.peer
            BY <1>1, <3>2, <3>3 DEF Good, Shape, LiveIn, Orphans
        <3>5. Shape(tcp')
            BY <1>1, <3>2, <3>4 DEF Good, Shape, AtMostOne
        <3>6. Counted(tcp', Listening)
            BY <1>1, <2>1, <3>2, <3>4 DEF Good, Counted, Listening
        <3>7. /\ tcp.peer \subseteq LiveIn(tcp) \ tcp.pending /\ tcp.peer \cap Handed = {}
              /\ tcp.peer \subseteq Client
            BY <1>1, <3>3 DEF Good, Shape, Held, TcpType
        <3>8. /\ "eTCPAcceptEvent" \in Event /\ "eTCPAcceptEvent" \notin Client
              /\ owned' \subseteq Client /\ owned' \cap ToSet(events) = {}
              /\ "eTCPAcceptEvent" \notin owned'
            BY <1>1, <3>1, <3>7, ListenAssumption DEF Event, Posted, Handed
        <3>9. Posted' /\ Handed' = Handed \cup tcp.peer
            BY <1>1, <3>1, <3>8, PostingEvent DEF Handed
        <3>10. Held(tcp', Handed')
            BY <1>1, <3>2, <3>4, <3>7, <3>9 DEF Good, Held
        <3>11. Tasks'
            BY <1>1, <2>1 DEF Tasks
        <3> QED
            BY <2>1, <3>5, <3>6, <3>9, <3>10, <3>11 DEF IInv, Good
    <2>3. CASE ~(tcp.peer \cap tcp.acceptable # {})
        <3>1. UNCHANGED <<tcp, owned, events>>
            BY <1>12, <2>3 DEF FreeRTOS_accept
        <3>2. Posted' /\ Handed' = Handed
            BY <1>1, <3>1 DEF Posted, Handed
        <3>3. Tasks'
            BY <1>1, <2>1, <3>1 DEF Tasks
        <3> QED
            BY <1>1, <2>1, <3>1, <3>2, <3>3 DEF IInv
    <2> QED
        BY <2>2, <2>3
<1>13. CASE AcceptWakesUp
    <2>1. UNCHANGED <<tcp, server, ip, events, owned>> /\ user' = "ready"
        BY <1>13 DEF AcceptWakesUp
    <2>2. Posted' /\ Handed' = Handed /\ Listening' = Listening /\ Tasks'
        BY <1>1, <2>1 DEF Posted, Handed, Listening, Tasks
    <2> QED
        BY <1>1, <2>1, <2>2 DEF IInv
<1>14. CASE FreeRTOS_listen
    <2>1. /\ server = "none" /\ server' = "listen" /\ tcp.bound = << >>
          /\ UNCHANGED <<tcp, ip, events, owned, user>>
        BY <1>14 DEF FreeRTOS_listen
    <2>2. Posted' /\ Handed' = Handed /\ Tasks'
        BY <1>1, <2>1 DEF Posted, Handed, Tasks
    <2>3. Counted(tcp', Listening')
        <3>1. Cardinality(LiveIn(tcp)) = Len(tcp.bound) /\ Len(tcp.bound) = 0
            BY <1>1, <2>1, LiveCount, EmptySeq DEF Good
        <3>2. tcp.count = 0
            BY <1>1, <2>1 DEF Good, Counted, Listening
        <3> QED
            BY <2>1, <3>1, <3>2, ListenAssumption DEF Counted, Listening
    <2> QED
        BY <1>1, <2>1, <2>2, <2>3 DEF IInv, Good
<1>15. CASE CloseListening
    <2>1. /\ server' = "closing" /\ Listening' = Listening
          /\ events' = Append(events, "eSocketCloseEvent")
          /\ UNCHANGED <<tcp, ip, owned, user>>
        BY <1>15 DEF CloseListening, Listening
    <2>2. /\ "eSocketCloseEvent" \in Event /\ "eSocketCloseEvent" \notin Client
          /\ owned' \subseteq Client /\ owned' \cap ToSet(events) = {}
          /\ "eSocketCloseEvent" \notin owned'
        BY <1>1, <2>1, ListenAssumption DEF Event, Posted
    <2>3. Posted' /\ Handed' = Handed
        BY <1>1, <2>1, <2>2, PostingEvent DEF Handed
    <2>4. Tasks'
        BY <1>1, <2>1 DEF Tasks
    <2> QED
        BY <1>1, <2>1, <2>3, <2>4 DEF IInv
<1>16. ASSUME NEW s \in Client, FreeRTOS_closesocket(s) PROVE IInv'
    <2>1. /\ s \in owned /\ owned' = owned \ {s} /\ events' = Append(events, s)
          /\ UNCHANGED <<tcp, server, ip, user>>
        BY <1>16 DEF FreeRTOS_closesocket
    <2>2. /\ s \in Event /\ s \notin ToSet(events)
          /\ owned' \subseteq Client /\ owned' \cap ToSet(events) = {} /\ s \notin owned'
        BY <1>1, <2>1 DEF Event, Posted
    <2>3. Posted' /\ Handed' \subseteq owned' \cup Handed \cup {s}
        BY <1>1, <2>1, <2>2, PostingEvent
    <2>4. Handed' \subseteq Handed
        BY <2>1, <2>3 DEF Handed
    <2>5. Good(tcp', Listening', Handed')
        BY <1>1, <2>1, <2>4 DEF Good, Held, Listening
    <2>6. Tasks'
        BY <1>1, <2>1 DEF Tasks
    <2> QED
        BY <2>3, <2>5, <2>6 DEF IInv
<1> QED
    BY <1>3, <1>4, <1>5, <1>6, <1>7, <1>8, <1>9, <1>10, <1>11, <1>12, <1>13, <1>14, <1>15, <1>16
    DEF Next, Timers, UserEvent

-----------------------------------------------------------------------------
(***************************************************************************)
(* The theorems.  Preempt = FALSE: no user task of a higher priority runs   *)
(* between the two steps of xTCPCheckNewClient.                             *)
(***************************************************************************)
\* The invariant holds in every reachable state.
THEOREM ListenInvariance == ASSUME Preempt = FALSE PROVE Spec => []IInv
<1>1. Init => IInv
    BY InitInv
<1>2. IInv /\ [Next]_vars => IInv'
    BY NextInv, Preempt = FALSE
<1> QED
    BY <1>1, <1>2, PTL DEF Spec

\* The sockets, the list of bound sockets (every socket that exists, once),
\* the queue and both tasks always have their types.
THEOREM ListenTyped == ASSUME Preempt = FALSE PROVE Spec => []TypeOK
<1>1. IInv => TypeOK
    <2> SUFFICES ASSUME IInv PROVE TypeOK
        OBVIOUS
    <2>1. Shape(tcp) /\ tcp \in TcpType /\ LiveIn(tcp) = Live
        BY DEF IInv, Good, Shape, LiveIn, Live
    <2>2. ToSet(tcp.bound) = Live /\ Len(tcp.bound) = Cardinality(Live)
        BY <2>1, LiveCount DEF Shape
    <2>3. ToSet(events) \subseteq Event
        BY ElementsOf DEF IInv, Posted
    <2> QED
        BY <2>1, <2>2, <2>3 DEF IInv, Tasks, TypeOK, TcpType, State, Event
<1> QED
    BY <1>1, ListenInvariance, Preempt = FALSE, PTL

\* No pointer outlives its socket: neither pxPeerSocket, nor the sockets that
\* the user task holds or has posted to be closed; and the one that the IP task
\* has put aside to free is offered to nobody and held by nobody.
THEOREM PointersSafe == ASSUME Preempt = FALSE PROVE Spec => []PointersAlive
<1>1. IInv => PointersAlive
    <2> SUFFICES ASSUME IInv PROVE PointersAlive
        OBVIOUS
    <2>1. LiveIn(tcp) = Live /\ tcp.pending \subseteq Client
        BY DEF IInv, Good, Shape, LiveIn, Live
    <2>2. tcp.pending \cap ToSet(events) = {}
        BY <2>1 DEF IInv, Good, Held, Handed
    <2> QED
        BY <2>1, <2>2 DEF IInv, Good, Shape, Held, Handed, PointersAlive
<1> QED
    BY <1>1, ListenInvariance, Preempt = FALSE, PTL

\* usChildCount is the number of the children that exist, whoever closes them
\* and in whatever order, and it never exceeds the backlog.
THEOREM ChildrenCounted == ASSUME Preempt = FALSE PROVE Spec => []ChildCountExact
<1>1. IInv => ChildCountExact
    <2> SUFFICES ASSUME IInv, Listening PROVE tcp.count = Len(tcp.bound) /\ tcp.count <= Backlog
        BY DEF ChildCountExact
    <2> QED
        BY LiveCount DEF IInv, Good, Counted
<1> QED
    BY <1>1, ListenInvariance, Preempt = FALSE, PTL

=============================================================================
