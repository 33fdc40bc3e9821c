--------------------------- MODULE NeighbourProofs ---------------------------
(***************************************************************************)
(* Proofs about the caches of IPv4 and of IPv6 neighbours, for any number   *)
(* of neighbours, rows, network buffers and places in the event queue.      *)
(***************************************************************************)
EXTENDS MCNeighbours, FiniteSetTheorems, SequenceTheorems, ListLemmas, TLAPS

LEMMA RowsTyped == Rows \subseteq Nat /\ Rows # {}
<1>1. Entries \in Nat \ {0} BY ARPAssumption
<1>2. 1 \in Rows BY <1>1 DEF Rows
<1>3. QED BY <1>1, <1>2 DEF Rows

\* Lowest and Highest give a row of a set of rows.
LEMMA FirstRow ==
    ASSUME NEW S \in SUBSET Rows, S # {}
    PROVE  Lowest(S) \in S
BY RowsTyped, LeastNumber DEF Lowest

LEMMA LastRow ==
    ASSUME NEW S \in SUBSET Rows, S # {}
    PROVE  Highest(S) \in S
<1> DEFINE f == [x \in S |-> Entries - x]
<1>1. Entries \in Nat BY ARPAssumption
<1>2. f \in [S -> Nat] BY <1>1 DEF Rows
<1>3. PICK x \in S : \A y \in S : f[x] <= f[y]
    <2> HIDE DEF f
    <2>1. QED BY <1>2, LeastValue
<1>4. \A y \in S : y <= x BY <1>1, <1>3 DEF Rows
<1>5. QED BY <1>4 DEF Highest

-----------------------------------------------------------------------------
(***************************************************************************)
(* The network buffers, which both protocols handle in the same way.        *)
(***************************************************************************)
\* w is the parked packet, t its timer, q the event queue and f the number of
\* free buffers: each buffer has exactly one owner.
Owned(w, t, q, f) ==
    /\ w = {} \/ \E p \in Packet : w = {p}
    /\ t \in BOOLEAN /\ (w # {} => t)
    /\ q \in Seq(Packet) /\ Len(q) <= QueueLength
    /\ f \in Nat
    /\ f + Cardinality(w) + Len(q) = Buffers

LEMMA ParkedCount ==
    ASSUME NEW w, NEW t, NEW q, NEW f, Owned(w, t, q, f)
    PROVE  /\ Cardinality(w) = IF w = {} THEN 0 ELSE 1
           /\ q \in Seq(Packet) /\ Len(q) \in Nat /\ f \in Nat
           /\ QueueLength \in Nat /\ Buffers \in Nat
           /\ f + (IF w = {} THEN 0 ELSE 1) + Len(q) = Buffers
<1>1. Cardinality(w) = IF w = {} THEN 0 ELSE 1
    <2>1. CASE w = {} BY <2>1, FS_EmptySet
    <2>2. CASE w # {}
        <3>1. PICK p : w = {p} BY <2>2 DEF Owned
        <3>2. QED BY <2>2, <3>1, FS_Singleton
    <2>3. QED BY <2>1, <2>2
<1>2. q \in Seq(Packet) /\ Len(q) \in Nat /\ f \in Nat BY LenProperties DEF Owned
<1>3. QueueLength \in Nat /\ Buffers \in Nat BY ARPAssumption
<1>4. f + Cardinality(w) + Len(q) = Buffers BY DEF Owned
<1>5. QED BY <1>1, <1>2, <1>3, <1>4

\* The parked packet is dropped.
LEMMA Dropping ==
    ASSUME NEW w, NEW t, NEW q, NEW f, Owned(w, t, q, f), w # {}
    PROVE  Owned({}, FALSE, q, f + 1)
<1>1. /\ q \in Seq(Packet) /\ Len(q) \in Nat /\ f \in Nat /\ f + 1 + Len(q) = Buffers
      /\ Len(q) <= QueueLength
    BY ParkedCount DEF Owned
<1>2. f + 1 \in Nat /\ f + 1 + 0 + Len(q) = Buffers BY <1>1
<1>3. QED BY <1>1, <1>2, FS_EmptySet DEF Owned

\* The parked packet goes back to the event queue.
LEMMA Requeueing ==
    ASSUME NEW w, NEW t, NEW q, NEW f, Owned(w, t, q, f), w # {}, Len(q) < QueueLength
    PROVE  Owned({}, FALSE, q \o <<CHOOSE p \in w : TRUE>>, f)
<1> DEFINE p == CHOOSE x \in w : TRUE
<1>1. p \in Packet BY DEF Owned
<1> HIDE DEF p
<1>2. /\ q \in Seq(Packet) /\ Len(q) \in Nat /\ f \in Nat /\ f + 1 + Len(q) = Buffers
      /\ QueueLength \in Nat
    BY ParkedCount
<1>3. q \o <<p>> \in Seq(Packet) /\ Len(q \o <<p>>) = Len(q) + 1
    BY <1>1, <1>2, ConcatProperties
<1>4. f + 0 + (Len(q) + 1) = Buffers /\ Len(q) + 1 <= QueueLength BY <1>2
<1>5. Owned({}, FALSE, q \o <<p>>, f) BY <1>2, <1>3, <1>4, FS_EmptySet DEF Owned
<1>6. QED BY <1>5 DEF p

\* A received packet enters the event queue.
LEMMA Receiving ==
    ASSUME NEW w, NEW t, NEW q, NEW f, Owned(w, t, q, f), NEW p \in Packet,
           f > 0, Len(q) < QueueLength
    PROVE  Owned(w, t, Append(q, p), f - 1)
<1>1. q \in Seq(Packet) /\ Len(q) \in Nat /\ f \in Nat /\ QueueLength \in Nat
    BY ParkedCount
<1>2. Append(q, p) \in Seq(Packet) /\ Len(Append(q, p)) = Len(q) + 1
    BY <1>1, AppendProperties
<1>3. Cardinality(w) \in Nat BY ParkedCount
<1>4. f - 1 \in Nat /\ (f - 1) + Cardinality(w) + (Len(q) + 1) = Buffers
    BY <1>1, <1>3 DEF Owned
<1>5. QED BY <1>1, <1>2, <1>4 DEF Owned

\* A packet is taken from the event queue, and its buffer freed.
LEMMA Handling ==
    ASSUME NEW w, NEW t, NEW q, NEW f, Owned(w, t, q, f), q # << >>
    PROVE  Owned(w, t, Tail(q), f + 1)
<1>1. q \in Seq(Packet) /\ Len(q) \in Nat /\ f \in Nat /\ QueueLength \in Nat
    BY ParkedCount
<1>2. Tail(q) \in Seq(Packet) /\ Len(Tail(q)) = Len(q) - 1 BY <1>1, HeadTailProperties
<1>3. Cardinality(w) \in Nat BY ParkedCount
<1>4. f + 1 \in Nat /\ (f + 1) + Cardinality(w) + (Len(q) - 1) = Buffers
    BY <1>1, <1>3 DEF Owned
<1>5. Len(Tail(q)) <= QueueLength BY <1>1, <1>2 DEF Owned
<1>6. QED BY <1>2, <1>4, <1>5 DEF Owned

\* A packet is taken from the event queue and parked.
LEMMA Parking ==
    ASSUME NEW t, NEW q, NEW f, Owned({}, t, q, f), q # << >>
    PROVE  Owned({Head(q)}, TRUE, Tail(q), f)
<1>1. /\ q \in Seq(Packet) /\ Len(q) \in Nat /\ f \in Nat /\ QueueLength \in Nat
      /\ f + 0 + Len(q) = Buffers
    BY ParkedCount
<1>2. Head(q) \in Packet /\ Tail(q) \in Seq(Packet) /\ Len(Tail(q)) = Len(q) - 1
    BY <1>1, HeadTailProperties
<1>3. Cardinality({Head(q)}) = 1 BY FS_Singleton
<1>4. f + 1 + (Len(q) - 1) = Buffers BY <1>1
<1>5. Len(Tail(q)) <= QueueLength BY <1>1, <1>2 DEF Owned
<1>6. QED BY <1>1, <1>2, <1>3, <1>4, <1>5 DEF Owned

-----------------------------------------------------------------------------
(***************************************************************************)
(* The rows of the ARP cache.                                               *)
(***************************************************************************)
\* The rows have their type, and no address is in two of them.
ARPCache(c) ==
    /\ c \in [Rows -> Row]
    /\ \A x, y \in Rows : x # y => /\ c[x].ip = None \/ c[x].ip # c[y].ip
                                   /\ c[x].mac = None \/ c[x].mac # c[y].mac

LEMMA UseEntryRow ==
    ASSUME NEW c \in [Rows -> Row]
    PROVE  xUseEntry(c) \in Rows
<1> DEFINE f == [x \in Rows |-> c[x].age]
           S == {x \in Rows : \A y \in Rows : c[x].age <= c[y].age}
<1>1. f \in [Rows -> Nat] BY DEF Row
<1>2. \E x \in Rows : \A y \in Rows : f[x] <= f[y]
    <2> HIDE DEF f
    <2>1. QED BY <1>1, RowsTyped, LeastValue
<1>3. S \in SUBSET Rows /\ S # {} BY <1>2
<1> HIDE DEF S
<1>4. Lowest(S) \in S BY <1>3, FirstRow
<1>5. QED BY <1>3, <1>4 DEF xUseEntry, S

LEMMA RowTyped ==
    ASSUME NEW c \in [Rows -> Row], NEW x \in Rows, NEW mac \in MAC, NEW ip \in IP
    PROVE  /\ Refreshed(c[x], mac, ip) \in Row
           /\ Refreshed(c[x], mac, ip).ip = ip /\ Refreshed(c[x], mac, ip).mac = mac
           /\ EmptyRow \in Row /\ EmptyRow.ip = None /\ EmptyRow.mac = None
<1>1. MaxAge \in Nat BY ARPAssumption
<1>2. c[x] \in Row OBVIOUS
<1>3. QED BY <1>1, <1>2 DEF Refreshed, EmptyRow, Row

\* vARPRefreshCacheEntry: a binding never comes to be in two rows.
LEMMA Refreshing ==
    ASSUME NEW c, ARPCache(c), NEW mac \in MAC, NEW ip \in IP
    PROVE  ARPCache(vARPRefreshCacheEntry(c, mac, ip))
<1> DEFINE exact == Exact(c, mac, ip)
           ipRows == xIpEntry(c, mac, ip)
           macRows == xMacEntry(c, mac, ip)
           use == CASE exact # {} -> Lowest(exact)
                    [] exact = {} /\ macRows # {} -> Highest(macRows)
                    [] exact = {} /\ macRows = {} /\ ipRows # {} -> Highest(ipRows)
                    [] OTHER -> xUseEntry(c)
           gone2 == {x \in Rows : /\ exact = {} /\ macRows # {} /\ x # use
                                  /\ ipRows # {} /\ x = Highest(ipRows)}
           e == [x \in Rows |-> IF x = use THEN Refreshed(c[x], mac, ip)
                                ELSE IF x \in gone2 THEN EmptyRow ELSE c[x]]
<1>1. vARPRefreshCacheEntry(c, mac, ip) = e BY DEF vARPRefreshCacheEntry
<1>2. c \in [Rows -> Row] BY DEF ARPCache
<1>3. /\ exact \in SUBSET Rows /\ ipRows \in SUBSET Rows /\ macRows \in SUBSET Rows
      /\ \A x \in exact : c[x].ip = ip /\ c[x].mac = mac
      /\ \A x \in ipRows : c[x].ip = ip /\ c[x].mac # mac
      /\ \A x \in macRows : c[x].ip # ip /\ c[x].mac = mac
      /\ \A x \in Rows : c[x].ip = ip => x \in exact \/ x \in ipRows
      /\ \A x \in Rows : c[x].mac = mac => x \in exact \/ x \in macRows
    BY DEF Exact, xIpEntry, xMacEntry
<1>4. /\ exact # {} => Lowest(exact) \in exact
      /\ macRows # {} => Highest(macRows) \in macRows
      /\ ipRows # {} => Highest(ipRows) \in ipRows
      /\ xUseEntry(c) \in Rows
    <2> HIDE DEF exact, ipRows, macRows
    <2>1. QED BY <1>2, <1>3, FirstRow, LastRow, UseEntryRow
<1> HIDE DEF exact, ipRows, macRows
<1>5. use \in Rows BY <1>3, <1>4
<1>6. ip # None /\ mac # None BY ARPAssumption DEF MAC
<1>7. \A x, y \in Rows : /\ x # y /\ c[x].ip = ip => c[y].ip # ip
                         /\ x # y /\ c[x].mac = mac => c[y].mac # mac
    BY <1>6 DEF ARPCache
\* No other row keeps the address, or the MAC address.
<1>8. ASSUME NEW x \in Rows, x # use, x \notin gone2
      PROVE  c[x].ip # ip /\ c[x].mac # mac
    <2>1. CASE exact # {}
        <3>1. use \in exact BY <1>4, <2>1
        <3>2. QED BY <1>3, <1>5, <1>7, <1>8, <3>1
    <2>2. CASE exact = {} /\ macRows # {}
        <3>1. use \in macRows BY <1>4, <2>2
        <3>2. c[x].mac # mac BY <1>3, <1>5, <1>7, <1>8, <3>1
        <3>3. ASSUME c[x].ip = ip PROVE FALSE
            <4>1. x \in ipRows BY <1>3, <2>2, <3>3
            <4>2. Highest(ipRows) \in ipRows BY <1>4, <4>1
            <4>3. x = Highest(ipRows) BY <1>3, <1>7, <4>1, <4>2
            <4>4. QED BY <1>8, <2>2, <4>1, <4>3
        <3>4. QED BY <3>2, <3>3
    <2>3. CASE exact = {} /\ macRows = {} /\ ipRows # {}
        <3>1. use \in ipRows BY <1>4, <2>3
        <3>2. QED BY <1>3, <1>5, <1>7, <1>8, <2>3, <3>1
    <2>4. CASE exact = {} /\ macRows = {} /\ ipRows = {} BY <1>3, <1>8, <2>4
    <2>5. QED BY <2>1, <2>2, <2>3, <2>4
<1> HIDE DEF use, gone2
<1>9. \A x \in Rows : /\ Refreshed(c[x], mac, ip) \in Row
                      /\ Refreshed(c[x], mac, ip).ip = ip
                      /\ Refreshed(c[x], mac, ip).mac = mac
                      /\ EmptyRow \in Row /\ EmptyRow.ip = None /\ EmptyRow.mac = None
    BY <1>2, RowTyped
<1>10. e \in [Rows -> Row] BY <1>2, <1>9
<1>11. \A x \in Rows : e[x].ip = IF x = use THEN ip ELSE IF x \in gone2 THEN None ELSE c[x].ip
    BY <1>9
<1>12. \A x \in Rows : e[x].mac = IF x = use THEN mac ELSE IF x \in gone2 THEN None ELSE c[x].mac
    BY <1>9
<1>13. ASSUME NEW x \in Rows, NEW y \in Rows, x # y
       PROVE  /\ e[x].ip = None \/ e[x].ip # e[y].ip
              /\ e[x].mac = None \/ e[x].mac # e[y].mac
    <2>1. c[x].ip = None \/ c[x].ip # c[y].ip BY <1>13 DEF ARPCache
    <2>2. c[x].mac = None \/ c[x].mac # c[y].mac BY <1>13 DEF ARPCache
    <2> HIDE DEF e
    <2>3. e[x].ip = None \/ e[x].ip # e[y].ip BY <1>6, <1>8, <1>11, <1>13, <2>1
    <2>4. e[x].mac = None \/ e[x].mac # e[y].mac BY <1>6, <1>8, <1>12, <1>13, <2>2
    <2>5. QED BY <2>3, <2>4
<1> HIDE DEF e
<1>14. ARPCache(e) BY <1>10, <1>13 DEF ARPCache
<1>15. QED BY <1>1, <1>14

\* Every other operation on the cache: an address is removed, or entered in one
\* row when no row has it.
LEMMA Changing ==
    ASSUME NEW c, ARPCache(c), NEW e \in [Rows -> Row],
           \A x \in Rows : e[x].ip \in {c[x].ip, None} /\ e[x].mac \in {c[x].mac, None}
    PROVE  ARPCache(e)
<1>1. \A x, y \in Rows : x # y => /\ c[x].ip = None \/ c[x].ip # c[y].ip
                                  /\ c[x].mac = None \/ c[x].mac # c[y].mac
    BY DEF ARPCache
<1>2. \A x, y \in Rows : x # y => /\ e[x].ip = None \/ e[x].ip # e[y].ip
                                  /\ e[x].mac = None \/ e[x].mac # e[y].mac
    BY <1>1
<1>3. QED BY <1>2 DEF ARPCache

LEMMA RefreshingAge ==
    ASSUME NEW c, ARPCache(c), NEW p
    PROVE  ARPCache(vARPRefreshCacheEntryAge(c, p))
<1> DEFINE e == vARPRefreshCacheEntryAge(c, p)
<1>1. c \in [Rows -> Row] /\ MaxAge \in Nat BY ARPAssumption DEF ARPCache
<1>2. ASSUME NEW x \in Rows
      PROVE  LET r == [c[x] EXCEPT !.age = MaxAge]
             IN  r \in Row /\ r.ip = c[x].ip /\ r.mac = c[x].mac
    <2>1. c[x] \in Row BY <1>1
    <2>2. QED BY <1>1, <2>1 DEF Row
<1>3. DOMAIN e = Rows
      /\ \A x \in Rows : e[x] = c[x] \/ e[x] = [c[x] EXCEPT !.age = MaxAge]
    BY DEF vARPRefreshCacheEntryAge
<1>6. e = [x \in Rows |-> e[x]] BY DEF vARPRefreshCacheEntryAge
<1> HIDE DEF e
<1>4. \A x \in Rows : e[x] \in Row /\ e[x].ip = c[x].ip /\ e[x].mac = c[x].mac
    BY <1>1, <1>2, <1>3
<1>7. e \in [Rows -> Row] BY <1>4, <1>6
<1>5. QED BY <1>4, <1>7, Changing DEF e

LEMMA Reserving ==
    ASSUME NEW c, ARPCache(c), NEW ip \in IP
    PROVE  ARPCache(ReserveCacheEntry(c, ip))
<1>1. CASE \E x \in Rows : c[x].ip = ip BY <1>1 DEF ReserveCacheEntry
<1>2. CASE ~ \E x \in Rows : c[x].ip = ip
    <2> DEFINE u == xUseEntry(c)
               r == [c[u] EXCEPT !.ip = ip, !.age = MaxRetrans, !.valid = FALSE]
               e == [c EXCEPT ![u] = r]
    <2>1. c \in [Rows -> Row] /\ MaxRetrans \in Nat BY ARPAssumption DEF ARPCache
    <2>2. u \in Rows BY <2>1, UseEntryRow
    <2> HIDE DEF u
    <2>3. c[u] \in Row BY <2>1, <2>2
    <2>4. r \in Row /\ r.ip = ip /\ r.mac = c[u].mac BY <2>1, <2>3 DEF Row
    <2>5. ReserveCacheEntry(c, ip) = e BY <1>2, <2>1, <2>2 DEF ReserveCacheEntry, u
    <2> HIDE DEF r
    <2>6. e \in [Rows -> Row] /\ e[u] = r /\ \A x \in Rows : x # u => e[x] = c[x]
        BY <2>1, <2>2, <2>4
    <2> HIDE DEF e
    <2>7. \A x, y \in Rows : x # y => /\ e[x].ip = None \/ e[x].ip # e[y].ip
                                      /\ e[x].mac = None \/ e[x].mac # e[y].mac
        BY <1>2, <2>2, <2>4, <2>6 DEF ARPCache
    <2>8. QED BY <2>5, <2>6, <2>7 DEF ARPCache
<1>3. QED BY <1>1, <1>2

LEMMA Ageing ==
    ASSUME NEW c, ARPCache(c)
    PROVE  ARPCache([x \in Rows |-> AgeRow(c[x])])
<1> DEFINE e == [x \in Rows |-> AgeRow(c[x])]
<1>1. c \in [Rows -> Row] BY DEF ARPCache
<1>2. ASSUME NEW x \in Rows
      PROVE  /\ AgeRow(c[x]) \in Row /\ AgeRow(c[x]).ip \in {c[x].ip, None}
             /\ AgeRow(c[x]).mac = c[x].mac
    <2>1. c[x] \in Row BY <1>1
    <2>2. CASE c[x].age > 0
        <3> DEFINE a == c[x].age - 1
                   i == IF c[x].age = 1 THEN None ELSE c[x].ip
        <3>1. a \in Nat /\ i \in IP \cup {None} /\ i \in {c[x].ip, None}
            BY <2>1, <2>2 DEF Row
        <3>2. AgeRow(c[x]) = [c[x] EXCEPT !.age = a, !.ip = i] BY <2>2 DEF AgeRow
        <3> HIDE DEF a, i
        <3>3. QED BY <2>1, <3>1, <3>2 DEF Row
    <2>3. CASE ~(c[x].age > 0) BY <2>1, <2>3 DEF AgeRow
    <2>4. QED BY <2>2, <2>3
<1>3. e \in [Rows -> Row] BY <1>2
<1>4. \A x \in Rows : e[x].ip \in {c[x].ip, None} /\ e[x].mac \in {c[x].mac, None} BY <1>2
<1> HIDE DEF e
<1>5. ARPCache(e) BY <1>3, <1>4, Changing
<1>6. QED BY <1>5 DEF e

LEMMA Clearing ==
    ASSUME NEW c, ARPCache(c)
    PROVE  ARPCache([x \in Rows |-> IF c[x].pxEndPoint THEN EmptyRow ELSE c[x]])
<1> DEFINE e == [x \in Rows |-> IF c[x].pxEndPoint THEN EmptyRow ELSE c[x]]
<1>1. c \in [Rows -> Row] BY DEF ARPCache
<1>2. EmptyRow \in Row /\ EmptyRow.ip = None /\ EmptyRow.mac = None BY DEF EmptyRow, Row
<1>3. e \in [Rows -> Row] BY <1>1, <1>2
<1>4. \A x \in Rows : e[x].ip \in {c[x].ip, None} /\ e[x].mac \in {c[x].mac, None} BY <1>2
<1> HIDE DEF e
<1>5. ARPCache(e) BY <1>3, <1>4, Changing
<1>6. QED BY <1>5 DEF e

-----------------------------------------------------------------------------
(***************************************************************************)
(* The steps of ARP.                                                        *)
(***************************************************************************)
BuffersInv == Owned(waiting, timer, rx, free) /\ gone \subseteq IP

ARPInv == ARPCache(xARPCache) /\ BuffersInv

\* The parked packet is handled again or dropped, in either protocol.
LEMMA Answering ==
    ASSUME BuffersInv, NEW ip, gone' = gone,
           IF \E w \in waiting : w.from = ip
           THEN /\ waiting' = {} /\ timer' = FALSE
                /\ IF Len(rx) < QueueLength
                   THEN rx' = rx \o <<CHOOSE w \in waiting : TRUE>> /\ free' = free
                   ELSE rx' = rx /\ free' = free + 1
           ELSE UNCHANGED <<waiting, timer, rx, free>>
    PROVE  BuffersInv'
<1>1. Owned(waiting, timer, rx, free) BY DEF BuffersInv
<1>2. CASE ~ \E w \in waiting : w.from = ip BY <1>2 DEF BuffersInv
<1>3. CASE (\E w \in waiting : w.from = ip) /\ Len(rx) < QueueLength
    <2> DEFINE q == rx \o <<CHOOSE w \in waiting : TRUE>>
    <2>1. waiting' = {} /\ timer' = FALSE /\ rx' = q /\ free' = free BY <1>3
    <2>2. waiting # {} BY <1>3
    <2>3. Owned({}, FALSE, q, free) BY ONLY <1>1, <1>3, <2>2, Requeueing
    <2> HIDE DEF q
    <2>4. Owned(waiting', timer', rx', free') BY <2>1, <2>3
    <2>5. QED BY <2>4 DEF BuffersInv
<1>4. CASE (\E w \in waiting : w.from = ip) /\ ~(Len(rx) < QueueLength)
    <2>1. Owned(waiting', timer', rx', free') BY <1>1, <1>4, Dropping
    <2>2. QED BY <2>1 DEF BuffersInv
<1>5. QED BY <1>2, <1>3, <1>4

LEMMA HeadOfQueue ==
    ASSUME BuffersInv, rx # << >>
    PROVE  Head(rx) \in Packet /\ Head(rx).from \in IP /\ Head(rx).mac \in MAC
<1>1. rx \in Seq(Packet) BY DEF BuffersInv, Owned
<1>2. Head(rx) \in Packet BY <1>1, HeadTailProperties
<1>3. QED BY <1>2 DEF Packet

LEMMA ARPInitInv == Init => ARPInv
<1> SUFFICES ASSUME Init PROVE ARPInv OBVIOUS
<1>1. EmptyRow \in Row /\ EmptyRow.ip = None /\ EmptyRow.mac = None BY DEF EmptyRow, Row
<1>2. ARPCache(xARPCache) BY <1>1 DEF Init, ARPCache
<1>3. Buffers \in Nat /\ QueueLength \in Nat BY ARPAssumption
<1>4. Len(<< >>) = 0 /\ << >> \in Seq(Packet) OBVIOUS
<1>5. Cardinality({}) = 0 /\ Buffers + 0 + 0 = Buffers BY <1>3, FS_EmptySet
<1>7. Owned({}, FALSE, << >>, Buffers) BY <1>3, <1>4, <1>5 DEF Owned
<1>8. BuffersInv BY <1>7 DEF Init, BuffersInv
<1>9. QED BY <1>2, <1>8 DEF ARPInv

LEMMA ARPNextInv == ARPInv /\ Next => ARPInv'
<1> SUFFICES ASSUME ARPInv, Next PROVE ARPInv' OBVIOUS
<1>0. ARPCache(xARPCache) /\ BuffersInv /\ Owned(waiting, timer, rx, free) /\ gone \subseteq IP
    BY DEF ARPInv, BuffersInv
<1>1. ASSUME NEW p \in Packet, vARPProcessPacketRequest(p) \/ GratuitousRequest(p)
      PROVE  ARPInv'
    <2>1. /\ xARPCache' = vARPRefreshCacheEntry(xARPCache, p.mac, p.from)
          /\ UNCHANGED <<waiting, timer, rx, free, gone>>
        BY <1>1 DEF vARPProcessPacketRequest, GratuitousRequest
    <2>2. p.mac \in MAC /\ p.from \in IP BY DEF Packet
    <2>3. ARPCache(xARPCache') BY <1>0, <2>1, <2>2, Refreshing
    <2>4. BuffersInv' BY <1>0, <2>1 DEF BuffersInv
    <2>5. QED BY <2>3, <2>4 DEF ARPInv
<1>2. ASSUME NEW p \in Packet, ReceivePacket(p) PROVE ARPInv'
    <2>1. Owned(waiting', timer', rx', free')
        BY <1>0, <1>2, Receiving DEF ReceivePacket, CanSend
    <2>2. QED BY <1>0, <1>2, <2>1 DEF ReceivePacket, ARPInv, BuffersInv
<1>3. ASSUME NEW p \in Packet, NEW toUs \in BOOLEAN, vARPProcessPacketReply(p, toUs)
      PROVE  ARPInv'
    <2>1. p.mac \in MAC /\ p.from \in IP BY DEF Packet
    <2>2. ARPCache(xARPCache')
        <3>1. xARPCache' \in {xARPCache, vARPRefreshCacheEntry(xARPCache, p.mac, p.from)}
            BY <1>3 DEF vARPProcessPacketReply
        <3>2. QED BY <1>0, <2>1, <3>1, Refreshing
    <2>3. BuffersInv' BY <1>0, <1>3, Answering DEF vARPProcessPacketReply
    <2>4. QED BY <2>2, <2>3 DEF ARPInv
<1>4. ASSUME NEW ip \in IP, SendPacket(ip) PROVE ARPInv'
    <2>1. ARPCache(xARPCache') BY <1>0, <1>4, Reserving DEF SendPacket
    <2>2. BuffersInv' BY <1>0, <1>4 DEF SendPacket, BuffersInv
    <2>3. QED BY <2>1, <2>2 DEF ARPInv
<1>5. ASSUME NEW ip \in IP, Leave(ip) PROVE ARPInv'
    BY <1>0, <1>5 DEF Leave, ARPInv, BuffersInv
<1>6. ASSUME HandlePacket PROVE ARPInv'
    <2>1. rx # << >> /\ rx' = Tail(rx) /\ gone' = gone BY <1>6 DEF HandlePacket
    <2>2. ARPCache(xARPCache')
        <3>1. xARPCache' \in {xARPCache, vARPRefreshCacheEntryAge(xARPCache, Head(rx))}
            BY <1>6 DEF HandlePacket
        <3>2. QED BY <1>0, <3>1, RefreshingAge
    <2>3. Owned(waiting', timer', rx', free')
        <3>1. CASE waiting' = waiting /\ timer' = timer /\ free' = free + 1
            BY <1>0, <2>1, <3>1, Handling
        <3>2. CASE waiting = {} /\ waiting' = {Head(rx)} /\ timer' = TRUE /\ free' = free
            BY <1>0, <2>1, <3>2, Parking
        <3>3. QED BY <1>6, <3>1, <3>2 DEF HandlePacket
    <2>4. QED BY <1>0, <2>1, <2>2, <2>3 DEF ARPInv, BuffersInv
<1>7. ASSUME HandleNamePacket PROVE ARPInv'
    <2>1. rx # << >> BY <1>7 DEF HandleNamePacket
    <2>2. ARPCache(xARPCache')
        BY <1>0, <1>7, <2>1, HeadOfQueue, Refreshing DEF HandleNamePacket
    <2>3. Owned(waiting', timer', rx', free') BY <1>0, <1>7, Handling DEF HandleNamePacket
    <2>4. QED BY <1>0, <1>7, <2>2, <2>3 DEF HandleNamePacket, ARPInv, BuffersInv
<1>8. ASSUME vARPAgeCache PROVE ARPInv'
    <2>1. ARPCache(xARPCache') BY <1>0, <1>8, Ageing DEF vARPAgeCache
    <2>2. QED BY <1>0, <1>8, <2>1 DEF vARPAgeCache, ARPInv, BuffersInv
<1>9. ASSUME ResolutionTimer PROVE ARPInv'
    <2>1. Owned(waiting', timer', rx', free') BY <1>0, <1>9, Dropping DEF ResolutionTimer
    <2>2. QED BY <1>0, <1>9, <2>1 DEF ResolutionTimer, ARPInv, BuffersInv
<1>10. ASSUME FreeRTOS_ClearARP PROVE ARPInv'
    <2>1. ARPCache(xARPCache') BY <1>0, <1>10, Clearing DEF FreeRTOS_ClearARP
    <2>2. QED BY <1>0, <1>10, <2>1 DEF FreeRTOS_ClearARP, ARPInv, BuffersInv
<1>11. QED
    BY <1>1, <1>2, <1>3, <1>4, <1>5, <1>6, <1>7, <1>8, <1>9, <1>10 DEF Next

LEMMA BuffersTyped ==
    ASSUME BuffersInv
    PROVE  /\ waiting \subseteq Packet /\ Cardinality(waiting) <= 1
           /\ timer \in BOOLEAN
           /\ rx \in Seq(Packet) /\ Len(rx) <= QueueLength
           /\ free \in 0 .. Buffers
           /\ gone \subseteq IP
<1>1. Owned(waiting, timer, rx, free) BY DEF BuffersInv
<1>2. /\ Cardinality(waiting) = IF waiting = {} THEN 0 ELSE 1
      /\ Len(rx) \in Nat /\ free \in Nat /\ Buffers \in Nat
      /\ free + (IF waiting = {} THEN 0 ELSE 1) + Len(rx) = Buffers
    BY <1>1, ParkedCount
<1>3. free \in 0 .. Buffers BY <1>2
<1>4. QED BY <1>1, <1>2, <1>3 DEF Owned, BuffersInv

LEMMA ARPInvImplies == ARPInv => TypeOK /\ UniqueRow /\ BuffersKept
<1> SUFFICES ASSUME ARPInv PROVE TypeOK /\ UniqueRow /\ BuffersKept OBVIOUS
<1>1. ARPCache(xARPCache) /\ BuffersInv BY DEF ARPInv
<1>2. TypeOK BY <1>1, BuffersTyped DEF ARPCache, TypeOK
<1>3. UniqueRow BY <1>1 DEF ARPCache, UniqueRow
<1>4. BuffersKept BY <1>1 DEF BuffersInv, Owned, BuffersKept
<1>5. QED BY <1>2, <1>3, <1>4

-----------------------------------------------------------------------------
(***************************************************************************)
(* The rows of the ND cache.                                                *)
(***************************************************************************)
\* A row has its type, and an address as long as it is in use.
GoodRow(r) == r \in Nd!Row /\ (r.state = "eND_FREE" <=> r.ip = None)

\* No address is in two rows.
NDCache(c) ==
    /\ c \in [Rows -> Nd!Row] /\ \A x \in Rows : GoodRow(c[x])
    /\ \A x, y \in Rows : x # y => c[x].ip = None \/ c[x].ip # c[y].ip

\* What may become of a row: it is given up, or keeps its address and, if it is
\* bound, its MAC address.
RowKept(r, s) ==
    /\ GoodRow(s) /\ s.ip \in {r.ip, None}
    /\ r.state \in Nd!Bound /\ s.state \in Nd!Bound => s.mac = r.mac

\* What may become of the cache: each row is kept or starts a new resolution.
CacheKept(c, e) ==
    /\ NDCache(e)
    /\ \A x \in Rows : RowKept(c[x], e[x]) \/ e[x].state = "eND_INCOMPLETE"

LEMMA NDConstants ==
    /\ MaxAge \in Nat /\ SolicitAge \in Nat /\ DelayTime \in Nat /\ IncompleteTimeout \in Nat
    /\ MaxProbes \in Nat /\ 0 \in 0 .. MaxProbes
    /\ Nd!State = {"eND_REACHABLE", "eND_STALE", "eND_DELAY", "eND_PROBE", "eND_FREE",
                   "eND_INCOMPLETE"}
    /\ Nd!Bound = {"eND_REACHABLE", "eND_STALE", "eND_DELAY", "eND_PROBE"}
    /\ Nd!Rows = Rows /\ Nd!MAC = MAC /\ Nd!Packet = Packet
BY NeighbourAssumption
DEF Nd!NDAssumption, Nd!State, Nd!Bound, Nd!Rows, Rows, Nd!MAC, MAC, Nd!Packet, Packet

LEMMA FreeRowGood == GoodRow(Nd!FreeRow) /\ Nd!FreeRow.ip = None /\ Nd!FreeRow.state = "eND_FREE"
BY NDConstants DEF GoodRow, Nd!Row, Nd!FreeRow

LEMMA RowGivenUp == ASSUME NEW r PROVE RowKept(r, Nd!FreeRow)
BY FreeRowGood, NDConstants DEF RowKept

LEMMA RowSame == ASSUME NEW r, GoodRow(r) PROVE RowKept(r, r)
BY DEF RowKept

\* Only the state, the age or the number of probes of a row is changed.
LEMMA RowState ==
    ASSUME NEW r, GoodRow(r), NEW s \in Nd!Row, s.ip = r.ip, s.mac = r.mac,
           r.state # "eND_FREE", s.state # "eND_FREE"
    PROVE  GoodRow(s) /\ RowKept(r, s)
BY DEF GoodRow, RowKept

\* Every row is kept.
LEMMA RowsKept ==
    ASSUME NEW c, NDCache(c), NEW e, e = [x \in Rows |-> e[x]],
           \A x \in Rows : RowKept(c[x], e[x])
    PROVE  CacheKept(c, e)
<1>1. \A x \in Rows : GoodRow(e[x]) /\ e[x] \in Nd!Row /\ e[x].ip \in {c[x].ip, None}
    BY DEF RowKept, GoodRow
<1>2. e \in [Rows -> Nd!Row] BY <1>1
<1>3. \A x, y \in Rows : x # y => c[x].ip = None \/ c[x].ip # c[y].ip BY DEF NDCache
<1>4. \A x, y \in Rows : x # y => e[x].ip = None \/ e[x].ip # e[y].ip BY <1>1, <1>3
<1>5. QED BY <1>1, <1>2, <1>4 DEF NDCache, CacheKept

\* prvGetFreeNDPCacheEntry finds a row: the order of Better is total.
LEMMA FreeEntryRow ==
    ASSUME NEW c, NDCache(c)
    PROVE  Nd!prvGetFreeNDPCacheEntry(c) \in Rows
<1>1. \A x \in Rows : c[x].age \in Nat BY DEF NDCache, Nd!Row
<1>2. \A x \in Rows : Nd!Rank(c[x]) \in Nat
    <2>1. ASSUME NEW x \in Rows PROVE Nd!Rank(c[x]) \in {0, 1, 2, 3} BY DEF Nd!Rank
    <2>2. QED BY <2>1
<1>3. CASE {x \in Rows : c[x].state = "eND_FREE"} # {}
    <2> DEFINE S == {x \in Rows : c[x].state = "eND_FREE"}
    <2>1. S \in SUBSET Nat /\ S # {} /\ S \subseteq Rows BY <1>3, RowsTyped
    <2>2. Nd!prvGetFreeNDPCacheEntry(c) = CHOOSE x \in S : \A y \in S : x <= y
        BY <1>3, NDConstants DEF Nd!prvGetFreeNDPCacheEntry
    <2> HIDE DEF S
    <2>3. QED BY <2>1, <2>2, LeastNumber
<1>4. CASE {x \in Rows : c[x].state = "eND_FREE"} = {}
    <2> DEFINE f == [x \in Rows |-> Nd!Rank(c[x])]
    <2>1. f \in [Rows -> Nat] BY <1>2
    <2>2. PICK m \in Rows : \A y \in Rows : f[m] <= f[y]
        <3> HIDE DEF f
        <3>1. QED BY <2>1, RowsTyped, LeastValue
    <2> DEFINE S == {x \in Rows : Nd!Rank(c[x]) = Nd!Rank(c[m])}
               g == [x \in S |-> c[x].age]
    <2>3. S # {} /\ g \in [S -> Nat] BY <1>1, <2>2
    <2>4. PICK n \in S : \A y \in S : g[n] <= g[y]
        <3> HIDE DEF S, g
        <3>1. QED BY <2>3, LeastValue
    <2> DEFINE T == {x \in S : c[x].age = c[n].age}
    <2>5. T \in SUBSET Nat /\ T # {} BY <2>4, RowsTyped
    <2>6. PICK k \in T : \A y \in T : k <= y
        <3> HIDE DEF T
        <3>1. QED BY <2>5, LeastNumber
    <2>7. k \in Rows /\ Nd!Rank(c[k]) = Nd!Rank(c[m]) /\ c[k].age = c[n].age BY <2>6
    <2>8. \A y \in Rows : Nd!Rank(c[k]) <= Nd!Rank(c[y]) BY <2>2, <2>7
    <2>9. \A y \in Rows : Nd!Rank(c[y]) = Nd!Rank(c[k]) => c[k].age <= c[y].age
        BY <2>4, <2>7
    <2>10. \A y \in Rows : /\ Nd!Rank(c[y]) = Nd!Rank(c[k]) /\ c[y].age = c[k].age
                           => k <= y
        BY <2>6, <2>7
    <2> HIDE DEF S, T
    <2>11. \A y \in Rows : Nd!Better(c, k, y)
        BY <1>1, <1>2, <2>7, <2>8, <2>9, <2>10, RowsTyped DEF Nd!Better
    <2>12. Nd!prvGetFreeNDPCacheEntry(c) = CHOOSE x \in Rows : \A y \in Rows : Nd!Better(c, x, y)
        BY <1>4, NDConstants DEF Nd!prvGetFreeNDPCacheEntry
    <2>13. QED BY <2>7, <2>11, <2>12
<1>5. QED BY <1>3, <1>4

\* pxNDPCacheLookup finds the row of an address, if there is one.
LEMMA LookupRow ==
    ASSUME NEW c, NDCache(c), NEW ip \in IP
    PROVE  /\ Nd!pxNDPCacheLookup(c, ip) \subseteq
                  {x \in Rows : c[x].state # "eND_FREE" /\ c[x].ip = ip}
           /\ Nd!pxNDPCacheLookup(c, ip) = {} => \A x \in Rows : c[x].ip # ip
<1> DEFINE S == {x \in Rows : c[x].state # "eND_FREE" /\ c[x].ip = ip}
<1>1. Nd!pxNDPCacheLookup(c, ip) = {x \in S : \A y \in S : x <= y}
    BY NDConstants DEF Nd!pxNDPCacheLookup
<1>2. S \in SUBSET Nat BY RowsTyped
<1>3. S # {} => {x \in S : \A y \in S : x <= y} # {}
    <2> HIDE DEF S
    <2>1. QED BY <1>2, LeastNumber
<1>4. ip # None BY ARPAssumption
<1>5. \A x \in Rows : c[x].ip = ip => x \in S BY <1>4 DEF NDCache, GoodRow
<1>6. S \subseteq {x \in Rows : c[x].state # "eND_FREE" /\ c[x].ip = ip} OBVIOUS
<1> HIDE DEF S
<1>7. QED BY <1>1, <1>3, <1>5, <1>6

\* vNDSendNeighbourSolicitation: a new row for an address that has none.
LEMMA Soliciting ==
    ASSUME NEW c, NDCache(c), NEW ip \in IP
    PROVE  CacheKept(c, Nd!prvNDCacheRecordSolicitation(c, ip))
<1> DEFINE rows == Nd!pxNDPCacheLookup(c, ip)
           e == Nd!prvNDCacheRecordSolicitation(c, ip)
<1>1. c \in [Rows -> Nd!Row] /\ \A x \in Rows : GoodRow(c[x]) BY DEF NDCache
<1>2. CASE rows = {}
    <2> DEFINE u == Nd!prvGetFreeNDPCacheEntry(c)
               r == [Nd!FreeRow EXCEPT !.ip = ip, !.state = "eND_INCOMPLETE",
                                       !.age = IncompleteTimeout]
    <2>1. u \in Rows BY FreeEntryRow
    <2>2. e = [c EXCEPT ![u] = r] BY <1>2 DEF Nd!prvNDCacheRecordSolicitation
    <2>3. ip # None BY ARPAssumption
    <2>4. r \in Nd!Row /\ r.ip = ip /\ r.state = "eND_INCOMPLETE"
        BY NDConstants DEF Nd!Row, Nd!FreeRow
    <2> HIDE DEF r, u, e
    <2>5. GoodRow(r) BY <2>3, <2>4 DEF GoodRow
    <2>6. e \in [Rows -> Nd!Row] /\ e[u] = r /\ \A x \in Rows : x # u => e[x] = c[x]
        BY <1>1, <2>1, <2>2, <2>4
    <2>7. \A x \in Rows : c[x].ip # ip BY <1>2, LookupRow
    <2>8. \A x, y \in Rows : x # y => e[x].ip = None \/ e[x].ip # e[y].ip
        BY <2>1, <2>4, <2>6, <2>7 DEF NDCache
    <2>9. \A x \in Rows : GoodRow(e[x]) BY <1>1, <2>5, <2>6
    <2>10. NDCache(e) BY <2>6, <2>8, <2>9 DEF NDCache
    <2>11. \A x \in Rows : RowKept(c[x], e[x]) \/ e[x].state = "eND_INCOMPLETE"
        BY <1>1, <2>4, <2>6, RowSame
    <2>12. QED BY <2>10, <2>11 DEF CacheKept, e
<1>3. CASE rows # {}
    <2>1. e = [x \in Rows |-> IF x \in rows /\ c[x].state = "eND_INCOMPLETE"
                              THEN [c[x] EXCEPT !.age = IncompleteTimeout] ELSE c[x]]
        BY <1>3, NDConstants DEF Nd!prvNDCacheRecordSolicitation
    <2> HIDE DEF e
    <2>2. ASSUME NEW x \in Rows PROVE RowKept(c[x], e[x])
        <3>1. CASE e[x] = c[x] BY <1>1, <3>1, RowSame
        <3>2. CASE /\ c[x].state = "eND_INCOMPLETE"
                   /\ e[x] = [c[x] EXCEPT !.age = IncompleteTimeout]
            <4>1. c[x] \in Nd!Row /\ GoodRow(c[x]) BY <1>1
            <4>2. /\ e[x] \in Nd!Row /\ e[x].ip = c[x].ip /\ e[x].mac = c[x].mac
                  /\ e[x].state = c[x].state
                BY <3>2, <4>1, NDConstants DEF Nd!Row
            <4>3. QED BY <3>2, <4>1, <4>2, RowState
        <3>3. QED BY <2>1, <3>1, <3>2
    <2>3. QED BY <2>1, <2>2, RowsKept DEF e
<1>4. QED BY <1>2, <1>3

\* A row that keeps its binding.
RowConfirmed(r, s) ==
    /\ GoodRow(s) /\ s.ip = r.ip /\ s.mac = r.mac
    /\ s.state \in Nd!Bound <=> r.state \in Nd!Bound

\* A lookup that hits a stale row.
LEMMA LookingUp ==
    ASSUME NEW c, NDCache(c), NEW ip \in IP
    PROVE  LET e == Nd!prvNDCacheLookup(c, ip)
           IN  CacheKept(c, e) /\ \A x \in Rows : RowConfirmed(c[x], e[x])
<1> DEFINE e == Nd!prvNDCacheLookup(c, ip)
<1>1. e = [x \in Rows |-> IF x \in Nd!pxNDPCacheLookup(c, ip) /\ c[x].state = "eND_STALE"
                          THEN [c[x] EXCEPT !.state = "eND_DELAY", !.age = DelayTime]
                          ELSE c[x]]
    BY NDConstants DEF Nd!prvNDCacheLookup
<1> HIDE DEF e
<1>2. ASSUME NEW x \in Rows PROVE RowKept(c[x], e[x]) /\ RowConfirmed(c[x], e[x])
    <2>1. c[x] \in Nd!Row /\ GoodRow(c[x]) BY DEF NDCache
    <2>2. CASE e[x] = c[x] BY <2>1, <2>2, RowSame DEF RowConfirmed
    <2>3. CASE /\ c[x].state = "eND_STALE"
               /\ e[x] = [c[x] EXCEPT !.state = "eND_DELAY", !.age = DelayTime]
        <3>1. /\ e[x] \in Nd!Row /\ e[x].ip = c[x].ip /\ e[x].mac = c[x].mac
              /\ e[x].state = "eND_DELAY"
            BY <2>1, <2>3, NDConstants DEF Nd!Row
        <3>2. RowKept(c[x], e[x]) /\ GoodRow(e[x]) BY <2>1, <2>3, <3>1, RowState
        <3>3. QED BY <2>3, <3>1, <3>2, NDConstants DEF RowConfirmed
    <2>4. QED BY <1>1, <2>2, <2>3
<1>3. e = [x \in Rows |-> e[x]] BY <1>1
<1>4. CacheKept(c, e) BY <1>2, <1>3, RowsKept
<1>5. QED BY <1>2, <1>4 DEF e

\* Traffic confirms a row.
LEMMA Confirming ==
    ASSUME NEW c, NDCache(c), NEW p \in Packet
    PROVE  LET e == Nd!vNDRefreshCacheEntryAge(c, p)
           IN  e = [x \in Rows |-> e[x]] /\ \A x \in Rows : RowConfirmed(c[x], e[x])
<1> DEFINE e == Nd!vNDRefreshCacheEntryAge(c, p)
<1>1. e = [x \in Rows |->
              IF /\ x \in Nd!pxNDPCacheLookup(c, p.from)
                 /\ c[x].state # "eND_INCOMPLETE" /\ c[x].mac = p.mac
              THEN [c[x] EXCEPT !.state = "eND_REACHABLE", !.age = MaxAge, !.probes = 0]
              ELSE c[x]]
    BY NDConstants DEF Nd!vNDRefreshCacheEntryAge
<1>2. p.from \in IP BY DEF Packet
<1> HIDE DEF e
<1>3. ASSUME NEW x \in Rows PROVE RowConfirmed(c[x], e[x])
    <2>1. c[x] \in Nd!Row /\ GoodRow(c[x]) BY DEF NDCache
    <2>2. CASE e[x] = c[x] BY <2>1, <2>2 DEF RowConfirmed
    <2>3. CASE /\ x \in Nd!pxNDPCacheLookup(c, p.from) /\ c[x].state # "eND_INCOMPLETE"
               /\ e[x] = [c[x] EXCEPT !.state = "eND_REACHABLE", !.age = MaxAge, !.probes = 0]
        <3>1. c[x].state # "eND_FREE" BY <1>2, <2>3, LookupRow
        <3>2. c[x].state \in Nd!Bound BY <2>1, <2>3, <3>1, NDConstants DEF Nd!Row
        <3>3. /\ e[x] \in Nd!Row /\ e[x].ip = c[x].ip /\ e[x].mac = c[x].mac
              /\ e[x].state = "eND_REACHABLE"
            BY <2>1, <2>3, NDConstants DEF Nd!Row
        <3>4. GoodRow(e[x]) BY <2>1, <3>1, <3>3, RowState
        <3>5. QED BY <3>2, <3>3, <3>4, NDConstants DEF RowConfirmed
    <2>4. QED BY <1>1, <2>2, <2>3
<1>4. e = [x \in Rows |-> e[x]] BY <1>1
<1>5. QED BY <1>3, <1>4 DEF e

\* A packet from a known neighbour: both, one after the other.
LEMMA LookingUpAndConfirming ==
    ASSUME NEW c, NDCache(c), NEW p \in Packet
    PROVE  CacheKept(c, Nd!vNDRefreshCacheEntryAge(Nd!prvNDCacheLookup(c, p.from), p))
<1> DEFINE b == Nd!prvNDCacheLookup(c, p.from)
           e == Nd!vNDRefreshCacheEntryAge(b, p)
<1>1. p.from \in IP BY DEF Packet
<1>2. NDCache(b) /\ \A x \in Rows : RowConfirmed(c[x], b[x])
    BY <1>1, LookingUp DEF CacheKept
<1> HIDE DEF b
<1>3. e = [x \in Rows |-> e[x]] /\ \A x \in Rows : RowConfirmed(b[x], e[x])
    BY <1>2, Confirming
<1> HIDE DEF e
<1>4. \A x \in Rows : RowKept(c[x], e[x]) BY <1>2, <1>3 DEF RowConfirmed, RowKept
<1>5. CacheKept(c, e) BY <1>3, <1>4, RowsKept
<1>6. QED BY <1>5 DEF e, b

\* A neighbour advertisement gives a MAC address only to a row that has none.
LEMMA Advertising ==
    ASSUME NEW r, GoodRow(r), r.state # "eND_FREE", NEW na \in Nd!NaPacket
    PROVE  RowKept(r, Nd!ApplyNa(na, r, Nd!prvDetermineAction(na, r)))
<1> DEFINE a == Nd!prvDetermineAction(na, r)
           s == Nd!ApplyNa(na, r, a)
<1>1. r \in Nd!Row /\ na.mac \in MAC \cup {None} /\ na.router \in BOOLEAN
    BY NDConstants DEF GoodRow, Nd!NaPacket
<1>2. /\ a \in {"eNA_DROP", "eNA_UPDATE_REACHABLE", "eNA_UPDATE_STALE",
                "eNA_CONFIRM_REACHABLE", "eNA_MAINTAIN", "eNA_REJECT_MAC_SET_STALE",
                "eNA_REJECT_MAC_PROBE"}
      /\ a \in {"eNA_UPDATE_REACHABLE", "eNA_UPDATE_STALE"} => r.state = "eND_INCOMPLETE"
    BY DEF Nd!prvDetermineAction
<1> HIDE DEF a
<1>3. ASSUME a \in {"eNA_UPDATE_REACHABLE", "eNA_UPDATE_STALE"} PROVE RowKept(r, s)
    <2> DEFINE st == IF a = "eNA_UPDATE_REACHABLE" THEN "eND_REACHABLE" ELSE "eND_STALE"
    <2>1. s = [r EXCEPT !.mac = na.mac, !.state = st, !.age = MaxAge, !.probes = 0,
                        !.router = na.router]
        BY <1>3 DEF Nd!ApplyNa, Nd!vNDPCacheUpdate
    <2>2. st \in Nd!State /\ st # "eND_FREE" BY NDConstants
    <2> HIDE DEF st, s
    <2>3. s \in Nd!Row /\ s.ip = r.ip /\ s.state = st
        BY <1>1, <2>1, <2>2, NDConstants DEF Nd!Row
    <2>4. GoodRow(s) BY <2>2, <2>3 DEF GoodRow
    <2>5. r.state \notin Nd!Bound BY <1>2, <1>3, NDConstants
    <2>6. QED BY <2>3, <2>4, <2>5 DEF RowKept, s
<1>4. ASSUME a \in {"eNA_DROP", "eNA_MAINTAIN"} PROVE RowKept(r, s)
    BY <1>4, RowSame DEF Nd!ApplyNa
<1>5. ASSUME a \in {"eNA_CONFIRM_REACHABLE", "eNA_REJECT_MAC_SET_STALE",
                    "eNA_REJECT_MAC_PROBE"}
      PROVE  RowKept(r, s)
    <2>1. PICK st \in {"eND_REACHABLE", "eND_STALE", "eND_PROBE"} :
              s = Nd!vNDPCacheSetState(r, st)
        BY <1>5 DEF Nd!ApplyNa
    <2> HIDE DEF s
    <2>2. s \in Nd!Row /\ s.ip = r.ip /\ s.mac = r.mac /\ s.state = st
        <3>1. CASE s = [r EXCEPT !.state = st, !.age = MaxAge, !.probes = 0]
            BY <1>1, <3>1, NDConstants DEF Nd!Row
        <3>2. CASE s = [r EXCEPT !.state = st, !.age = MaxAge]
            BY <1>1, <3>2, NDConstants DEF Nd!Row
        <3>3. CASE s = [r EXCEPT !.state = st] BY <1>1, <3>3, NDConstants DEF Nd!Row
        <3>4. CASE s = [r EXCEPT !.state = st, !.age = 1, !.probes = 0]
            BY <1>1, <3>4, NDConstants DEF Nd!Row
        <3>5. QED BY <2>1, <3>1, <3>2, <3>3, <3>4 DEF Nd!vNDPCacheSetState
    <2>3. RowKept(r, s) BY <2>2, RowState
    <2>4. QED BY <2>3 DEF s
<1>6. RowKept(r, s) BY <1>2, <1>3, <1>4, <1>5
<1>7. QED BY <1>6 DEF a

\* A row ages: it is verified, becomes stale, or is given up.
LEMMA AgeingRow ==
    ASSUME NEW row, GoodRow(row)
    PROVE  RowKept(row, Nd!AgeRow(row))
<1> DEFINE a == IF row.age > 0 THEN row.age - 1 ELSE 0
           r == [row EXCEPT !.age = a]
           s == Nd!AgeRow(row)
<1>1. row \in Nd!Row BY DEF GoodRow
<1>2. a \in Nat BY <1>1 DEF Nd!Row
<1>3. s = CASE r.state \in {"eND_INCOMPLETE", "eND_PROBE"} /\ r.age = 0 -> Nd!Probe(r)
            [] r.state = "eND_REACHABLE" /\ r.age <= SolicitAge ->
                 [r EXCEPT !.state = "eND_STALE", !.age = MaxAge]
            [] r.state = "eND_DELAY" /\ r.age = 0 ->
                 [r EXCEPT !.state = "eND_PROBE", !.probes = 0, !.age = 1]
            [] r.state \in {"eND_STALE", "eND_FREE"} /\ r.age = 0 -> Nd!FreeRow
            [] OTHER -> r
    BY DEF Nd!AgeRow
<1> HIDE DEF a
<1>4. /\ r \in Nd!Row /\ r.state = row.state /\ r.ip = row.ip /\ r.mac = row.mac
      /\ r.probes = row.probes
    BY <1>1, <1>2 DEF Nd!Row
<1> HIDE DEF r, s
<1>5. GoodRow(r) /\ RowKept(row, r) BY <1>4 DEF GoodRow, RowKept
<1>6. \A t : RowKept(r, t) => RowKept(row, t) BY <1>4 DEF RowKept
<1>7. r.probes \in 0 .. MaxProbes /\ r.state \in Nd!State BY <1>4 DEF Nd!Row
<1>8. CASE r.state \in {"eND_INCOMPLETE", "eND_PROBE"} /\ r.age = 0
    <2>1. s = Nd!Probe(r) BY <1>3, <1>8
    <2>2. CASE r.probes < MaxProbes
        <3>1. s = [r EXCEPT !.probes = r.probes + 1, !.age = 1]
            BY <2>1, <2>2 DEF Nd!Probe
        <3>2. r.probes + 1 \in 0 .. MaxProbes BY <1>7, <2>2, NDConstants
        <3>3. s \in Nd!Row /\ s.ip = r.ip /\ s.mac = r.mac /\ s.state = r.state
            BY <1>4, <3>1, <3>2 DEF Nd!Row
        <3>4. RowKept(r, s) BY <1>5, <1>8, <3>3, RowState
        <3>5. QED BY <1>6, <3>4 DEF s
    <2>3. CASE ~(r.probes < MaxProbes)
        <3>1. s = Nd!FreeRow BY <2>1, <2>3 DEF Nd!Probe
        <3>2. QED BY <3>1, RowGivenUp DEF s
    <2>4. QED BY <2>2, <2>3
<1>9. CASE r.state = "eND_REACHABLE" /\ r.age <= SolicitAge
    <2>1. s = [r EXCEPT !.state = "eND_STALE", !.age = MaxAge] BY <1>3, <1>9
    <2>2. s \in Nd!Row /\ s.ip = r.ip /\ s.mac = r.mac /\ s.state = "eND_STALE"
        BY <1>4, <2>1, NDConstants DEF Nd!Row
    <2>3. RowKept(r, s) BY <1>5, <1>9, <2>2, RowState
    <2>4. QED BY <1>6, <2>3 DEF s
<1>10. CASE r.state = "eND_DELAY" /\ r.age = 0
    <2>1. s = [r EXCEPT !.state = "eND_PROBE", !.probes = 0, !.age = 1] BY <1>3, <1>10
    <2>2. s \in Nd!Row /\ s.ip = r.ip /\ s.mac = r.mac /\ s.state = "eND_PROBE"
        BY <1>4, <2>1, NDConstants DEF Nd!Row
    <2>3. RowKept(r, s) BY <1>5, <1>10, <2>2, RowState
    <2>4. QED BY <1>6, <2>3 DEF s
<1>11. CASE r.state \in {"eND_STALE", "eND_FREE"} /\ r.age = 0
    <2>1. s = Nd!FreeRow BY <1>3, <1>11
    <2>2. QED BY <2>1, RowGivenUp DEF s
<1>12. CASE /\ ~(r.state \in {"eND_INCOMPLETE", "eND_PROBE"} /\ r.age = 0)
            /\ ~(r.state = "eND_REACHABLE" /\ r.age <= SolicitAge)
            /\ ~(r.state = "eND_DELAY" /\ r.age = 0)
            /\ ~(r.state \in {"eND_STALE", "eND_FREE"} /\ r.age = 0)
    <2>1. s = r BY <1>3, <1>12
    <2>2. QED BY <1>5, <2>1 DEF s
<1>13. QED BY <1>8, <1>9, <1>10, <1>11, <1>12

-----------------------------------------------------------------------------
(***************************************************************************)
(* The steps of neighbour discovery.                                        *)
(***************************************************************************)
NDInv == NDCache(xNDCache) /\ BuffersInv

LEMMA CacheSame == ASSUME NEW c, NDCache(c) PROVE CacheKept(c, c)
BY RowSame DEF NDCache, CacheKept

LEMMA NDInitInv == Nd!Init => NDInv
<1> SUFFICES ASSUME Nd!Init PROVE NDInv OBVIOUS
<1>1. xNDCache = [x \in Rows |-> Nd!FreeRow] BY NDConstants DEF Nd!Init
<1>2. Nd!FreeRow \in Nd!Row BY FreeRowGood DEF GoodRow
<1>3. NDCache(xNDCache) BY <1>1, <1>2, FreeRowGood DEF NDCache
<1>4. Buffers \in Nat /\ QueueLength \in Nat BY ARPAssumption
<1>5. Len(<< >>) = 0 /\ << >> \in Seq(Packet) OBVIOUS
<1>6. Cardinality({}) = 0 /\ Buffers + 0 + 0 = Buffers BY <1>4, FS_EmptySet
<1>7. Owned({}, FALSE, << >>, Buffers) BY <1>4, <1>5, <1>6 DEF Owned
<1>8. BuffersInv BY <1>7 DEF Nd!Init, BuffersInv
<1>9. QED BY <1>3, <1>8 DEF NDInv

LEMMA NDNextInv ==
    ASSUME NDInv, Nd!Next
    PROVE  CacheKept(xNDCache, xNDCache') /\ BuffersInv'
<1>0. NDCache(xNDCache) /\ BuffersInv /\ Owned(waiting, timer, rx, free) /\ gone \subseteq IP
    BY DEF NDInv, BuffersInv
<1> DEFINE Goal == CacheKept(xNDCache, xNDCache') /\ BuffersInv'
<1>1. ASSUME NEW na \in Nd!NaPacket, Nd!prvProcessNA(na) PROVE Goal
    <2>1. na.target \in IP BY DEF Nd!NaPacket
    <2>2. PICK x \in Nd!pxNDPCacheLookup(xNDCache, na.target) :
              LET action == Nd!prvDetermineAction(na, xNDCache[x])
              IN  /\ xNDCache' = [xNDCache EXCEPT
                                     ![x] = Nd!ApplyNa(na, xNDCache[x], action)]
                  /\ \/ Nd!vNDCheckWaitingPacket(na.target)
                     \/ UNCHANGED <<waiting, timer, rx, free>>
        BY <1>1 DEF Nd!prvProcessNA
    <2> DEFINE r == xNDCache[x]
               s == Nd!ApplyNa(na, r, Nd!prvDetermineAction(na, r))
    <2>3. x \in Rows /\ r.state # "eND_FREE" /\ GoodRow(r)
        BY <1>0, <2>1, <2>2, LookupRow DEF NDCache
    <2>4. RowKept(r, s) BY <2>3, Advertising
    <2>5. xNDCache' = [xNDCache EXCEPT ![x] = s] BY <2>2
    <2> HIDE DEF s, r
    <2>6. xNDCache \in [Rows -> Nd!Row] /\ \A y \in Rows : GoodRow(xNDCache[y])
        BY <1>0 DEF NDCache
    <2>7. xNDCache' = [y \in Rows |-> xNDCache'[y]] BY <2>5, <2>6
    <2>8. \A y \in Rows : RowKept(xNDCache[y], xNDCache'[y])
        <3>1. xNDCache'[x] = s /\ \A y \in Rows : y # x => xNDCache'[y] = xNDCache[y]
            BY <2>3, <2>5, <2>6
        <3>2. QED BY <2>4, <2>6, <3>1, RowSame DEF r
    <2>9. CacheKept(xNDCache, xNDCache') BY <1>0, <2>7, <2>8, RowsKept
    <2>10. gone' = gone BY <1>1 DEF Nd!prvProcessNA
    <2>11. BuffersInv'
        <3>1. CASE UNCHANGED <<waiting, timer, rx, free>>
            BY <1>0, <2>10, <3>1 DEF BuffersInv
        <3>2. CASE Nd!vNDCheckWaitingPacket(na.target)
            BY <1>0, <2>10, <3>2, Answering DEF Nd!vNDCheckWaitingPacket
        <3>3. QED BY <2>2, <3>1, <3>2
    <2>12. QED BY <2>9, <2>11
<1>2. ASSUME NEW p \in Packet, Nd!ReceivePacket(p) PROVE Goal
    <2>1. Owned(waiting', timer', rx', free')
        BY <1>0, <1>2, Receiving DEF Nd!ReceivePacket
    <2>2. BuffersInv' BY <1>0, <1>2, <2>1 DEF Nd!ReceivePacket, BuffersInv
    <2>3. QED BY <1>0, <1>2, <2>2, CacheSame DEF Nd!ReceivePacket
<1>3. ASSUME NEW ip \in IP, Nd!SendPacket(ip) PROVE Goal
    <2>1. CacheKept(xNDCache, xNDCache')
        BY <1>0, <1>3, LookingUp, Soliciting DEF Nd!SendPacket
    <2>2. BuffersInv' BY <1>0, <1>3 DEF Nd!SendPacket, BuffersInv
    <2>3. QED BY <2>1, <2>2
<1>4. ASSUME NEW ip \in IP, Nd!Leave(ip) PROVE Goal
    <2>1. BuffersInv' BY <1>0, <1>4 DEF Nd!Leave, BuffersInv
    <2>2. QED BY <1>0, <1>4, <2>1, CacheSame DEF Nd!Leave
<1>5. ASSUME Nd!HandlePacket PROVE Goal
    <2>1. rx # << >> /\ rx' = Tail(rx) /\ gone' = gone BY <1>5 DEF Nd!HandlePacket
    <2>2. Head(rx) \in Packet /\ Head(rx).from \in IP BY <1>0, <2>1, HeadOfQueue
    <2>3. CacheKept(xNDCache, xNDCache')
        <3>1. xNDCache' \in {xNDCache,
                             Nd!vNDRefreshCacheEntryAge(
                                 Nd!prvNDCacheLookup(xNDCache, Head(rx).from), Head(rx)),
                             Nd!prvNDCacheRecordSolicitation(xNDCache, Head(rx).from)}
            BY <1>5 DEF Nd!HandlePacket
        <3>2. QED BY <1>0, <2>2, <3>1, CacheSame, LookingUpAndConfirming, Soliciting
    <2>4. Owned(waiting', timer', rx', free')
        <3>1. CASE waiting' = waiting /\ timer' = timer /\ free' = free + 1
            BY <1>0, <2>1, <3>1, Handling
        <3>2. CASE waiting = {} /\ waiting' = {Head(rx)} /\ timer' = TRUE /\ free' = free
            BY <1>0, <2>1, <3>2, Parking
        <3>3. QED BY <1>5, <3>1, <3>2 DEF Nd!HandlePacket
    <2>5. QED BY <1>0, <2>1, <2>3, <2>4 DEF BuffersInv
<1>6. ASSUME Nd!vNDAgeCache PROVE Goal
    <2>1. xNDCache' = [x \in Rows |-> Nd!AgeRow(xNDCache[x])]
        BY <1>6, NDConstants DEF Nd!vNDAgeCache
    <2>2. \A x \in Rows : RowKept(xNDCache[x], xNDCache'[x])
        BY <1>0, <2>1, AgeingRow DEF NDCache
    <2>3. CacheKept(xNDCache, xNDCache') BY <1>0, <2>1, <2>2, RowsKept
    <2>4. \/ UNCHANGED <<waiting, timer, free>>
          \/ waiting # {} /\ waiting' = {} /\ timer' = FALSE /\ free' = free + 1
        BY <1>6 DEF Nd!vNDAgeCache
    <2>5. rx' = rx /\ gone' = gone BY <1>6 DEF Nd!vNDAgeCache
    <2>6. Owned(waiting', timer', rx', free') BY <1>0, <2>4, <2>5, Dropping
    <2>7. QED BY <1>0, <2>3, <2>5, <2>6 DEF BuffersInv
<1>7. ASSUME Nd!ResolutionTimer PROVE Goal
    <2>1. Owned(waiting', timer', rx', free') BY <1>0, <1>7, Dropping DEF Nd!ResolutionTimer
    <2>2. BuffersInv' BY <1>0, <1>7, <2>1 DEF Nd!ResolutionTimer, BuffersInv
    <2>3. QED BY <1>0, <1>7, <2>2, CacheSame DEF Nd!ResolutionTimer
<1>8. ASSUME Nd!FreeRTOS_ClearND PROVE Goal
    <2>1. xNDCache' = [x \in Rows |-> Nd!FreeRow] BY <1>8, NDConstants DEF Nd!FreeRTOS_ClearND
    <2>2. \A x \in Rows : RowKept(xNDCache[x], xNDCache'[x]) BY <2>1, RowGivenUp
    <2>3. CacheKept(xNDCache, xNDCache') BY <1>0, <2>1, <2>2, RowsKept
    <2>4. BuffersInv' BY <1>0, <1>8 DEF Nd!FreeRTOS_ClearND, BuffersInv
    <2>5. QED BY <2>3, <2>4
<1>9. QED
    BY <1>1, <1>2, <1>3, <1>4, <1>5, <1>6, <1>7, <1>8, NDConstants DEF Nd!Next

\* The MAC address of a bound row does not change.
LEMMA BindingStep ==
    ASSUME NEW c, NEW e, NDCache(c), CacheKept(c, e),
           NEW x \in Rows, NEW y \in Rows, c[x].state \in Nd!Bound, e[y].state \in Nd!Bound,
           c[x].ip = e[y].ip
    PROVE  c[x].mac = e[y].mac
<1>1. /\ GoodRow(c[x]) /\ c[x].ip # None /\ RowKept(c[y], e[y])
    BY NDConstants DEF NDCache, GoodRow, CacheKept
<1>2. c[y].ip = c[x].ip BY <1>1 DEF RowKept
<1>3. x = y BY <1>1, <1>2 DEF NDCache
<1>4. QED BY <1>1, <1>3 DEF RowKept

-----------------------------------------------------------------------------
(***************************************************************************)
(* The theorems.                                                            *)
(***************************************************************************)
NeighbourInv ==
    /\ ARPCache(xARPCache) /\ NDCache(xNDCache) /\ BuffersInv
    /\ version \in {"IPv4", "IPv6"}

LEMMA NeighbourInitInv == MCInit => NeighbourInv
BY ARPInitInv, NDInitInv DEF MCInit, NeighbourInv, ARPInv, NDInv

LEMMA NeighbourNextInv ==
    NeighbourInv /\ [MCNext]_MCvars => NeighbourInv' /\ CacheKept(xNDCache, xNDCache')
<1> SUFFICES ASSUME NeighbourInv, [MCNext]_MCvars
             PROVE  NeighbourInv' /\ CacheKept(xNDCache, xNDCache')
    OBVIOUS
<1>0. ARPInv /\ NDInv BY DEF NeighbourInv, ARPInv, NDInv
<1>1. CASE V4(Next)
    <2>1. ARPInv' BY <1>0, <1>1, ARPNextInv DEF V4
    <2>2. CacheKept(xNDCache, xNDCache') BY <1>0, <1>1, CacheSame DEF V4, NDInv
    <2>3. QED BY <1>0, <1>1, <2>1, <2>2 DEF V4, NeighbourInv, ARPInv, CacheKept
<1>2. CASE V6(Nd!Next)
    <2>1. CacheKept(xNDCache, xNDCache') /\ BuffersInv' BY <1>0, <1>2, NDNextInv DEF V6
    <2>2. QED BY <1>0, <1>2, <2>1 DEF V6, NeighbourInv, ARPInv, CacheKept
<1>3. CASE UNCHANGED MCvars
    <2>1. CacheKept(xNDCache, xNDCache') BY <1>0, <1>3, CacheSame DEF NDInv, MCvars
    <2>2. QED BY <1>3, <2>1 DEF MCvars, vars, NeighbourInv, BuffersInv
<1>4. QED BY <1>1, <1>2, <1>3 DEF MCNext

\* Both modules count the parked packet in the same way.
LEMMA SameCardinality == \A S : Nd!Cardinality(S) = Cardinality(S)
BY DEF Nd!Cardinality, Cardinality

\* NeighbourInv is an invariant of both networks.
THEOREM NeighbourInvariance == MCSpec => []NeighbourInv
<1>1. MCInit => NeighbourInv BY NeighbourInitInv
<1>2. NeighbourInv /\ [MCNext]_MCvars => NeighbourInv' BY NeighbourNextInv
<1>3. QED BY <1>1, <1>2, PTL DEF MCSpec

\* The rows of both caches, the parked packet, the event queue and the number
\* of free buffers have their types at all times.
THEOREM NeighbourTyped == MCSpec => []NeighbourTypeOK
<1>1. NeighbourInv => NeighbourTypeOK
    <2> SUFFICES ASSUME NeighbourInv PROVE NeighbourTypeOK OBVIOUS
    <2>1. TypeOK BY ARPInvImplies DEF NeighbourInv, ARPInv
    <2>2. Nd!TypeOK
        <3>1. BuffersInv /\ xNDCache \in [Rows -> Nd!Row] BY DEF NeighbourInv, NDCache
        <3>2. Nd!Rows = Rows /\ Nd!Packet = Packet BY NDConstants
        <3>3. xNDCache \in [Nd!Rows -> Nd!Row] BY <3>1, <3>2
        <3>4. waiting \subseteq Nd!Packet /\ rx \in Seq(Nd!Packet) BY <3>1, <3>2, BuffersTyped
        <3>5. Nd!Cardinality(waiting) <= 1 BY <3>1, BuffersTyped, SameCardinality
        <3>6. QED BY <3>1, <3>3, <3>4, <3>5, BuffersTyped DEF Nd!TypeOK
    <2>3. QED BY <2>1, <2>2 DEF NeighbourTypeOK
<1>2. QED BY <1>1, NeighbourInvariance, PTL

\* No address is in two rows of a cache (vARPRefreshCacheEntry,
\* prvNDCacheRecordSolicitation), however many rows and neighbours there are.
THEOREM NeighbourRowsUnique == MCSpec => []NeighbourUniqueRow
<1>1. NeighbourInv => NeighbourUniqueRow
    <2> SUFFICES ASSUME NeighbourInv PROVE NeighbourUniqueRow OBVIOUS
    <2>1. UniqueRow BY ARPInvImplies DEF NeighbourInv, ARPInv
    <2>2. Nd!UniqueRow
        BY NDConstants DEF NeighbourInv, NDCache, GoodRow, Nd!UniqueRow
    <2>3. QED BY <2>1, <2>2 DEF NeighbourUniqueRow
<1>2. QED BY <1>1, NeighbourInvariance, PTL

\* Each network buffer is free, in the event queue, or the parked packet
\* (pxARPWaitingNetworkBuffer, pxNDWaitingNetworkBuffer), and never two of
\* these; a parked packet has its timer.
THEOREM NeighbourBuffersOwned == MCSpec => []NeighbourBuffersKept
<1>1. NeighbourInv => NeighbourBuffersKept
    <2> SUFFICES ASSUME NeighbourInv PROVE NeighbourBuffersKept OBVIOUS
    <2>1. BuffersKept BY ARPInvImplies DEF NeighbourInv, ARPInv
    <2>2. Nd!BuffersKept
        <3>1. Owned(waiting, timer, rx, free) BY DEF NeighbourInv, BuffersInv
        <3>2. free + Nd!Cardinality(waiting) + Len(rx) = Buffers
            BY <3>1, SameCardinality DEF Owned
        <3>3. waiting # {} => timer BY <3>1 DEF Owned
        <3>4. QED BY <3>2, <3>3 DEF Nd!BuffersKept
    <2>3. QED BY <2>1, <2>2 DEF NeighbourBuffersKept
<1>2. QED BY <1>1, NeighbourInvariance, PTL

\* The MAC address of a bound IPv6 address does not change before its row is
\* given up, whatever a second device answers for it (prvDetermineAction).
THEOREM NeighbourBinding == MCSpec => NeighbourBindingKept
<1> DEFINE Kept == \A x, y \in Nd!Rows :
                       /\ xNDCache[x].state \in Nd!Bound /\ xNDCache'[y].state \in Nd!Bound
                       /\ xNDCache[x].ip = xNDCache'[y].ip
                       => xNDCache[x].mac = xNDCache'[y].mac
<1>1. NeighbourInv /\ [MCNext]_MCvars => Kept
    <2> SUFFICES ASSUME NeighbourInv, [MCNext]_MCvars PROVE Kept OBVIOUS
    <2>1. CacheKept(xNDCache, xNDCache') BY NeighbourNextInv
    <2>2. NDCache(xNDCache) BY DEF NeighbourInv
    <2>3. QED BY <2>1, <2>2, BindingStep, NDConstants
<1>2. MCSpec => [][Kept]_(Nd!vars)
    <2> HIDE DEF Kept
    <2>1. QED BY <1>1, NeighbourInvariance, PTL DEF MCSpec
<1>3. QED BY <1>2 DEF NeighbourBindingKept, Nd!BindingKept

=============================================================================
