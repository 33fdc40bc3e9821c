# A TLA+ verification of FreeRTOS-Plus-TCP

This directory holds TLA+ models of FreeRTOS-Plus-TCP (its TCP, its socket events,
its address resolution and its DHCP client), the TLC configurations that check them
on small instances, and TLAPS proofs of safety properties of the stream buffer, of
both halves of the TCP window, of a connection between two ends, of the sockets of a
server, of the address caches and of the DHCP client for instances of every size.

    tlc -workers 2 -config MCStreamBuffer.cfg MCStreamBuffer
    tlapm StreamBufferProofs.tla

`PROJECT.json` lists the components, every run with the properties it checks, one
mutant per property, the source lines behind every definition, the hazards, the
findings and the theorems.

## 1. Inventory

FreeRTOS-Plus-TCP runs one *IP task*.  It takes events from a queue
(`xNetworkEventQueue`): received packets, timers, and requests of the user tasks.
Almost all protocol state changes are made there.  User tasks call the socket API;
they share with the IP task the stream buffers, some fields of the sockets and the
event groups, mostly without a lock.  Network drivers hand in packets.

| Component | State | Operations | What is hard |
|---|---|---|---|
| Stream buffer (`FreeRTOS_Stream_Buffer.c`) | `uxTail`, `uxMid`, `uxHead`, `uxFront`, `ucArray` | add, get, peek, zero-copy pointer, move mid, clear | two tasks without a lock; wrap-around; data stored ahead of the head |
| Sliding window, receive (`FreeRTOS_TCP_WIN.c`, `FreeRTOS_TCP_Reception.c`) | next and highest sequence number, list of stored segments, SACK option | check and store a segment, chain stored segments | loss, duplicates, reordering, re-segmentation, full pool and buffer, the FIN |
| Sliding window, transmit (`FreeRTOS_TCP_WIN.c`, `FreeRTOS_TCP_Transmission.c`) | segment list, three queues, sequence numbers, windows | add data, get a segment, ACK, SACK, fast retransmit | lost and overtaken acknowledgements, retransmission, the peer's window, exhausted pool |
| TCP state machine (`FreeRTOS_TCP_State_Handling*.c`, `FreeRTOS_TCP_IP.c`) | `eTCPState`, FIN flags, sequence numbers, time-outs | packet handlers, state change, ageing | simultaneous close, a FIN before its data, late packets of an earlier connection, resets |
| TCP sockets (`FreeRTOS_Sockets.c`) | list of bound sockets, `pxPeerSocket`, `bPassQueued`, `bPassAccept`, `usChildCount` | listen, accept, close | who frees a child and when; pointers to freed sockets; lost clients |
| Waiting and waking (`FreeRTOS_Sockets.c`, `FreeRTOS_IP.c`, `FreeRTOS_IP_Timers.c`) | `usTimeout`, `xEventBits`, the event group, `xTCPTimer` | connect, send, recv, shutdown; the loop of the IP task | lost wake-ups, stale bits, unlocked fields, timer events that are not queued |
| ARP, ND (`FreeRTOS_ARP.c`, `FreeRTOS_ND.c`) | address caches, ages, one waiting packet, a resolution timer | lookup, refresh, advertisement, age, evict, clear | stale and double rows, a packet that waits for an address, conflicting addresses |
| DHCP (`FreeRTOS_DHCP.c`) | a state per end-point, one shared socket, timers, transaction ids | one step per timer or answer | late and misdirected answers, refusals, a user count of the socket, fallback addresses, interfaces that go down |
| DHCPv6, RA, DNS, Tiny TCP, network buffers | state machines, caches, call-backs, pools | - | as above; not modelled yet |
| UDP, ICMP, IP layers, routing | little or none | header checks, lookups | parsing, which is not what TLC is good at |
| Network interfaces | hardware | - | vendor code |

What makes the components correct: the byte stream a user reads is the one the
peer sent; what is acknowledged is stored and what is removed from `txStream` was
received; nothing is sent beyond the peer's window; a FIN is neither accepted nor
sent before the data that precedes it; connecting and closing end; every socket is
freed once, and only when nobody refers to it; connected clients are accepted; a
task that waits is woken; an address has one row in its cache and a neighbour that
left is forgotten; no network buffer is lost; an address that is used was granted,
and in the end there is one.

## 2. Modules

    ByteStream <--implements-- StreamBuffer <-- StreamBufferProofs
    TCPSequence <-- TCPWindowRx <-- TCPWindowRxProofs
                <-- TCPWindowTx <-- TCPWindowTxProofs
    Lists              lists of the kernel, for TCPWindowTx and TCPListen
    TCPConnection      two ends and the network     <-- TCPConnectionProofs
    TCPListen          the sockets of a server      <-- TCPListenProofs
    SocketEvents       a user task and the IP task
    ARP, ND            composed by MCNeighbours     <-- NeighbourProofs
    DHCP               <-- DHCPProofs
    ListLemmas         least elements and lists, for the other proof modules
    MC<module> with its .cfg files: the instances for TLC

Each module abstracts what another one has in detail: `TCPWindowRx` and
`TCPWindowTx` take the stream buffer for what `ByteStream` says, `TCPConnection`
takes the windows for sets of segments, and `SocketEvents` takes the connection for
a count of units in each direction.  Mutated definitions (`<name>_<what is wrong>`)
stand in front of the definition they are a plausible error of; no specification
uses them.

### StreamBuffer, ByteStream

`uxStreamBufferAdd` is three kinds of steps: reading the counters and computing the
count (`AddStart`), the copying of one byte (`AddCopy`), and the critical section
that updates `uxHead` and `uxFront` (`AddCommit`).  `uxStreamBufferGet` is `GetStart`,
`GetCopied`, `GetCommit`; between the first two the copying goes on, and `GetIntact`
says that the cells it copies from do not change.  The two calls interleave freely,
as the two tasks do.  A byte is its position in the TCP stream, so that loss,
repetition and overwriting are visible; `tailPos`, `headPos` and `ahead` are history
variables.  `SpecRx` uses the buffer as `rxStream`, `SpecTx` as `txStream`.  The caller's
contract (`AddCall`): with a NULL pointer `uxHead` moves over bytes that were stored
before.  `ByteStream` is a bounded FIFO, which both specifications implement.

### TCPSequence, TCPWindowRx

Sequence numbers are numbers modulo `2 * SeqHalf` with the C comparisons.  The peer
sends `Total` bytes and a FIN; any of its segments may arrive at any time and any
number of times.  There are two kinds of peers (`peer`, chosen at the start): a
*steady* one always cuts its stream at the same places, `Cuts`, and its FIN finds our
sending side done; *any* sends pieces of any length from any place, and our sending
side may be busy when its FIN arrives.  `RecvSegment` is the whole handler of one segment in
eESTABLISHED: the highest sequence number, `prvStoreRxData` with
`lTCPWindowRxCheck` and `lTCPAddRxdata`, and the decision on the FIN.  A list of
stored segments is a set, as no two start at the same number; the loop that follows
stored segments until there is a gap is the smallest set of numbers that is closed
under it (`Reached`), and `Chain` its last number.  The sending side is one bit
(`xTCPWindowTxDone`).  `rxStream` is abstracted by `head`, `tail` and the byte
stored at each offset, which the theorems about `StreamBuffer` justify.

### TCPWindowTx

`w` is the Tx part of `TCPWindow_t`: the set of segments and the three queues of
sequence numbers.  `txStream` is what `ByteStream` says, with `mid` and `tail` as
counts and `uxMid`, `uxTail` as the indices they stand for.  The user task sends and shuts down; the IP task alternates
`xTCPSocketCheck` (with `prvTCPAddTxData`), `prvTCPPrepareSend` (up to
`SEND_REPEATED_COUNT` times), and `RecvAck` (SACK option, acknowledgement, new data).
The loops of the code are written in closed form: the segments that one call of
`lTCPWindowTxAdd` makes start at equal distances, `prvTCPWindowTxCheckAck` follows a
`Chain` of segments as the receiver does, and `uxListRemove` for a set of segments is
`Without`.  Time is abstracted: a retransmission timer that runs may expire in any call of
`prvTCPPrepareSend`.  `wire` keeps every segment ever sent, so it can arrive again.
The peer, which is external, is an ordinary receiver that answers each segment,
drops data beyond its window, and never takes a SACK back.  An acknowledgement may
be lost; with `MaxAcks` above 1 it may also be overtaken.

Left out: window scaling (the scaled value is what `ulWindowSize` holds), the round
trip estimate, the delayed ACK, and `bSendFullSize = 1`, which no run uses.

### TCPConnection

Two sockets of this stack, one at each end of a network that loses, duplicates and
reorders packets.  "A" connects; "B" listens with
`FREERTOS_SO_REUSE_LISTEN_SOCKET`, so that it is in turn the listening and the
connected socket.  `Receive` is `xProcessReceivedTCPPacket` with
`prvTCPHandleState` and all that it calls: the SYN hand shake, `prvHandleEstablished`,
`prvTCPHandleFin`, resets and challenge acknowledgements, delayed acknowledgements.
`Timer` is `xTCPSocketCheck`: SYN retries, retransmission, `bUserShutdown` and
`bCloseRequested`, the FIN, the hang protection.  The users connect, send, shut down
and close; a closed socket answers with a RST.  `log` records which segments and
FINs an end has taken, and what it skipped when eSYN_RECEIVED took over a sequence
number (`FreeRTOS_TCP_State_Handling.c:424`).

Simplified: users read at once, windows, pools and buffers are large, no SACK at the
sender, retransmission by the timer only, no failing allocation or random number,
`ipconfigTCP_KEEP_ALIVE` 0 and `ipconfigTCP_HANG_PROTECTION` 1, the defaults.

### TCPListen

The sockets of one server.  The IP task is a loop: `vCheckNetworkTimers` starts the
walk over the bound sockets (`xTCPTimerCheck`, one step per socket), the socket that
was put aside is closed (`vSocketCloseNextTime`), then one packet or event is
handled.  The user task accepts, closes clients, closes the server and opens it
again.  A client is identified with its socket.  `vTCPStateChange` appears as
`ToConnected` and `ToClosed`.  Left out: call-backs, a failed allocation, a time-out
of `FreeRTOS_accept`; socket re-use is in `TCPConnection`.

### SocketEvents

How a task in `FreeRTOS_connect`, `FreeRTOS_recv`, `FreeRTOS_send` or
`FreeRTOS_shutdown` and the IP task tell each other that there is work.  The user sets
`usTimeout` (`SetTimeout`) and sends an eTCPTimerEvent (`xSendEventToIPTask`), which is
queued only when the queue is empty, and otherwise only marks `xTCPTimer` as expired.
The IP task collects `xEventBits` and gives them to the event group when it is about
to sleep (`GiveEventBits`) or when the state changes (`vTCPStateChange`).  Every step
reads or writes the unlocked fields once: `ip.load` is the time or the window that
the IP task has computed and not yet stored.  A `Scene` says whether the users have a
lower priority than the IP task (they run only while it waits) or may interrupt it,
which calls they make, and what the peer sends.  A stream is a number of units.  The
network is reliable here.  A call that waits may time out or not, so that
`portMAX_DELAY` is included.

Left out: `FreeRTOS_select`, `FreeRTOS_accept`, signals, call-backs, zero copy, UDP,
connecting again after a connection.  The flags of `bits` share a machine word that
both tasks change by reading and writing it; the model changes each flag by itself.

### ARP, ND

The two caches and, for each, the one received packet that waits until the address of
its sender is resolved (`waiting`), with its timer, the event queue (`rx`) and the
number of free network buffers.  One action per message: requests, replies and
gratuitous messages (ARP), advertisements with all their flags (ND), packets from and
to neighbours, ageing, the resolution timer, clearing.  A neighbour may leave, and
another device may use the address of a neighbour; in ND it may also answer for it without
naming a MAC address (`CanSend`).  In `ND` a row has the states of
RFC 4861; `prvDetermineAction` and `AgeRow` decide on its next state.

Left out: ARP for gateways and remote addresses, loopback and multicast addresses,
several end-points, an end-point that goes down, `xARPWaitResolution`; ND for
off-link addresses, malformed advertisements, answers to solicitations.

### DHCP

One state machine per end-point and one socket for all.  A timer or a packet posts an
eDHCPEvent that carries the expected state (`xSendDHCPEvent`); `vDHCPProcess` goes
through the packets of the socket (`NextPacket`), whichever end-point they are for, and
then handles the end-point (`LoopEnds`).  `vDHCPProcessEndPoint` is the whole
state machine, with the functions of the code for every state.  `Chance` is what the
world decides in one step: whether the period has elapsed, a message could be sent, a
random number was available, the link-local address clashes, and what the
application hook answers.  An interface may go down in any state.

Abstracted: a transaction id is one bit of a packet (offers and ACKs with another id, late
ones or for another client, arrive at any time), an address has the name of the
server that leases it, periods are counted in doublings, and the other options of a
message are left out.

## 3. Runs

Passing runs:

| Run | States | Checks |
|---|---|---|
| `stream` | 60,518 | `rxStream` and `txStream`, chosen at the start: contents, out-of-order bytes, reads under way, refinement of `ByteStream` |
| `rx` | 11,765 | with any peer: in-order delivery and a sufficient space check; with a steady one also truthful ACK and SACK, FIN after data, everything is delivered and the FIN accepted |
| `tx_safety` | 653,980 | overtaken acknowledgements, SACK, fast retransmission, competition for descriptors, preemption, wrapping: window, stream and peer agree, every segment is in one queue |
| `tx_live` | 12,272 | everything is confirmed in the end; the peer's window is respected; FIN after queued data |
| `tcp` | 47,928 | from the SYN to both FINs over a lossy network: confirmed data and FINs were delivered (`ConfirmsWhatItHas` of the receiver, `ConfirmedIsDelivered` of the sender), no reset of a connection in use, connecting and closing end |
| `listen` | 85,134 | three clients, backlog two, a server that is closed and opened again: pointers, child count; sockets that nobody owns are freed; connected clients are accepted |
| `sockets` | 445,055 | a task that waits without a time limit goes on when it can; a closed receive window is opened again |
| `neighbours` | 246,078 | ARP and ND, chosen at the start: one row per address, one owner for each buffer and a timer for the one that waits, an ND binding that is kept until it is given up, neighbours that left are forgotten, ARP reservations end |
| `dhcp` | 347,741 | two end-points: the socket is open exactly while it is used, only granted addresses are used, a working end-point has its timer |
| `dhcp_live` | 1,133 | an address in the end, though messages are lost, sends fail, servers refuse and the interface goes down |

Violation runs, each a behaviour of the code that differs from what the repository
says of it; the quotations are under "findings" in `PROJECT.json`:

| Run | Behaviour |
|---|---|
| `tcp_fin` | A (which closes after sending) sends data with its FIN, which is lost; B's FIN arrives, A answers with its FIN alone, and B, in eFIN_WAIT_1, takes it over the missing data and confirms both |
| `dhcp_hang` | a message for an end-point that has given up DHCP stays in the socket that another end-point keeps open, and the loop of `vDHCPProcess` never ends |

### At the edge

Other constants, and other properties, stand at the edge of what holds.  Each row was
seen as a counterexample with the change it names.

| Run, and change | What fails | Because |
|---|---|---|
| `rx`, `Cuts` with `Total - 1` | `FinAfterData`, `AnswerTruthful` | a FIN is accepted, and confirmed, while exactly the last byte before it is missing (`FreeRTOS_TCP_WIN.c:614`) |
| `rx`, a steady peer whose FIN may find the sending side busy | `EventuallyClosed` | a FIN refused because of pending Tx data is confirmed and never acted on (`FreeRTOS_TCP_State_Handling.c:609`) |
| `rx`, the SACK part of `AnswerTruthful` for every peer | a SACK reports bytes that were not stored | a longer segment that starts like a stored one is dropped (`FreeRTOS_TCP_WIN.c:1134`) |
| `tx_live`, `Isn = 14`, `Total = 6`, `MSS = 2`, larger buffers | `WithinPeerWindow` | outstanding bytes are compared without wrapping (`FreeRTOS_TCP_WIN.c:1543`) |
| `tx_live`, `MaxAcks = 2` | `WithinPeerWindow` | the window of an overtaken acknowledgement is stored (`FreeRTOS_TCP_State_Handling.c:520`) |
| `tx_live`, `OthersUse = TRUE` | `FinAfterQueuedData` | no descriptor is left, and the FIN looks only at the window (`FreeRTOS_TCP_Transmission.c:939`) |
| `tx_live`, `Preempt = TRUE` | `FinAfterQueuedData` | the user sends and shuts down between `prvTCPAddTxData` and `prvTCPPrepareSend` |
| `tx_live`, `KeepAlive = FALSE` | `AllDelivered` | a lost window update is never asked for; there is no persist timer |
| `listen`, `Coincide = TRUE` | `IteratorAlive` | the walk over the sockets continues at a socket it has freed (`FreeRTOS_TCP_IP.c:104`) |
| `listen`, `ClientIsAccepted` without its exception | a connected client waits for ever | `pxPeerSocket` is cleared with a broken connection and no other client is linked (`FreeRTOS_TCP_IP.c:292`) |
| `listen`, `Preempt = TRUE` | `PointersAlive` | the user accepts and closes the client that `xTCPCheckNewClient` has just found (`FreeRTOS_TCP_IP.c:1025`) |
| `sockets`, `CallReturns` also for a refused connect | a `FreeRTOS_connect` with `portMAX_DELAY` never returns | a RST takes eCONNECT_SYN to eCLOSED; neither is a connected state, so no eSOCKET_CLOSED is given (`FreeRTOS_TCP_IP.c:853`) |
| `sockets`, `WindowReopens` also for priority "any" | the window stays closed until the peer probes it | the user reads and asks for a window update between the computation of the window and `bWinChange = FALSE` (`FreeRTOS_TCP_Transmission.c:371`) |
| `sockets`, two tasks | `CallReturns` | the eSOCKET_CLOSED bit is cleared by the task that it wakes, while another one is between its test and `xEventGroupWaitBits` |
| `neighbours`, ND's `GoneIsForgotten` without its exception | an IPv6 neighbour that has left stays bound | a solicited advertisement without a target link-layer option confirms the row, whoever has sent it (`FreeRTOS_ND.c:1193`; RFC 4861 asks for it) |
| `neighbours`, `SendPacket_Refreshes` for `SendPacket` | `GoneIsForgotten` | a lookup would refresh the age of a row, as the comments on it say (see below) |
| `dhcp`, `MayFail = {"random"}` | `TimerWhileWorking` | without a random number `prvInitialiseDHCP` makes neither socket nor timer (`FreeRTOS_DHCP.c:966`) |
| `dhcp`, `MayFail = {"init"}` | `SocketShared` | the state moves on although the socket was not created |

The comments on the lookups of both caches disagree with the code: `FreeRTOS_ARP.c:875-877`
says of `eARPGetCacheEntry` that it will "refresh the ARP cache entry's age", and
`include/FreeRTOS_ND.h:135-137` says of `eNDGetCacheEntry` "refresh the ND cache entry's age".
Neither does: `prvCacheLookup` of ARP changes nothing when it hits, and `prvNDCacheLookup`
gives a STALE row the shorter age of DELAY.  The models follow the code, and
`GoneIsForgotten` depends on it: with lookups as the comments describe them, a device that
keeps sending to a neighbour that has left would keep its row for ever.

In the passing runs the constants exclude these conditions, so that they show what
holds otherwise.  After a pointer to freed memory is used nothing can be said, so
`listen` excludes what `Coincide` allows.

Behaviours that the models have and no property forbids: B in eSYN_RECEIVED accepts the
acknowledgement of an earlier connection (with `MaxListens = 2`; the properties of
`tcp` are stated for ends that belong to the same connection), and a SYN+ACK's
acknowledgement number is not checked either; a RST in eSYN_RECEIVED leaves a re-used
listening socket in eCLOSED; a peer that has gone keeps its socket in eESTABLISHED
when keep-alive is off; `pxAckMessage` survives `FreeRTOS_listen`; a stale
eSOCKET_CLOSED lets the next `FreeRTOS_connect` return at once; `usTimeout = 1` of a user
can be overwritten by the IP task, which only delays (`CallReturns` holds for priority
"any"); in the ND cache traffic to an unresolved address keeps its row for ever
(`FreeRTOS_ND.c:908`), and a received packet, and not only a sent one, moves a STALE row to DELAY;
two IPv4 addresses on one MAC address displace each other; a DHCP NAK is accepted from
any server, and a server that offers and never acknowledges is asked for ever.

Further hazards that no model reaches: segments that a SACK reported are freed
(`FreeRTOS_TCP_WIN.c:1023`, which RFC 2018 permits); round trip times taken from
segments that were sent twice (`FreeRTOS_TCP_WIN.c:2054`); the 8-bit counters of a segment
(`FreeRTOS_TCP_WIN.c:1857`); `pxHeadSegment` after a socket is used again
(`FreeRTOS_TCP_WIN.c:702`); allocations and binds that fail in
`FreeRTOS_TCP_State_Handling_IPv4.c:202` and `FreeRTOS_TCP_State_Handling.c:1046`.

### Bounds

- *stream*: 5 cells and 12 stream positions let each index wrap several times.
- *rx*, *tx*: 3 to 6 bytes in segments of 1 to 3 give gaps on both sides of a stored
  segment and chains of stored segments; `Capacity`, `PeerCapacity` and `SegCount` are
  smaller than what is sent, so buffer, window and pool fill up.  The first sequence
  number makes the numbers wrap in the middle of the transfer, except in `tx_live`.
  Two acknowledgements under way (`MaxAcks`) are enough for one to overtake another.
  Counters saturate above the threshold that the code compares with.
  `2 * SeqHalf` is more than twice `Total`, as 2^32 is for what is in flight.  A larger
  `rx` (8 bytes, cut at 2, 3 and 5, with a buffer of 6) was checked once (77,733 states).
- *tcp*: one data segment, and up to one and two packets on the way, with both users
  closing.  Larger instances were checked once without an error: two segments and two
  packets each way (701,045 states); a segment in both directions with B closing
  (954,766 states); two connections one after the other, with a segment each way (70,097).
- *listen*: three clients for a backlog of two, so that one is refused and two wait.
- *sockets*: `RxSize` 3 with water marks 1 and 2 gives the delayed acknowledgement, the
  closed window and the one-MSS window; a send of two units fills `txStream` of one; one
  place in the event queue; `usTimeout` up to two walks; one SYN retry.  When users may
  interrupt the IP task the peer ends the connection with a RST only.
- *neighbours*: three addresses for two rows, one of a neighbour that may leave and one
  of a router; three buffers, one place in the queue; ages up to 2, also of an ARP
  reservation, so that one which is prolonged does not expire.
- *dhcp*: two end-points, one server, one doubling of the period, one place in the event
  queue and in the socket, one interface failure for each end-point.

### Fairness

- *rx*: the peer retransmits the first missing byte and its FIN until they are confirmed
  (its duty under TCP), and the user keeps reading.
- *tx_live*: the TCP timer calls `xTCPSocketCheck` again and again, running timers expire,
  a segment that is retransmitted for ever arrives and is answered, the peer reads, and
  keep-alive probes are answered.
- *tcp*: weak fairness of `Hangs`, the TCP timer that finds a socket to be old; the network
  may lose everything.
- *listen*: the IP task is scheduled, its queue is FIFO, the user keeps calling
  `FreeRTOS_accept`, and time passes.
- *sockets*: weak fairness of the IP task, whose `xQueueReceive` has a time limit; strong
  fairness of a task that is inside a call, which runs whenever the IP task waits often
  enough.  Nothing is assumed of the peer, of new calls, or of time-outs.
- *neighbours*: the ARP and ND timers expire, so that the caches age.  Nothing is assumed
  of the network, of received packets or of the resolution timer.
- *dhcp_live*: the IP task runs, timers expire, an interface can be started again, and
  what is tried for ever succeeds at some time: a send, a free link-local address, an
  answer to a request.  The finding `dhcp_hang` assumes only that the loop of
  `vDHCPProcess` goes on and can send.

**Deadlock** is checked in `stream`, `rx`, `tx_safety`, `listen` and `neighbours`.
The others may stop: a connection ends, a task may make no further call, an end-point
is done with DHCP.

## 4. Proofs

Every theorem is of the form `Spec => []P`, or `Spec => P` for an action property
or a refinement, and holds for every value of the constants that satisfies the
assumptions of the module: buffers, streams, pools, queues and sets of clients,
neighbours, end-points and servers of every size.  Some theorems have an assumption
more, in their statement; the table "At the edge" shows what happens without it.

| Module | Theorems (property) | Additional assumption |
|---|---|---|
| `StreamBufferProofs` | `RxInvariant`, `TxInvariant`; `TypeOK`, `UnreadIntact`, `AheadIntact`, `GetIntact`, `FrontBound`, `MidBetween`; `RxRefinesByteStream`, `TxRefinesByteStream` | |
| `TCPWindowRxProofs` | `RxInvariance`, `RxTyped` (`TypeOK`), `StreamInOrder` (`DeliveredInOrder`), `NoShortStore` (`NeverShort`) | |
| | `TruthfulAnswers` (`AnswerTruthful`), `FinIsLast` (`FinAfterData`) | `Total - 1 \notin Cuts` |
| `TCPWindowTxProofs` | `TxInvariance`, `TxTyped` (`TypeOK`), `StreamInStep` (`StreamMatchesWindow`), `QueuesDisciplined` (`QueueDiscipline`) | |
| | `FinIsAfterData` (`FinAfterQueuedData`) | `~Preempt`, `~OthersUse`, `SegCount > 0` |
| | `SendsWithinWindow` (`WithinPeerWindow`) | `MaxAcks = 1`, `Isn + Total < 2 * SeqHalf` |
| `TCPConnectionProofs` | `ConnTyped` (`TypeOK`) | |
| | `ConnInvariance`, `NothingConfirmedUnseen` (`ConfirmsWhatItHas`), `NothingLost` (`ConfirmedIsDelivered`), `NoBelievedReset` (`NoResetWhileLive`) | `MaxListens = 1`, `CloseAfterSend = {}` |
| `TCPListenProofs` | `ListenInvariance`, `ListenTyped` (`TypeOK`), `PointersSafe` (`PointersAlive`), `ChildrenCounted` (`ChildCountExact`) | `Preempt = FALSE` |
| `NeighbourProofs` | `NeighbourInvariance`, `NeighbourTyped`, `NeighbourRowsUnique`, `NeighbourBuffersOwned`, `NeighbourBinding` (an action property) | |
| `DHCPProofs` | `Invariance`, `Typed` (`TypeOK`), `LeaseGranted` (`LeasedIsGranted`), `SocketCount` | |
| | `SocketIsShared` (`SocketShared`) | `"init" \notin MayFail` |
| | `TimerRuns` (`TimerWhileWorking`) | `"random" \notin MayFail` |

`ListLemmas` proves that a set of numbers has a least one, from the
well-foundedness of inclusion between finite sets.  The proofs that follow a list or a
chain to its end rest on it, since induction itself is not available.  It also says what
`Without`, `Append`, `Tail` and `\o` do to the elements of a list, to their order, and to
the fact that no element occurs twice; every queue of the models is reasoned about
with these lemmas.

### Stream buffer

Assumptions: `LENGTH` is a number of at least two, the bounds are numbers, and
`NoByte` is not a position.

The properties are not inductive by themselves.  That an add never overwrites what
a read is copying needs a statement about the call that is half done: its count was
computed from an older `uxTail`, and since the consumer only moves `uxTail` forward,
the room can only have grown.  `IInv` therefore says of an add under way that its
cells lie beyond `uxHead` at its offset and within the free space, and of a get under
way that its bytes lie between `uxTail` and `uxHead`.  With the cells written as
`Wrap(uxTail + d)` for a distance `d`, all non-interference is that different distances
below `LENGTH` are different cells.  For the refinement, `AddCommit` at offset 0 is
`Put`, `GetCommit` is `Take`, `vStreamBufferClear` is `Reset`, and the other steps leave
the mapped queue unchanged because the unread cells are not written.

### Reception

Assumption: the stream with its FIN is shorter than half the range of sequence
numbers, as what is in flight is in TCP.

`At(o)` is the sequence number of position `o`.  Within the stream it is one-to-one, and
the C differences of two such numbers are the differences of their positions
(`Positions`), so all wrapping is dealt with in one lemma.  `IInv` says that every
stored descriptor is a piece of the peer's stream whose bytes are in `rxStream`, within
the free space of a user who has not read since (`GoodSegments`); that the bytes up to
`uxHead` are stored; and that the acknowledgement number is the one of `uxHead`, or
follows the FIN.  From this `Chaining` gets that following the stored segments ends,
at a position up to which everything is stored and which is within the space: this is
why the second call of `lTCPAddRxdata` never falls short.  `Checked` shows that
`lTCPWindowRxCheck` has three kinds of answers (`Dropped`, `Taken`, `Queued`), and
`DropKeeps`, `TakeExtends` and `QueueStores` what `prvStoreRxData` makes of each.
Nothing of this needs a steady peer: stored segments may overlap in any way.

A steady peer is needed for the SACK option (two segments that start at the same
place must be equal, `SameCut`) and for the FIN.  `FinInOrder` tolerates a missing byte,
so that a FIN would be confirmed too early if the last segment before it had only one
byte: hence `Total - 1 \notin Cuts`.  `SteadyInv` adds that confirmed data is stored.

### Transmission

Assumption: the stream is shorter than half the range of sequence numbers; segments
are not empty; the bounds are numbers.  Nothing is assumed of what the peer
acknowledges for the first four theorems: they hold for acknowledgements that are
late, repeated or untrue, and while other sockets take descriptors and the user task
interrupts the IP task.

`IInv` (`InStep`) says that the segments are the pieces of the bytes `tail .. mid - 1`
without a gap or an overlap, each with the index of its first byte (`Segments`); that a
segment is in xTxQueue while it was not sent and in one of the other queues while it
waits, once (`Lined`); that xTxQueue is in the order of the stream (`Sorted`); that there
is a position `h`, that of `highest`, with all sent segments before it and all others
after it (`SentUpTo`); that `pxHeadSegment` is the last segment and was not sent
(`HeadIsLast`); and that the pool is not overdrawn.  The order and the position `h` are
what the properties lack: without them a new transmission could set `highest` to
the end of a segment in the middle.  `Transmitted`, `Checked` and `Added` show what
`ulTCPWindowTxGet`, `prvTCPWindowTxCheckAck` and `lTCPWindowTxAdd` make of such a
window: one segment changes its queue; a prefix of the segments is freed, or some are
marked, and in both cases they leave their queues; new segments continue the stream at
`mid`, the first bytes perhaps in the last segment.  `Confirming` combines a SACK with
the acknowledgement that came with it.

For `FinIsAfterData`, `FinInv` adds that while the IP task handles an event either all
that the user has written is in the window or something is in it; an event starts
with `prvTCPAddTxData`, and a pool of at least one descriptor which no other socket uses
has room when the window is empty.  For `SendsWithinWindow`, `WinInv` adds the peer: what was
confirmed was received, and an acknowledgement under way names a byte `c` that had not
arrived when it was sent, with a window that ends, counted from `c`, no later than the
peer's window does now (`Told`).  With one acknowledgement under way `c` cannot be
confirmed before it is handled, so the window that is stored is not stale.
`Isn + Total < 2 * SeqHalf` keeps the unsigned comparison of `highest` and `cur` in the
code from wrapping.

### Connection

`ConnTyped` holds for all constants.  That counts and greatest elements are defined makes
it need more than the types: the sets of segments and of packets are finite.

The other theorems have two assumptions.  `CloseAfterSend = {}` excludes
`FREERTOS_SO_CLOSE_AFTER_SEND`, with which a FIN goes out with data that may be lost:
`tcp_fin` is then a counterexample.  `MaxListens = 1` says that B is connected to once, as in
the run `tcp`; with two connections B may take a packet of the first one for one of the
second (see "Behaviours that the models have").  Nothing is assumed of the amount of data,
of the number of packets on the way, of what the network does with them, or of when the
users shut down and close.

`ConnInv` speaks of both ends and of all packets at once.  With `D`, `E` the segments and
FINs that an end has taken, as its `log` says, and `G`, `F` those of its peer:

- `Ends`: each socket is an end of the connection (`Conn`) or `Idle`, not yet or not any
  more part of it.  A `Conn` socket confirms only what is in `D`, and what it has removed
  from its window is in `G` (`Sender`, `Receiver`); its sequence numbers lie on segment
  boundaries; it has sent a FIN only when its window was empty, so that all data before
  the FIN is in `G`, and a FIN that it has recorded comes with `D` complete up to it.  A
  packet on the way (`Carries`, `Outgoing`) says nothing that is not so.  As histories
  only grow, late and repeated packets stay true (`TakenMore`, `EndGrows`), and this is
  all that is needed of the network.  A number may stand one behind the last segment only
  when it follows a FIN that the other end has taken (`Follows`); segments have two bytes,
  so that it cannot be mistaken for the start of a segment, and the tolerance of one byte
  in the FIN checks of the code hides no segment.
- `Early`: while A has not taken part there are only SYNs, answers to them and resets on the
  way, so the SYN+ACK that A believes is the one of this connection.
- `Unanswered`: before B has answered a SYN it is idle.

The exception in both properties is the acknowledgement that ends the hand shake, whose
sequence number B takes over unchecked (`skipped`): from then on `Had` takes every segment
for delivered to B, which is what makes one invariant cover both cases.  Each handler has a
lemma on types (`...Typed`), one on what it leaves alone (`...Frame`) and one on `Conn`
(`...Keeps`); `prvStoreRxData` rests on `RunIsConsecutive`, which counts the stored segments
that follow without a gap.

`NoBelievedReset` shows more than `NoResetWhileLive`: while both ends are in use no RST at
all is on its way.  `ResetInv` says that no reset goes to B while A is connecting or
connected, and none to A while B is connected, or listens and has not answered yet, and A
waits or is connected.  A socket answers with a reset when it is not active, when it
listens, and when the hand shake fails; it then is in none of these states (`ProcessClean`),
except when B listens before it has answered, and then only SYNs and resets reach it.

### Sockets of a server

Assumption: there are finitely many clients, and the backlog is a number.  `Preempt = FALSE` says that the IP task is not
interrupted between finding a new client and linking it; otherwise `PointersAlive` fails.

`IInv` has three parts.  `Good`, about the sockets alone: the list of bound sockets has
every socket that exists once; sockets that nobody owns exist; the peer of the server
is one of them; the socket that was put aside exists and is offered to nobody; an
eSYN_RECEIVED socket is still queued; the child count is the number of sockets that
exist while the server listens.  `Posted`: a socket is in the event queue at most
once.  `Tasks`: what both tasks hold between two steps.  Every operation on the sockets
(`vTCPStateChange`, `vSocketClose`, `vSocketCloseNextTime`) has one lemma that says when it
keeps `Good`, and each action applies one or two of them.  The walk over the sockets
may continue at a freed socket (`Coincide`, an edge case above); the theorems hold
with it too, as far as these properties go.

### Address caches

`NeighbourInv` has the types of all rows, at most one row for each address, one
owner for each buffer, the timer of the packet that waits, and that rows which are in
use hold an address.  Rows are found by loops over the table (`Lowest`, `Highest`, the
oldest row), which give a row of the set that is searched; that these exist is
`LeastValue`.  `NeighbourBinding` is proved from the same invariant: with one row per
address, a step that would change the MAC address must change the row of the address,
and `prvDetermineAction` keeps it as long as it is bound.

### DHCP

`IInv` has the count of the socket's users (`Counted`), the addresses that were granted
(`Granted`; also an ACK that is in the socket, has the current transaction id and was
not used yet comes from a server that has granted its address), the states that ask for
a lease and so know its server (`Served`), those that wait for an answer and so need the
socket (`Waits`), the timers (`Timed`), and the types of events, loop and history
(`TaskInv`).
`Waits` and `Timed` are conditional on what may fail, so that one induction serves all
theorems; `SocketCount` is the part of `SocketShared` that holds whatever fails.

### Only model-checked

All liveness properties (the prover has no fairness reasoning here), and everything
about `SocketEvents`: its `TypeOK` has a sum over the event queue, which is a fold, and its
other properties are liveness.  With two connections one after the other, or with
`FREERTOS_SO_CLOSE_AFTER_SEND`, the properties of `TCPConnection` are only checked.  That
`Chain`, `Reached` and the other closed forms are what the loops of the code compute is not
proved: induction over data is out of the prover's reach.

## 5. Plan

1. Prove the properties of `TCPConnection` for several connections, for ends that belong
   to the same one.
2. State "a byte stream is delivered in order, then end of stream" as an abstract
   specification and show that `TCPConnection` implements it under the assumptions of
   `ConnInvariance`, which gives what a refinement proof needs.
3. Extend the model: `FreeRTOS_select` and `FreeRTOS_accept` in `SocketEvents`; Tiny TCP;
   DNS cache and call-backs; RA and DHCPv6; the network buffer pool.

## 6. Not modelled

Parsing and building of headers, checksums, address lookup, logging, memory
allocation (apart from where its failure changes the control flow), and the network
drivers.  IPv6 counterparts of modelled IPv4 handlers follow the same control.  Most of
the lines of `source/` are drivers and vendor libraries under
`portable/NetworkInterface`, and configuration headers: they hold no protocol state,
and the share of the source that the models stand for is small for that reason.  Of
the protocol code proper, DNS, DHCPv6, RA, Tiny TCP and the buffer pool remain.
