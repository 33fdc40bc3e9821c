---------------------------- MODULE StreamBuffer ----------------------------
(***************************************************************************)
(* The circular stream buffer between a user task and the IP task          *)
(* (FreeRTOS_Stream_Buffer.c).  A TCP socket owns two: in rxStream the IP   *)
(* task is the producer and the user task the consumer, in txStream it is   *)
(* the other way around.  Neither side takes a lock for the copying, so     *)
(* uxStreamBufferAdd and uxStreamBufferGet are split into the reading of    *)
(* the counters, the copying of one byte at a time, and the final update.   *)
(*                                                                          *)
(* Data: a byte is represented by its position in the TCP stream, so that   *)
(* a byte that is lost, repeated, misplaced or overwritten is visible.      *)
(* tailPos and headPos are history variables: the stream positions of the   *)
(* bytes at uxTail and at uxHead.  ahead is the set of stream positions     *)
(* that were stored in front of uxHead (out-of-order data).                 *)
(***************************************************************************)
EXTENDS Integers, Sequences

CONSTANTS LENGTH,      \* pxBuffer->LENGTH: the size of ucArray
          MaxAdd,      \* bound: the largest uxByteCount of one call
          MaxPos,      \* bound: the stream positions that are written
          NoByte       \* content of a cell that was never written

ASSUME LengthAssumption == LENGTH \in Nat /\ LENGTH >= 2
ASSUME BoundAssumption  == MaxAdd \in Nat /\ MaxPos \in Nat
ASSUME NoByteAssumption == NoByte \notin Nat

VARIABLES
    uxTail, uxMid, uxHead, uxFront, ucArray,  \* StreamBuffer_t
    tailPos, headPos, ahead,                  \* history
    add,                                      \* locals of uxStreamBufferAdd
    get                                       \* locals of uxStreamBufferGet

buffer == <<uxTail, uxMid, uxHead, uxFront, ucArray>>
history == <<tailPos, headPos, ahead>>
vars == <<buffer, history, add, get>>

Index == 0 .. LENGTH - 1

(***************************************************************************)
(* Index arithmetic.  The C code computes in size_t; every intermediate     *)
(* value is non-negative when both indices are below LENGTH.                *)
(***************************************************************************)
Min2(a, b) == IF a < b THEN a ELSE b

Wrap(i) == IF i >= LENGTH THEN i - LENGTH ELSE i

uxStreamBufferSpace_NoGap(lower, upper) ==
    IF lower = upper THEN LENGTH ELSE Wrap(LENGTH + upper - lower)

uxStreamBufferSpace(lower, upper) == Wrap(LENGTH + upper - lower - 1)

uxStreamBufferDistance(lower, upper) == Wrap(LENGTH + upper - lower)

uxStreamBufferGetSpace == uxStreamBufferSpace(uxHead, uxTail)

uxStreamBufferFrontSpace == uxStreamBufferSpace(uxFront, uxTail)

uxStreamBufferGetSize == uxStreamBufferDistance(uxTail, uxHead)

uxStreamBufferMidSpace == uxStreamBufferDistance(uxMid, uxHead)

\* The bytes that can be read in one go, from uxTail to the end of ucArray.
uxStreamBufferGetPtr == Min2(uxStreamBufferGetSize, LENGTH - uxTail)

\* ( uxLeft - uxTail ) <= ( uxRight - uxTail ) in size_t: a negative
\* difference wraps to a value above every non-negative one.
xStreamBufferLessThenEqual(left, right) ==
    IF (left >= uxTail) = (right >= uxTail)
    THEN left <= right
    ELSE left >= uxTail

\* What is left of avail items after skipping the first offset ones.
Beyond(avail, offset) == IF avail > offset THEN avail - offset ELSE 0

\* The cell that byte i of a copy of count bytes starting at cell start uses:
\* the first uxFirst bytes go up to the end of ucArray, the others to its start.
CopyCell(start, count, i) ==
    LET first == Min2(LENGTH - start, count)
    IN  IF i < first THEN start + i ELSE i - first

-----------------------------------------------------------------------------
(***************************************************************************)
(* The producer: uxStreamBufferAdd.  add.i counts the bytes that are in     *)
(* place; the call ends when it has reached add.count.                      *)
(***************************************************************************)
NoAdd == [pc |-> "idle", offset |-> 0, count |-> 0, next |-> 0, i |-> 0]

\* The caller's contract.  With a NULL pointer the call only moves uxHead over
\* bytes that are in place already; bytes are stored ahead of uxHead only by
\* lTCPAddRxdata.
AddCall(offset, count, isNull) ==
    /\ add.pc = "idle"
    /\ count > 0
    /\ headPos + offset + count <= MaxPos
    /\ isNull => offset = 0 /\ headPos .. headPos + count - 1 \subseteq ahead

AddStart_NoOffset(offset, byteCount, isNull) ==
    LET uxCount == Min2(uxStreamBufferGetSpace, byteCount)
    IN  /\ AddCall(offset, byteCount, isNull)
        /\ uxCount # 0
        /\ add' = [pc     |-> "busy",
                   offset |-> offset,
                   count  |-> uxCount,
                   next   |-> IF offset # 0 THEN Wrap(uxHead + offset) ELSE uxHead,
                   i      |-> IF isNull THEN uxCount ELSE 0]
        /\ UNCHANGED <<buffer, history, get>>

AddStart(offset, byteCount, isNull) ==
    LET uxCount == Min2(Beyond(uxStreamBufferGetSpace, offset), byteCount)
    IN  /\ AddCall(offset, byteCount, isNull)
        /\ uxCount # 0
        /\ add' = [pc     |-> "busy",
                   offset |-> offset,
                   count  |-> uxCount,
                   next   |-> IF offset # 0 THEN Wrap(uxHead + offset) ELSE uxHead,
                   i      |-> IF isNull THEN uxCount ELSE 0]
        /\ UNCHANGED <<buffer, history, get>>

AddCopy ==
    /\ add.pc = "busy" /\ add.i < add.count
    /\ ucArray' = [ucArray EXCEPT ![CopyCell(add.next, add.count, add.i)] =
                                     headPos + add.offset + add.i]
    /\ add' = [add EXCEPT !.i = @ + 1]
    /\ UNCHANGED <<uxTail, uxMid, uxHead, uxFront, history, get>>

\* The critical section that ends uxStreamBufferAdd.
AddCommit ==
    LET next == IF add.offset = 0 THEN Wrap(add.next + add.count) ELSE add.next
    IN  /\ add.pc = "busy" /\ add.i = add.count
        /\ uxHead' = IF add.offset = 0 THEN next ELSE uxHead
        /\ uxFront' = IF xStreamBufferLessThenEqual(uxFront, next) THEN next ELSE uxFront
        /\ headPos' = IF add.offset = 0 THEN headPos + add.count ELSE headPos
        /\ ahead' = {p \in ahead \cup (headPos + add.offset ..
                                       headPos + add.offset + add.count - 1) :
                       p >= headPos'}
        /\ add' = NoAdd
        /\ UNCHANGED <<uxTail, uxMid, ucArray, tailPos, get>>

-----------------------------------------------------------------------------
(***************************************************************************)
(* The consumer: uxStreamBufferGet and uxStreamBufferGetPtr.  A call is     *)
(*   "read"  copy bytes out and remove them,                                *)
(*   "peek"  copy bytes out, possibly at an offset, and leave them,         *)
(*   "drop"  remove bytes without copying (pucData = NULL),                 *)
(*   "ptr"   look at the bytes in place (FREERTOS_ZERO_COPY).               *)
(***************************************************************************)
NoGet == [pc |-> "idle", kind |-> "none", offset |-> 0, count |-> 0, next |-> 0]

GetStart(kind, offset, maxCount) ==
    LET uxSize  == Beyond(uxStreamBufferGetSize, offset)
        uxCount == IF kind = "ptr" THEN uxStreamBufferGetPtr ELSE Min2(uxSize, maxCount)
    IN  /\ get.pc = "idle"
        /\ kind # "peek" => offset = 0
        /\ uxCount # 0
        /\ get' = [pc     |-> IF kind = "drop" THEN "commit" ELSE "copy",
                   kind   |-> kind,
                   offset |-> offset,
                   count  |-> uxCount,
                   next   |-> IF offset # 0 THEN Wrap(uxTail + offset) ELSE uxTail]
        /\ UNCHANGED <<buffer, history, add>>

\* The cell that byte i of the call under way is read from.
GetCell(i) == IF get.kind = "ptr" THEN get.next + i
                                  ELSE CopyCell(get.next, get.count, i)

\* The bytes are copied out one by one, in any interleaving with the producer;
\* GetIntact below is what the copying may rely on until it is over.
GetCopied ==
    /\ get.pc = "copy"
    /\ get' = IF get.kind = "read" THEN [get EXCEPT !.pc = "commit"] ELSE NoGet
    /\ UNCHANGED <<buffer, history, add>>

GetCommit_NoWrap ==
    /\ get.pc = "commit"
    /\ uxTail' = IF get.next + get.count > LENGTH
                 THEN get.next + get.count - LENGTH ELSE get.next + get.count
    /\ tailPos' = tailPos + get.count
    /\ get' = NoGet
    /\ UNCHANGED <<uxMid, uxHead, uxFront, ucArray, headPos, ahead, add>>

GetCommit ==
    /\ get.pc = "commit"
    /\ uxTail' = Wrap(get.next + get.count)
    /\ tailPos' = tailPos + get.count
    /\ get' = NoGet
    /\ UNCHANGED <<uxMid, uxHead, uxFront, ucArray, headPos, ahead, add>>

\* vStreamBufferMoveMid: by the consumer of txStream, no further than uxHead.
vStreamBufferMoveMid(count) ==
    /\ get.pc = "idle"
    /\ uxMid' = Wrap(uxMid + Min2(count, uxStreamBufferMidSpace))
    /\ UNCHANGED <<uxTail, uxHead, uxFront, ucArray, history, add, get>>

\* vStreamBufferClear: a socket that is re-used for the next connection.
vStreamBufferClear ==
    /\ add.pc = "idle" /\ get.pc = "idle"
    /\ uxHead' = 0 /\ uxTail' = 0 /\ uxFront' = 0 /\ uxMid' = 0
    /\ tailPos' = 0 /\ headPos' = 0 /\ ahead' = {}
    /\ UNCHANGED <<ucArray, add, get>>

-----------------------------------------------------------------------------
Init ==
    /\ uxTail = 0 /\ uxMid = 0 /\ uxHead = 0 /\ uxFront = 0
    /\ ucArray = [k \in Index |-> NoByte]
    /\ tailPos = 0 /\ headPos = 0 /\ ahead = {}
    /\ add = NoAdd /\ get = NoGet

\* The use of rxStream: lTCPAddRxdata adds, FreeRTOS_recv reads.
NextRx ==
    \/ \E offset \in 0 .. LENGTH, count \in 1 .. MaxAdd, isNull \in BOOLEAN :
          AddStart(offset, count, isNull)
    \/ AddCopy \/ AddCommit
    \/ \E kind \in {"read", "peek", "drop", "ptr"}, count \in 1 .. MaxAdd :
          GetStart(kind, 0, count)
    \/ GetCopied \/ GetCommit
    \/ vStreamBufferClear

\* The use of txStream: FreeRTOS_send adds, the IP task announces data for
\* transmission by moving uxMid (prvTCPAddTxData), peeks at announced data to
\* (re)transmit it (prvTCPPrepareSend), and drops what the peer acknowledged.
Announced == uxStreamBufferDistance(uxTail, uxMid)

NextTx ==
    \/ \E count \in 1 .. MaxAdd : AddStart(0, count, FALSE)
    \/ AddCopy \/ AddCommit
    \/ \E count \in 1 .. MaxAdd : vStreamBufferMoveMid(count)
    \/ \E offset \in 0 .. LENGTH, count \in 1 .. MaxAdd :
          offset + count <= Announced /\ GetStart("peek", offset, count)
    \/ \E count \in 1 .. MaxAdd : count <= Announced /\ GetStart("drop", 0, count)
    \/ GetCopied \/ GetCommit
    \/ vStreamBufferClear

SpecRx == Init /\ [][NextRx]_vars
SpecTx == Init /\ [][NextTx]_vars

-----------------------------------------------------------------------------
(***************************************************************************)
(* Properties.                                                              *)
(***************************************************************************)

\* The cell of the byte that is d bytes after uxTail.
CellAt(d) == Wrap(uxTail + d)

\* The state of the buffer and the locals of the two calls have their types.
TypeOK ==
    /\ uxTail \in Index /\ uxMid \in Index /\ uxHead \in Index /\ uxFront \in Index
    /\ ucArray \in [Index -> Nat \cup {NoByte}]
    /\ tailPos \in Nat /\ headPos \in Nat /\ ahead \in SUBSET Nat
    /\ add \in [pc : {"idle", "busy"}, offset : Nat, count : Nat,
                next : Index, i : Nat]
    /\ get \in [pc : {"idle", "copy", "commit"},
                kind : {"none", "read", "peek", "drop", "ptr"},
                offset : Nat, count : Nat, next : Index]

\* The bytes the consumer may read, from uxTail up to uxHead, are the bytes of
\* the stream in order, whatever the producer is doing (uxStreamBufferAdd
\* never writes over a byte that was not removed).
UnreadIntact ==
    /\ headPos - tailPos = uxStreamBufferGetSize
    /\ \A d \in 0 .. uxStreamBufferGetSize - 1 : ucArray[CellAt(d)] = tailPos + d

\* Bytes stored ahead of uxHead for an out-of-order segment stay in place, and
\* fit in the buffer, until uxHead moves over them.
AheadIntact ==
    \A p \in ahead :
        /\ headPos <= p /\ p - tailPos < LENGTH - 1
        /\ ucArray[CellAt(p - tailPos)] = p

\* From the moment uxStreamBufferGet has read the counters until it returns,
\* the cells it copies from hold the bytes that it promised.
GetIntact ==
    get.pc # "idle" =>
        \A i \in 0 .. get.count - 1 : ucArray[GetCell(i)] = tailPos + get.offset + i

\* uxFront is at or beyond uxHead, so the TCP window that is advertised from
\* uxStreamBufferFrontSpace is never larger than what can still be added.
FrontBound ==
    /\ uxStreamBufferDistance(uxTail, uxHead) <= uxStreamBufferDistance(uxTail, uxFront)
    /\ uxStreamBufferFrontSpace <= uxStreamBufferGetSpace

\* txStream only: uxTail <= uxMid <= uxHead, so what is announced to the
\* sliding window is exactly what is still stored and not yet acknowledged.
MidBetween ==
    uxStreamBufferDistance(uxTail, uxMid) + uxStreamBufferMidSpace = uxStreamBufferGetSize

\* The buffer implements a bounded queue of the bytes of the stream.
Stream == INSTANCE ByteStream WITH
    Capacity <- LENGTH - 1,
    queue    <- [d \in 1 .. uxStreamBufferGetSize |-> ucArray[CellAt(d - 1)]],
    next     <- headPos

RefinesByteStream == Stream!Spec
=============================================================================
