------------------------- MODULE StreamBufferProofs -------------------------
(***************************************************************************)
(* Proofs about the stream buffer, for every LENGTH and every bound.        *)
(*                                                                          *)
(* The properties are not inductive as they stand: what the producer has    *)
(* copied so far is not part of the readable bytes yet, and the consumer    *)
(* works with indices it has read before.  AddInv and GetInv say what the   *)
(* locals of a call that is under way still mean, whatever the other side   *)
(* has done since they were read.                                           *)
(***************************************************************************)
EXTENDS StreamBuffer, TLAPS

\* The byte at stream position p is stored in its cell of array, when uxTail
\* is t and the byte at uxTail has position tpos.
HoldsIn(array, t, tpos, p) == array[Wrap(t + (p - tpos))] = p

Holds(p) == HoldsIn(ucArray, uxTail, tailPos, p)

\* A call of uxStreamBufferAdd under way: the cells it is filling are free,
\* because the consumer can only make the free space larger.
AddInv ==
    add.pc # "idle" =>
        /\ add.count >= 1
        /\ add.offset + add.count <= uxStreamBufferGetSpace
        /\ add.next = Wrap(uxHead + add.offset)
        /\ add.i <= add.count
        /\ \A j \in 0 .. add.i - 1 : Holds(headPos + add.offset + j)

\* A call of uxStreamBufferGet under way: the bytes it is reading are still
\* there, because the producer can only add bytes.
GetInv ==
    get.pc # "idle" =>
        /\ get.count >= 1
        /\ get.offset + get.count <= uxStreamBufferGetSize
        /\ get.next = Wrap(uxTail + get.offset)
        /\ get.pc = "commit" => get.offset = 0
        /\ get.kind = "ptr" => get.next + get.count <= LENGTH
        /\ get.kind # "peek" => get.offset = 0

Unread ==
    /\ headPos - tailPos = uxStreamBufferGetSize
    /\ \A p \in Nat : tailPos <= p /\ p < headPos => Holds(p)

Ahead == \A p \in ahead : headPos <= p /\ p - tailPos < LENGTH - 1 /\ Holds(p)

Front == uxStreamBufferDistance(uxTail, uxHead) <= uxStreamBufferDistance(uxTail, uxFront)

IInv == TypeOK /\ Unread /\ Ahead /\ Front /\ AddInv /\ GetInv

-----------------------------------------------------------------------------
(***************************************************************************)
(* Index arithmetic.                                                        *)
(***************************************************************************)

\* Wrapping an index once brings it back into ucArray.
LEMMA WrapIndex ==
    ASSUME NEW k \in 0 .. 2 * LENGTH - 1
    PROVE  Wrap(k) \in Index
BY LengthAssumption DEF Wrap, Index

\* The two memcpy calls of one copy fill consecutive cells of the circle.
LEMMA CopyCellIsWrap ==
    ASSUME NEW s \in Index, NEW c \in 1 .. LENGTH, NEW i \in 0 .. c - 1
    PROVE  CopyCell(s, c, i) = Wrap(s + i)
BY LengthAssumption DEF CopyCell, Min2, Wrap, Index

\* Different distances from the same index are different cells.
LEMMA CellsDistinct ==
    ASSUME NEW t \in Index, NEW d \in Index, NEW e \in Index, d # e
    PROVE  Wrap(t + d) # Wrap(t + e)
BY LengthAssumption DEF Wrap, Index

\* A distance can be covered in two parts.
LEMMA WrapTwice ==
    ASSUME NEW t \in Index, NEW c \in Index, NEW d \in Nat, c + d < LENGTH
    PROVE  Wrap(Wrap(t + c) + d) = Wrap(t + (c + d))
BY LengthAssumption DEF Wrap, Index

\* The readable bytes and the free space add up to LENGTH - 1, and uxHead is
\* found at the distance of the readable bytes from uxTail.
LEMMA SizeAndSpace ==
    ASSUME NEW t \in Index, NEW h \in Index
    PROVE  /\ uxStreamBufferDistance(t, h) \in Index
           /\ uxStreamBufferSpace(h, t) = LENGTH - 1 - uxStreamBufferDistance(t, h)
           /\ Wrap(t + uxStreamBufferDistance(t, h)) = h
BY LengthAssumption DEF uxStreamBufferDistance, uxStreamBufferSpace, Wrap, Index

\* The distance to the cell at distance d is d.
LEMMA DistanceOfCell ==
    ASSUME NEW t \in Index, NEW d \in Index
    PROVE  uxStreamBufferDistance(t, Wrap(t + d)) = d
BY LengthAssumption DEF uxStreamBufferDistance, Wrap, Index

\* When the first index moves forward, a distance becomes that much shorter.
LEMMA DistanceShrinks ==
    ASSUME NEW t \in Index, NEW h \in Index, NEW c \in Nat,
           c <= uxStreamBufferDistance(t, h)
    PROVE  uxStreamBufferDistance(Wrap(t + c), h) = uxStreamBufferDistance(t, h) - c
BY LengthAssumption DEF uxStreamBufferDistance, Wrap, Index

\* The comparison of two indices is a comparison of their distances.
LEMMA LessThenEqualIsDistance ==
    ASSUME uxTail \in Index, NEW l \in Index, NEW r \in Index
    PROVE  xStreamBufferLessThenEqual(l, r)
             <=> uxStreamBufferDistance(uxTail, l) <= uxStreamBufferDistance(uxTail, r)
BY LengthAssumption DEF xStreamBufferLessThenEqual, uxStreamBufferDistance, Wrap, Index

-----------------------------------------------------------------------------
(***************************************************************************)
(* What the invariant says of the state, in terms of distances from uxTail. *)
(***************************************************************************)
Size == uxStreamBufferGetSize

\* The sizes and positions that the invariant fixes.
LEMMA StateFacts ==
    ASSUME IInv
    PROVE  /\ uxTail \in Index /\ uxHead \in Index /\ Size \in Index
           /\ uxStreamBufferGetSpace = LENGTH - 1 - Size
           /\ uxHead = Wrap(uxTail + Size)
           /\ headPos = tailPos + Size /\ tailPos \in Nat /\ headPos \in Nat
<1>1. uxTail \in Index /\ uxHead \in Index /\ tailPos \in Nat /\ headPos \in Nat
      BY DEF IInv, TypeOK
<1>2. headPos - tailPos = Size
      BY DEF IInv, Unread, Size
<1>3. Size \in Index /\ uxStreamBufferGetSpace = LENGTH - 1 - Size /\ Wrap(uxTail + Size) = uxHead
      BY <1>1, SizeAndSpace DEF Size, uxStreamBufferGetSize, uxStreamBufferGetSpace
<1>4. headPos = tailPos + Size
      BY <1>1, <1>2, <1>3, LengthAssumption DEF Index
<1> QED BY <1>1, <1>3, <1>4

\* uxStreamBufferAdd reads the counters.
LEMMA AddStartStep ==
    ASSUME IInv, NEW offset \in 0 .. LENGTH, NEW count \in 1 .. MaxAdd,
           NEW isNull \in BOOLEAN, AddStart(offset, count, isNull)
    PROVE  IInv'
<1> DEFINE n == Min2(Beyond(uxStreamBufferGetSpace, offset), count)
<1> USE LengthAssumption, BoundAssumption
<1>1. UNCHANGED <<buffer, history, get>>
      BY DEF AddStart
<1>2. UNCHANGED <<uxTail, uxMid, uxHead, uxFront, ucArray, tailPos, headPos, ahead, get>>
      BY <1>1 DEF buffer, history
<1>3. /\ uxTail \in Index /\ uxHead \in Index /\ Size \in Index
      /\ uxStreamBufferGetSpace = LENGTH - 1 - Size
      /\ headPos \in Nat /\ tailPos \in Nat
      BY StateFacts
<1>4. n \in Nat /\ n >= 1 /\ n <= count /\ offset + n <= uxStreamBufferGetSpace
      BY <1>3 DEF AddStart, Min2, Beyond, Index
<1>5. (IF offset # 0 THEN Wrap(uxHead + offset) ELSE uxHead) = Wrap(uxHead + offset)
      BY <1>3 DEF Wrap, Index
<1>6. Wrap(uxHead + offset) \in Index
      BY <1>3, <1>4 DEF Wrap, Index
<1>7. add' = [pc |-> "busy", offset |-> offset, count |-> n,
              next |-> Wrap(uxHead + offset), i |-> IF isNull THEN n ELSE 0]
      BY <1>5 DEF AddStart
<1>8. TypeOK'
      BY <1>2, <1>4, <1>6, <1>7 DEF IInv, TypeOK
<1>9. AddInv'
  <2>1. /\ add'.count >= 1 /\ add'.offset + add'.count <= uxStreamBufferGetSpace'
        /\ add'.next = Wrap(uxHead' + add'.offset)
        /\ add'.i <= add'.count
        BY <1>2, <1>4, <1>7 DEF uxStreamBufferGetSpace
  <2>2. ASSUME NEW j \in 0 .. add'.i - 1
        PROVE  HoldsIn(ucArray', uxTail', tailPos', headPos' + add'.offset + j)
    <3>1. isNull /\ j < n /\ j \in Nat /\ add'.offset = offset
          BY <1>4, <1>7
    <3>2. offset = 0 /\ headPos + j \in ahead
          BY <3>1, <1>3, <1>4 DEF AddStart, AddCall
    <3>3. Holds(headPos + j)
          BY <3>2 DEF IInv, Ahead
    <3> QED BY <3>1, <3>2, <3>3, <1>2, <1>3 DEF Holds
  <2> QED BY <2>1, <2>2 DEF AddInv, Holds
<1>10. Unread'
       BY <1>2 DEF IInv, Unread, Holds, uxStreamBufferGetSize
<1>11. Ahead'
       BY <1>2 DEF IInv, Ahead, Holds
<1>12. Front' /\ GetInv'
       BY <1>2 DEF IInv, Front, GetInv, uxStreamBufferGetSize
<1> QED BY <1>8, <1>9, <1>10, <1>11, <1>12 DEF IInv

\* uxStreamBufferAdd copies a byte, into a cell that holds no byte of the stream
\* or, for data that arrives again ahead of uxHead, that same byte.
LEMMA AddCopyStep ==
    ASSUME IInv, AddCopy
    PROVE  IInv'
<1> DEFINE e == Size + add.offset + add.i
           q == headPos + add.offset + add.i
           HoldsNext(p) == HoldsIn(ucArray', uxTail', tailPos', p)
<1> USE LengthAssumption
<1>1. UNCHANGED <<uxTail, uxMid, uxHead, uxFront, tailPos, headPos, ahead, get>>
      BY DEF AddCopy, history
<1>2. /\ uxTail \in Index /\ uxHead \in Index /\ Size \in Index
      /\ uxStreamBufferGetSpace = LENGTH - 1 - Size
      /\ uxHead = Wrap(uxTail + Size) /\ headPos = tailPos + Size
      /\ headPos \in Nat /\ tailPos \in Nat
      BY StateFacts
<1>3. /\ add.pc = "busy" /\ add.i < add.count /\ add.offset \in Nat /\ add.count \in Nat /\ add.i \in Nat
      /\ add.next \in Index
      BY DEF AddCopy, IInv, TypeOK
<1>4. /\ add.offset + add.count <= LENGTH - 1 - Size
      /\ add.next = Wrap(uxHead + add.offset)
      BY <1>2, <1>3 DEF IInv, AddInv
<1>5. e \in Index /\ e < LENGTH - 1 /\ q = tailPos + e /\ q \in Nat
      BY <1>2, <1>3, <1>4 DEF Index
<1>6. CopyCell(add.next, add.count, add.i) = Wrap(uxTail + e)
  <2>1. CopyCell(add.next, add.count, add.i) = Wrap(add.next + add.i)
        BY <1>2, <1>3, <1>4, CopyCellIsWrap DEF Index
  <2>2. Size + add.offset \in Index /\ (Size + add.offset) + add.i < LENGTH
        BY <1>2, <1>3, <1>4 DEF Index
  <2>3. Wrap(uxHead + add.offset) = Wrap(uxTail + (Size + add.offset))
    <3>1. Size + add.offset < LENGTH
          BY <2>2 DEF Index
    <3> QED BY <3>1, <1>2, <1>3, WrapTwice
  <2>4. Wrap(Wrap(uxTail + (Size + add.offset)) + add.i) = Wrap(uxTail + e)
        BY <2>2, <1>2, <1>3, WrapTwice
  <2> QED BY <2>1, <2>3, <2>4, <1>4
<1>7. Wrap(uxTail + e) \in Index
      BY <1>2, <1>5, WrapIndex DEF Index
<1>8. ucArray' = [ucArray EXCEPT ![Wrap(uxTail + e)] = q]
      BY <1>6 DEF AddCopy
<1>9. ucArray \in [Index -> Nat \cup {NoByte}]
      BY DEF IInv, TypeOK
<1>10. HoldsNext(q)
       BY <1>1, <1>2, <1>5, <1>7, <1>8, <1>9 DEF HoldsIn, Index
<1>11. ASSUME NEW p \in Nat, tailPos <= p, p - tailPos < LENGTH, Holds(p)
       PROVE  HoldsNext(p)
  <2>1. CASE p = q
        BY <2>1, <1>10
  <2>2. CASE p # q
    <3>1. p - tailPos \in Index /\ p - tailPos # e
          BY <2>2, <1>11, <1>2, <1>5 DEF Index
    <3>2. Wrap(uxTail + (p - tailPos)) # Wrap(uxTail + e)
          BY <3>1, <1>2, <1>5, CellsDistinct
    <3>3. Wrap(uxTail + (p - tailPos)) \in Index
          BY <3>1, <1>2, WrapIndex DEF Index
    <3> QED BY <3>2, <3>3, <1>1, <1>7, <1>8, <1>9, <1>11 DEF Holds, HoldsIn
  <2> QED BY <2>1, <2>2
<1>12. add' = [add EXCEPT !.i = @ + 1]
       BY DEF AddCopy
<1>13. /\ add'.count = add.count /\ add'.offset = add.offset /\ add'.next = add.next
       /\ add'.i = add.i + 1 /\ add'.pc = add.pc
       BY <1>12 DEF IInv, TypeOK
<1>14. TypeOK'
  <2>1. ucArray' \in [Index -> Nat \cup {NoByte}]
        BY <1>5, <1>7, <1>8, <1>9
  <2>2. add' \in [pc : {"idle", "busy"}, offset : Nat, count : Nat,
                  next : Index, i : Nat]
        BY <1>3, <1>12 DEF IInv, TypeOK
  <2> QED BY <2>1, <2>2, <1>1 DEF IInv, TypeOK
<1>15. Unread'
  <2>1. (headPos - tailPos = uxStreamBufferGetSize)'
        BY <1>1 DEF IInv, Unread, uxStreamBufferGetSize
  <2>2. ASSUME NEW p \in Nat, tailPos <= p, p < headPos PROVE HoldsNext(p)
        BY <2>2, <1>2, <1>11 DEF IInv, Unread, Index
  <2> QED BY <2>1, <2>2, <1>1 DEF Unread, Holds
<1>16. Ahead'
  <2>1. ASSUME NEW p \in ahead
        PROVE  headPos <= p /\ p - tailPos < LENGTH - 1 /\ HoldsNext(p)
    <3>1. p \in Nat /\ headPos <= p /\ p - tailPos < LENGTH - 1 /\ Holds(p)
          BY DEF IInv, TypeOK, Ahead
    <3> QED BY <3>1, <1>2, <1>11 DEF Index
  <2> QED BY <2>1, <1>1 DEF Ahead, Holds
<1>17. AddInv'
  <2>2. ASSUME NEW j \in 0 .. add.i PROVE HoldsNext(headPos + add.offset + j)
    <3>1. CASE j = add.i
          BY <3>1, <1>10
    <3>2. CASE j # add.i
      <4> DEFINE p == headPos + add.offset + j
      <4>1. Holds(p)
            BY <3>2, <1>3 DEF IInv, AddInv
      <4>2. p \in Nat /\ tailPos <= p /\ p - tailPos < LENGTH
            BY <1>2, <1>3, <1>4 DEF Index
      <4>3. HoldsNext(p)
        <5> HIDE DEF p
        <5> QED BY <4>1, <4>2, <1>11
      <4> QED BY <4>3
    <3> QED BY <3>1, <3>2
  <2>3. uxStreamBufferGetSpace' = uxStreamBufferGetSpace
        BY <1>1 DEF uxStreamBufferGetSpace
  <2>4. \A j \in 0 .. add'.i - 1 : HoldsNext(headPos' + add'.offset + j)
        BY <2>2, <1>1, <1>3, <1>13
  <2> QED BY <2>3, <2>4, <1>1, <1>2, <1>3, <1>4, <1>13 DEF AddInv, Holds
<1>18. Front' /\ GetInv'
       BY <1>1 DEF IInv, Front, GetInv, uxStreamBufferGetSize
<1> QED BY <1>14, <1>15, <1>16, <1>17, <1>18 DEF IInv

\* uxStreamBufferAdd updates uxHead and uxFront.
LEMMA AddCommitStep ==
    ASSUME IInv, AddCommit
    PROVE  IInv'
<1> DEFINE next == IF add.offset = 0 THEN Wrap(add.next + add.count) ELSE add.next
           first == headPos + add.offset
           past == IF add.offset = 0 THEN add.count ELSE add.offset
<1> USE LengthAssumption
<1>1. UNCHANGED <<uxTail, uxMid, ucArray, tailPos, get>> /\ add' = NoAdd
      BY DEF AddCommit
<1>2. /\ uxTail \in Index /\ uxHead \in Index /\ Size \in Index
      /\ uxStreamBufferGetSpace = LENGTH - 1 - Size
      /\ uxHead = Wrap(uxTail + Size) /\ headPos = tailPos + Size
      /\ headPos \in Nat /\ tailPos \in Nat
      BY StateFacts
<1>3. /\ add.pc = "busy" /\ add.i = add.count /\ add.offset \in Nat /\ add.count \in Nat
      /\ add.next \in Index /\ uxFront \in Index
      BY DEF AddCommit, IInv, TypeOK
<1>4. /\ add.count >= 1 /\ add.offset + add.count <= LENGTH - 1 - Size
      /\ add.next = Wrap(uxHead + add.offset)
      /\ \A j \in 0 .. add.count - 1 : Holds(first + j)
      BY <1>2, <1>3 DEF IInv, AddInv
<1>5. past \in Nat /\ Size + past \in Index /\ next = Wrap(uxTail + (Size + past))
  <2>1. past \in Nat /\ Size + past \in Index
        BY <1>2, <1>3, <1>4 DEF Index
  <2>2. next = Wrap(uxHead + past)
        BY <1>2, <1>3, <1>4 DEF Wrap, Index
  <2>3. Wrap(Wrap(uxTail + Size) + past) = Wrap(uxTail + (Size + past))
    <3>1. Size + past < LENGTH
          BY <2>1 DEF Index
    <3> HIDE DEF past
    <3> QED BY <3>1, <2>1, <1>2, WrapTwice
  <2> QED BY <2>1, <2>2, <2>3, <1>2
<1>6. next \in Index /\ uxStreamBufferDistance(uxTail, next) = Size + past
  <2> HIDE DEF next, past
  <2>1. uxStreamBufferDistance(uxTail, next) = Size + past
        BY <1>2, <1>5, DistanceOfCell
  <2>2. next \in Index
        BY <1>2, <1>5, WrapIndex DEF Index
  <2> QED BY <2>1, <2>2
<1>7. /\ uxHead' = IF add.offset = 0 THEN next ELSE uxHead
      /\ uxFront' = IF xStreamBufferLessThenEqual(uxFront, next) THEN next ELSE uxFront
      /\ headPos' = IF add.offset = 0 THEN headPos + add.count ELSE headPos
      /\ ahead' = {p \in ahead \cup (first .. first + add.count - 1) : p >= headPos'}
      BY DEF AddCommit
<1>8. uxStreamBufferGetSize' = headPos' - tailPos /\ Size <= headPos' - tailPos
  <2>1. uxStreamBufferDistance(uxTail, uxHead) = Size
        BY DEF Size, uxStreamBufferGetSize
  <2> QED BY <2>1, <1>1, <1>2, <1>3, <1>6, <1>7 DEF uxStreamBufferGetSize, Index
<1>9. TypeOK'
  <2>1. headPos' \in Nat /\ uxHead' \in Index /\ uxFront' \in Index
        BY <1>2, <1>3, <1>6, <1>7
  <2>2. ahead' \in SUBSET Nat
    <3>1. ahead \subseteq Nat
          BY DEF IInv, TypeOK
    <3>2. first .. first + add.count - 1 \subseteq Nat
          BY <1>2, <1>3
    <3> QED BY <3>1, <3>2, <1>7
  <2>3. NoAdd \in [pc : {"idle", "busy"}, offset : Nat, count : Nat, next : Index, i : Nat]
        BY DEF NoAdd, Index
  <2> QED BY <2>1, <2>2, <2>3, <1>1 DEF IInv, TypeOK
<1>10. Unread'
  <2>1. ASSUME NEW p \in Nat, tailPos <= p, p < headPos' PROVE Holds(p)
    <3>1. CASE p < headPos
          BY <3>1, <2>1 DEF IInv, Unread
    <3>2. CASE p >= headPos
      <4>1. p - headPos \in 0 .. add.count - 1 /\ first + (p - headPos) = p
            BY <3>2, <2>1, <1>2, <1>3, <1>7
      <4> QED BY <4>1, <1>4
    <3> QED BY <3>1, <3>2, <1>2
  <2>2. headPos' - tailPos' = uxStreamBufferGetSize'
        BY <1>1, <1>8
  <2> QED BY <2>1, <2>2, <1>1 DEF Unread, Holds
<1>11. Ahead'
  <2>1. ASSUME NEW p \in ahead' PROVE headPos' <= p /\ p - tailPos < LENGTH - 1 /\ Holds(p)
    <3>1. p >= headPos'
          BY <1>7
    <3>2. CASE p \in ahead
          BY <3>1, <3>2, <1>2, <1>3, <1>7 DEF IInv, TypeOK, Ahead
    <3>3. CASE p \in first .. first + add.count - 1
      <4>1. p - first \in 0 .. add.count - 1 /\ first + (p - first) = p
            BY <3>3, <1>2, <1>3
      <4>2. p - tailPos < LENGTH - 1
            BY <3>3, <1>2, <1>3, <1>4 DEF Index
      <4> QED BY <4>1, <4>2, <3>1, <1>2, <1>3, <1>4, <1>7
    <3> QED BY <3>2, <3>3, <1>7
  <2> QED BY <2>1, <1>1 DEF Ahead, Holds
<1>12. Front'
  <2>1. /\ uxStreamBufferDistance(uxTail, uxHead) = Size
        /\ Size <= uxStreamBufferDistance(uxTail, uxFront)
        BY DEF Size, uxStreamBufferGetSize, IInv, Front
  <2>2. xStreamBufferLessThenEqual(uxFront, next)
          <=> uxStreamBufferDistance(uxTail, uxFront) <= uxStreamBufferDistance(uxTail, next)
        BY <1>2, <1>3, <1>6, LessThenEqualIsDistance
  <2>3. uxStreamBufferDistance(uxTail, uxFront) \in Int
        BY <1>2, <1>3, SizeAndSpace DEF Index
  <2> HIDE DEF next, past
  <2>4. uxStreamBufferDistance(uxTail, uxHead') <= uxStreamBufferDistance(uxTail, uxFront')
        BY <2>1, <2>2, <2>3, <1>2, <1>5, <1>6, <1>7 DEF Index
  <2> QED BY <2>4, <1>1 DEF Front
<1>13. AddInv'
       BY <1>1 DEF AddInv, NoAdd
<1>14. GetInv'
  <2>1. Size = uxStreamBufferGetSize /\ uxStreamBufferGetSize' \in Int /\ Size <= uxStreamBufferGetSize'
        BY <1>2, <1>3, <1>7, <1>8 DEF Size
  <2>2. get \in [pc : {"idle", "copy", "commit"}, kind : {"none", "read", "peek", "drop", "ptr"},
                 offset : Nat, count : Nat, next : Index]
        BY DEF IInv, TypeOK
  <2> QED BY <2>1, <2>2, <1>1, <1>2 DEF IInv, GetInv, Index
<1> QED BY <1>9, <1>10, <1>11, <1>12, <1>13, <1>14 DEF IInv

\* uxStreamBufferGet (or uxStreamBufferGetPtr) reads the counters.
LEMMA GetStartStep ==
    ASSUME IInv, NEW kind \in {"read", "peek", "drop", "ptr"}, NEW offset \in Nat,
           NEW maxCount \in 1 .. MaxAdd, GetStart(kind, offset, maxCount)
    PROVE  IInv'
<1> DEFINE n == IF kind = "ptr" THEN uxStreamBufferGetPtr
                                ELSE Min2(Beyond(uxStreamBufferGetSize, offset), maxCount)
<1> USE LengthAssumption, BoundAssumption
<1>1. UNCHANGED <<uxTail, uxMid, uxHead, uxFront, ucArray, tailPos, headPos, ahead, add>>
      BY DEF GetStart, buffer, history
<1>2. uxTail \in Index /\ uxHead \in Index /\ Size \in Index /\ Size = uxStreamBufferGetSize
      BY StateFacts DEF Size
<1>3. kind # "peek" => offset = 0
      BY DEF GetStart
<1>4. /\ n \in Nat /\ n >= 1 /\ offset + n <= uxStreamBufferGetSize
      /\ kind = "ptr" => uxTail + n <= LENGTH
      BY <1>2, <1>3 DEF GetStart, Min2, Beyond, uxStreamBufferGetPtr, Index
<1>5. Wrap(uxTail + offset) \in Index /\ (offset = 0 => Wrap(uxTail + offset) = uxTail)
      BY <1>2, <1>4 DEF Wrap, Index
<1>6. get' = [pc |-> IF kind = "drop" THEN "commit" ELSE "copy", kind |-> kind,
              offset |-> offset, count |-> n, next |-> Wrap(uxTail + offset)]
      BY <1>5 DEF GetStart
<1>7. TypeOK'
      BY <1>1, <1>4, <1>5, <1>6 DEF IInv, TypeOK
<1>8. GetInv'
      BY <1>1, <1>3, <1>4, <1>5, <1>6 DEF GetInv, uxStreamBufferGetSize
<1>9. Unread' /\ Ahead' /\ Front'
      BY <1>1 DEF IInv, Unread, Ahead, Front, Holds, uxStreamBufferGetSize
<1>10. AddInv'
       BY <1>1 DEF IInv, AddInv, Holds, uxStreamBufferGetSpace
<1> QED BY <1>7, <1>8, <1>9, <1>10 DEF IInv

\* The record of a call of uxStreamBufferGet that is not under way has its type.
LEMMA NoGetType ==
    NoGet \in [pc : {"idle", "copy", "commit"}, kind : {"none", "read", "peek", "drop", "ptr"},
               offset : Nat, count : Nat, next : Index]
BY LengthAssumption DEF NoGet, Index

\* uxStreamBufferGet has copied its bytes out.
LEMMA GetCopiedStep ==
    ASSUME IInv, GetCopied
    PROVE  IInv'
<1>1. UNCHANGED <<uxTail, uxMid, uxHead, uxFront, ucArray, tailPos, headPos, ahead, add>>
      BY DEF GetCopied, buffer, history
<1>2. get.pc = "copy" /\ get' = IF get.kind = "read" THEN [get EXCEPT !.pc = "commit"] ELSE NoGet
      BY DEF GetCopied
<1>3. get \in [pc : {"idle", "copy", "commit"}, kind : {"none", "read", "peek", "drop", "ptr"},
               offset : Nat, count : Nat, next : Index]
      BY DEF IInv, TypeOK
<1>4. TypeOK'
  <2>1. get' \in [pc : {"idle", "copy", "commit"}, kind : {"none", "read", "peek", "drop", "ptr"},
                  offset : Nat, count : Nat, next : Index]
        BY <1>2, <1>3, NoGetType
  <2>2. UNCHANGED Index
        BY DEF Index
  <2> QED BY <2>1, <2>2, <1>1 DEF IInv, TypeOK
<1>5. GetInv'
  <2>1. CASE get.kind = "read"
    <3>1. /\ get'.pc = "commit" /\ get'.kind = get.kind /\ get'.count = get.count
          /\ get'.offset = get.offset /\ get'.next = get.next
          BY <2>1, <1>2, <1>3
    <3> QED BY <3>1, <2>1, <1>1, <1>2 DEF IInv, GetInv, uxStreamBufferGetSize
  <2>2. CASE get.kind # "read"
        BY <2>2, <1>2 DEF GetInv, NoGet
  <2> QED BY <2>1, <2>2
<1>6. Unread' /\ Ahead' /\ Front'
      BY <1>1 DEF IInv, Unread, Ahead, Front, Holds, uxStreamBufferGetSize
<1>7. AddInv'
      BY <1>1 DEF IInv, AddInv, Holds, uxStreamBufferGetSpace
<1> QED BY <1>4, <1>5, <1>6, <1>7 DEF IInv

\* uxStreamBufferGet advances uxTail: every byte beyond it keeps its cell.
LEMMA GetCommitStep ==
    ASSUME IInv, GetCommit
    PROVE  IInv'
<1> DEFINE c == get.count
           HoldsNext(p) == HoldsIn(ucArray', uxTail', tailPos', p)
<1> USE LengthAssumption
<1>1. /\ UNCHANGED <<uxMid, uxHead, uxFront, ucArray, headPos, ahead, add>>
      /\ get' = NoGet /\ tailPos' = tailPos + c /\ uxTail' = Wrap(get.next + c)
      BY DEF GetCommit
<1>2. /\ uxTail \in Index /\ uxHead \in Index /\ Size \in Index
      /\ uxStreamBufferGetSpace = LENGTH - 1 - Size
      /\ headPos = tailPos + Size /\ headPos \in Nat /\ tailPos \in Nat
      BY StateFacts
<1>3. c \in Nat /\ c >= 1 /\ c <= Size /\ get.next = uxTail
      BY <1>2 DEF GetCommit, IInv, TypeOK, GetInv, Size, Wrap, Index
<1>4. c \in Index /\ uxTail' = Wrap(uxTail + c) /\ uxTail' \in Index
  <2>1. c \in Index /\ uxTail' = Wrap(uxTail + c)
        BY <1>1, <1>2, <1>3 DEF Index
  <2>2. Wrap(uxTail + c) \in Index
        BY <2>1, <1>2, WrapIndex DEF Index
  <2> QED BY <2>1, <2>2
<1>5. uxStreamBufferGetSize' = Size - c
      BY <1>1, <1>2, <1>3, <1>4, DistanceShrinks DEF Size, uxStreamBufferGetSize
<1>6. uxStreamBufferGetSpace' = LENGTH - 1 - (Size - c)
  <2>1. uxStreamBufferSpace(uxHead', uxTail') = LENGTH - 1 - uxStreamBufferDistance(uxTail', uxHead')
        BY <1>1, <1>2, <1>4, SizeAndSpace
  <2> QED BY <2>1, <1>5 DEF uxStreamBufferGetSpace, uxStreamBufferGetSize
<1>7. ASSUME NEW p \in Nat, tailPos + c <= p, p - tailPos < LENGTH, Holds(p)
      PROVE  HoldsNext(p)
  <2>1. p - (tailPos + c) \in Nat /\ c + (p - (tailPos + c)) < LENGTH
        /\ c + (p - (tailPos + c)) = p - tailPos
        BY <1>7, <1>2, <1>3
  <2>2. Wrap(Wrap(uxTail + c) + (p - (tailPos + c))) = Wrap(uxTail + (c + (p - (tailPos + c))))
        BY <2>1, <1>2, <1>4, WrapTwice
  <2> QED BY <2>1, <2>2, <1>1, <1>4, <1>7 DEF Holds, HoldsIn
<1>8. TypeOK'
  <2>1. get' \in [pc : {"idle", "copy", "commit"}, kind : {"none", "read", "peek", "drop", "ptr"},
                  offset : Nat, count : Nat, next : Index]
        BY <1>1, NoGetType
  <2>2. tailPos' \in Nat
        BY <1>1, <1>2, <1>3
  <2> QED BY <2>1, <2>2, <1>1, <1>4 DEF IInv, TypeOK
<1>9. Unread'
  <2>1. ASSUME NEW p \in Nat, tailPos' <= p, p < headPos' PROVE HoldsNext(p)
        BY <2>1, <1>1, <1>2, <1>3, <1>7 DEF IInv, Unread, Index
  <2>2. headPos' - tailPos' = uxStreamBufferGetSize'
        BY <1>1, <1>2, <1>3, <1>5 DEF Index
  <2> QED BY <2>1, <2>2 DEF Unread, Holds
<1>10. Ahead'
  <2>1. ASSUME NEW p \in ahead
        PROVE  headPos <= p /\ p - tailPos' < LENGTH - 1 /\ HoldsNext(p)
    <3>1. p \in Nat /\ headPos <= p /\ p - tailPos < LENGTH - 1 /\ Holds(p)
          BY DEF IInv, TypeOK, Ahead
    <3>2. tailPos + c <= p /\ p - tailPos < LENGTH /\ p - tailPos' < LENGTH - 1
          BY <3>1, <1>1, <1>2, <1>3 DEF Index
    <3> QED BY <3>1, <3>2, <1>7
  <2> QED BY <2>1, <1>1 DEF Ahead, Holds
<1>11. Front'
  <2>1. uxFront \in Index /\ Size <= uxStreamBufferDistance(uxTail, uxFront)
        BY DEF IInv, TypeOK, Front, Size, uxStreamBufferGetSize
  <2>2. uxStreamBufferDistance(uxTail, uxFront) \in Index
        BY <2>1, <1>2, SizeAndSpace
  <2>3. c <= uxStreamBufferDistance(uxTail, uxFront)
        BY <2>1, <2>2, <1>2, <1>3 DEF Index
  <2>4. uxStreamBufferDistance(Wrap(uxTail + c), uxFront) = uxStreamBufferDistance(uxTail, uxFront) - c
        BY <2>1, <2>3, <1>2, <1>3, DistanceShrinks
  <2> QED BY <2>1, <2>2, <2>4, <1>1, <1>2, <1>3, <1>4, <1>5 DEF Front, uxStreamBufferGetSize, Index
<1>12. AddInv'
  <2>1. CASE add.pc = "idle"
        BY <2>1, <1>1 DEF AddInv
  <2>2. CASE add.pc # "idle"
    <3>1. /\ add.offset \in Nat /\ add.count \in Nat /\ add.i \in Nat /\ add.count >= 1
          /\ add.offset + add.count <= LENGTH - 1 - Size
          /\ add.next = Wrap(uxHead + add.offset) /\ add.i <= add.count
          /\ \A j \in 0 .. add.i - 1 : Holds(headPos + add.offset + j)
          BY <2>2, <1>2 DEF IInv, TypeOK, AddInv
    <3>2. add.offset + add.count <= uxStreamBufferGetSpace'
          BY <3>1, <1>2, <1>3, <1>6 DEF Index
    <3>3. ASSUME NEW j \in 0 .. add.i - 1 PROVE HoldsNext(headPos + add.offset + j)
      <4> DEFINE p == headPos + add.offset + j
      <4>1. p \in Nat /\ tailPos + c <= p /\ p - tailPos < LENGTH /\ Holds(p)
            BY <3>1, <1>2, <1>3 DEF Index
      <4>2. HoldsNext(p)
        <5> HIDE DEF p
        <5> QED BY <4>1, <1>7
      <4> QED BY <4>2
    <3> QED BY <3>1, <3>2, <3>3, <1>1 DEF AddInv, Holds
  <2> QED BY <2>1, <2>2
<1>13. GetInv'
       BY <1>1 DEF GetInv, NoGet
<1> QED BY <1>8, <1>9, <1>10, <1>11, <1>12, <1>13 DEF IInv

\* vStreamBufferMoveMid touches uxMid only.
LEMMA MoveMidStep ==
    ASSUME IInv, NEW count \in 1 .. MaxAdd, vStreamBufferMoveMid(count)
    PROVE  IInv'
<1> USE LengthAssumption, BoundAssumption
<1>1. UNCHANGED <<uxTail, uxHead, uxFront, ucArray, tailPos, headPos, ahead, add, get>>
      BY DEF vStreamBufferMoveMid, history
<1>2. uxMid \in Index /\ uxHead \in Index /\ uxStreamBufferMidSpace \in Index
      BY SizeAndSpace DEF IInv, TypeOK, uxStreamBufferMidSpace
<1>3. uxMid' \in Index
      BY <1>2 DEF vStreamBufferMoveMid, Min2, Wrap, Index
<1>4. TypeOK'
      BY <1>1, <1>3 DEF IInv, TypeOK
<1>5. Unread' /\ Ahead' /\ Front'
      BY <1>1 DEF IInv, Unread, Ahead, Front, Holds, uxStreamBufferGetSize
<1>6. AddInv' /\ GetInv'
      BY <1>1 DEF IInv, AddInv, GetInv, Holds, uxStreamBufferGetSpace, uxStreamBufferGetSize
<1> QED BY <1>4, <1>5, <1>6 DEF IInv

\* vStreamBufferClear empties the buffer when no call is under way.
LEMMA ClearStep ==
    ASSUME IInv, vStreamBufferClear
    PROVE  IInv'
<1> USE LengthAssumption
<1>1. /\ uxHead' = 0 /\ uxTail' = 0 /\ uxFront' = 0 /\ uxMid' = 0
      /\ tailPos' = 0 /\ headPos' = 0 /\ ahead' = {}
      /\ UNCHANGED <<ucArray, add, get>> /\ add.pc = "idle" /\ get.pc = "idle"
      BY DEF vStreamBufferClear
<1>2. uxStreamBufferDistance(0, 0) = 0
      BY DEF uxStreamBufferDistance, Wrap
<1>3. TypeOK'
      BY <1>1 DEF IInv, TypeOK, Index
<1>4. Unread'
      BY <1>1, <1>2 DEF Unread, uxStreamBufferGetSize
<1>5. Ahead' /\ Front' /\ AddInv' /\ GetInv'
      BY <1>1, <1>2 DEF Ahead, Front, AddInv, GetInv
<1> QED BY <1>3, <1>4, <1>5 DEF IInv

\* The empty buffer of a new socket satisfies the invariant.
LEMMA InitIInv == Init => IInv
<1> SUFFICES ASSUME Init PROVE IInv
    OBVIOUS
<1> USE LengthAssumption
<1>1. uxStreamBufferDistance(0, 0) = 0
      BY DEF uxStreamBufferDistance, Wrap
<1>2. TypeOK
      BY DEF Init, TypeOK, Index, NoAdd, NoGet
<1>3. Unread /\ Ahead /\ Front
      BY <1>1 DEF Init, Unread, Ahead, Front, uxStreamBufferGetSize
<1>4. AddInv /\ GetInv
      BY DEF Init, AddInv, GetInv, NoAdd, NoGet
<1> QED BY <1>2, <1>3, <1>4 DEF IInv

\* A step that changes nothing.
LEMMA StutterStep ==
    ASSUME IInv, UNCHANGED vars
    PROVE  IInv'
<1>1. UNCHANGED <<uxTail, uxMid, uxHead, uxFront, ucArray, tailPos, headPos, ahead, add, get>>
      BY DEF vars, buffer, history
<1>2. TypeOK'
      BY <1>1 DEF IInv, TypeOK
<1>3. Unread' /\ Ahead' /\ Front'
      BY <1>1 DEF IInv, Unread, Ahead, Front, Holds, uxStreamBufferGetSize
<1>4. AddInv' /\ GetInv'
      BY <1>1 DEF IInv, AddInv, GetInv, Holds, uxStreamBufferGetSpace, uxStreamBufferGetSize
<1> QED BY <1>2, <1>3, <1>4 DEF IInv

-----------------------------------------------------------------------------
(***************************************************************************)
(* The invariant, for both uses of the buffer.                              *)
(***************************************************************************)

\* The invariant holds of rxStream, between lTCPAddRxdata and FreeRTOS_recv.
THEOREM RxInvariant == SpecRx => []IInv
<1>1. ASSUME IInv, [NextRx]_vars PROVE IInv'
  <2>1. ASSUME NEW offset \in 0 .. LENGTH, NEW count \in 1 .. MaxAdd, NEW isNull \in BOOLEAN,
               AddStart(offset, count, isNull)
        PROVE  IInv'
        BY <1>1, <2>1, AddStartStep
  <2>2. CASE AddCopy
        BY <1>1, <2>2, AddCopyStep
  <2>3. CASE AddCommit
        BY <1>1, <2>3, AddCommitStep
  <2>4. ASSUME NEW kind \in {"read", "peek", "drop", "ptr"}, NEW count \in 1 .. MaxAdd,
               GetStart(kind, 0, count)
        PROVE  IInv'
        BY <1>1, <2>4, GetStartStep
  <2>5. CASE GetCopied
        BY <1>1, <2>5, GetCopiedStep
  <2>6. CASE GetCommit
        BY <1>1, <2>6, GetCommitStep
  <2>7. CASE vStreamBufferClear
        BY <1>1, <2>7, ClearStep
  <2>8. CASE UNCHANGED vars
        BY <1>1, <2>8, StutterStep
  <2> QED BY <1>1, <2>1, <2>2, <2>3, <2>4, <2>5, <2>6, <2>7, <2>8 DEF NextRx
<1> QED BY <1>1, InitIInv, PTL DEF SpecRx

\* The invariant holds of txStream, between FreeRTOS_send and the sliding window.
THEOREM TxInvariant == SpecTx => []IInv
<1>1. ASSUME IInv, [NextTx]_vars PROVE IInv'
  <2>1. ASSUME NEW count \in 1 .. MaxAdd, AddStart(0, count, FALSE) PROVE IInv'
    <3>1. 0 \in 0 .. LENGTH
          BY LengthAssumption
    <3> QED BY <3>1, <1>1, <2>1, AddStartStep
  <2>2. CASE AddCopy
        BY <1>1, <2>2, AddCopyStep
  <2>3. CASE AddCommit
        BY <1>1, <2>3, AddCommitStep
  <2>4. ASSUME NEW count \in 1 .. MaxAdd, vStreamBufferMoveMid(count) PROVE IInv'
        BY <1>1, <2>4, MoveMidStep
  <2>5. ASSUME NEW offset \in 0 .. LENGTH, NEW count \in 1 .. MaxAdd,
               GetStart("peek", offset, count)
        PROVE  IInv'
    <3>1. offset \in Nat
          BY LengthAssumption
    <3> QED BY <3>1, <1>1, <2>5, GetStartStep
  <2>6. ASSUME NEW count \in 1 .. MaxAdd, GetStart("drop", 0, count) PROVE IInv'
        BY <1>1, <2>6, GetStartStep
  <2>7. CASE GetCopied
        BY <1>1, <2>7, GetCopiedStep
  <2>8. CASE GetCommit
        BY <1>1, <2>8, GetCommitStep
  <2>9. CASE vStreamBufferClear
        BY <1>1, <2>9, ClearStep
  <2>10. CASE UNCHANGED vars
        BY <1>1, <2>10, StutterStep
  <2> QED BY <1>1, <2>1, <2>2, <2>3, <2>4, <2>5, <2>6, <2>7, <2>8, <2>9, <2>10 DEF NextTx
<1> QED BY <1>1, InitIInv, PTL DEF SpecTx

-----------------------------------------------------------------------------
(***************************************************************************)
(* The properties of StreamBuffer.                                          *)
(***************************************************************************)
\* The invariant implies what a reader of uxTail to uxHead relies on.
LEMMA IInvUnreadIntact ==
    ASSUME IInv
    PROVE  UnreadIntact
<1>1. /\ Size \in Index /\ headPos = tailPos + Size /\ tailPos \in Nat
      /\ Size = uxStreamBufferGetSize
      BY StateFacts DEF Size
<1>2. headPos - tailPos = uxStreamBufferGetSize
      BY DEF IInv, Unread
<1>3. ASSUME NEW d \in 0 .. uxStreamBufferGetSize - 1 PROVE ucArray[CellAt(d)] = tailPos + d
  <2>1. tailPos + d \in Nat /\ tailPos <= tailPos + d /\ tailPos + d < headPos
        /\ (tailPos + d) - tailPos = d
        BY <1>1 DEF Index
  <2>2. Holds(tailPos + d)
        BY <2>1 DEF IInv, Unread
  <2> QED BY <2>1, <2>2 DEF Holds, HoldsIn, CellAt
<1> QED BY <1>2, <1>3 DEF UnreadIntact

\* The invariant implies that data stored ahead of uxHead is in place.
LEMMA IInvAheadIntact ==
    ASSUME IInv
    PROVE  AheadIntact
BY DEF IInv, Ahead, AheadIntact, Holds, HoldsIn, CellAt

\* The invariant implies that uxFront is not behind uxHead.
LEMMA IInvFrontBound ==
    ASSUME IInv
    PROVE  FrontBound
<1>1. uxTail \in Index /\ uxHead \in Index /\ uxFront \in Index
      BY DEF IInv, TypeOK
<1>2. /\ uxStreamBufferFrontSpace = LENGTH - 1 - uxStreamBufferDistance(uxTail, uxFront)
      /\ uxStreamBufferGetSpace = LENGTH - 1 - uxStreamBufferDistance(uxTail, uxHead)
      /\ uxStreamBufferDistance(uxTail, uxFront) \in Index
      /\ uxStreamBufferDistance(uxTail, uxHead) \in Index
      BY <1>1, SizeAndSpace DEF uxStreamBufferFrontSpace, uxStreamBufferGetSpace
<1> QED BY <1>2, LengthAssumption DEF IInv, Front, FrontBound, Index

\* The invariant implies that the cells a call reads from hold its bytes.
LEMMA IInvGetIntact ==
    ASSUME IInv
    PROVE  GetIntact
<1> USE LengthAssumption
<1> SUFFICES ASSUME get.pc # "idle", NEW i \in 0 .. get.count - 1
             PROVE  ucArray[GetCell(i)] = tailPos + get.offset + i
    BY DEF GetIntact
<1>1. /\ uxTail \in Index /\ Size \in Index /\ Size = uxStreamBufferGetSize
      /\ headPos = tailPos + Size /\ tailPos \in Nat
      BY StateFacts DEF Size
<1>2. get.offset \in Nat /\ get.count \in Nat /\ get.next \in Index
      BY DEF IInv, TypeOK
<1>3. /\ get.count >= 1 /\ get.offset + get.count <= Size
      /\ get.next = Wrap(uxTail + get.offset)
      /\ get.kind = "ptr" => get.next + get.count <= LENGTH
      BY <1>1 DEF IInv, GetInv
<1>4. GetCell(i) = Wrap(get.next + i)
  <2>1. CASE get.kind = "ptr"
        BY <2>1, <1>2, <1>3 DEF GetCell, Wrap, Index
  <2>2. CASE get.kind # "ptr"
    <3>1. get.count \in 1 .. LENGTH
          BY <1>1, <1>2, <1>3 DEF Index
    <3> QED BY <2>2, <3>1, <1>2, CopyCellIsWrap DEF GetCell
  <2> QED BY <2>1, <2>2
<1>5. Wrap(Wrap(uxTail + get.offset) + i) = Wrap(uxTail + (get.offset + i))
  <2>1. get.offset \in Index /\ i \in Nat /\ get.offset + i < LENGTH
        BY <1>1, <1>2, <1>3 DEF Index
  <2> QED BY <2>1, <1>1, WrapTwice
<1>6. Holds(tailPos + get.offset + i)
  <2>1. /\ tailPos + get.offset + i \in Nat /\ tailPos <= tailPos + get.offset + i
        /\ tailPos + get.offset + i < headPos
        BY <1>1, <1>2, <1>3 DEF Index
  <2> QED BY <2>1 DEF IInv, Unread
<1>7. (tailPos + get.offset + i) - tailPos = get.offset + i
      BY <1>1, <1>2
<1> QED BY <1>3, <1>4, <1>5, <1>6, <1>7 DEF Holds, HoldsIn

\* rxStream: indices, counters and locals keep their types.
THEOREM RxTypeOK == SpecRx => []TypeOK
<1>1. IInv => TypeOK
      BY DEF IInv
<1> QED BY <1>1, RxInvariant, PTL

\* rxStream: whatever the IP task is storing, in order or ahead of a gap, the
\* bytes FreeRTOS_recv may read are the bytes of the stream, in order.
THEOREM RxUnreadIntact == SpecRx => []UnreadIntact
<1>1. IInv => UnreadIntact
      BY IInvUnreadIntact
<1> QED BY <1>1, RxInvariant, PTL

\* rxStream: data of out-of-order segments stays in place until uxHead moves
\* over it, however often the user reads and the IP task adds in between.
THEOREM RxAheadIntact == SpecRx => []AheadIntact
<1>1. IInv => AheadIntact
      BY IInvAheadIntact
<1> QED BY <1>1, RxInvariant, PTL

\* rxStream: the bytes a call of uxStreamBufferGet is copying, or a zero-copy
\* reader is looking at, are not touched by the producer.
THEOREM RxGetIntact == SpecRx => []GetIntact
<1>1. IInv => GetIntact
      BY IInvGetIntact
<1> QED BY <1>1, RxInvariant, PTL

\* rxStream: uxFront never falls behind uxHead, so the advertised window never
\* exceeds the free space.
THEOREM RxFrontBound == SpecRx => []FrontBound
<1>1. IInv => FrontBound
      BY IInvFrontBound
<1> QED BY <1>1, RxInvariant, PTL

\* txStream: the bytes that are (re)transmitted while the user task is adding
\* more are the bytes of the stream.
THEOREM TxGetIntact == SpecTx => [](UnreadIntact /\ GetIntact)
<1>1. IInv => UnreadIntact /\ GetIntact
      BY IInvUnreadIntact, IInvGetIntact
<1> QED BY <1>1, TxInvariant, PTL

-----------------------------------------------------------------------------
(***************************************************************************)
(* The buffer implements ByteStream.                                        *)
(***************************************************************************)

\* The queue of n bytes that starts at position p of the stream.
Bytes(p, n) == [d \in 1 .. n |-> p + d - 1]

Queue == [d \in 1 .. uxStreamBufferGetSize |-> ucArray[CellAt(d - 1)]]

\* Under the invariant the contents of the cells are what the counters say.
LEMMA QueueIsBytes ==
    ASSUME IInv
    PROVE  Queue = Bytes(tailPos, Size) /\ headPos = tailPos + Size
<1>1. UnreadIntact
      BY IInvUnreadIntact
<1>2. /\ Size \in Index /\ headPos = tailPos + Size /\ tailPos \in Nat
      /\ Size = uxStreamBufferGetSize
      BY StateFacts DEF Size
<1>3. ASSUME NEW d \in 1 .. Size PROVE ucArray[CellAt(d - 1)] = tailPos + d - 1
  <2>1. d - 1 \in 0 .. uxStreamBufferGetSize - 1
        BY <1>2 DEF Index
  <2> QED BY <2>1, <1>1, <1>2 DEF UnreadIntact
<1> QED BY <1>2, <1>3 DEF Queue, Bytes

\* The queue of the refinement mapping, as an implication.
LEMMA QueueNow ==
    IInv => Queue = Bytes(tailPos, Size) /\ headPos = tailPos + Size /\ Size \in Index
BY QueueIsBytes, StateFacts

\* The same in the next state.
LEMMA QueueNext ==
    IInv' => Queue' = Bytes(tailPos', Size') /\ headPos' = tailPos' + Size' /\ Size' \in Index
<1>1. (IInv => Queue = Bytes(tailPos, Size) /\ headPos = tailPos + Size /\ Size \in Index)'
      BY QueueNow, PTL
<1> QED BY <1>1 DEF Bytes, Index

\* Adding m bytes to n.
LEMMA BytesAppend ==
    ASSUME NEW p \in Nat, NEW n \in Nat, NEW m \in Nat
    PROVE  Bytes(p, n + m) = Bytes(p, n) \o [i \in 1 .. m |-> (p + n) + i - 1]
BY DEF Bytes

\* Taking m bytes from n.
LEMMA BytesTake ==
    ASSUME NEW p \in Nat, NEW n \in Nat, NEW m \in Nat, m <= n
    PROVE  Bytes(p + m, n - m) = SubSeq(Bytes(p, n), m + 1, Len(Bytes(p, n)))
BY DEF Bytes

\* The length of a queue of n bytes.
LEMMA BytesLen ==
    ASSUME NEW p \in Nat, NEW n \in Nat
    PROVE  Len(Bytes(p, n)) = n /\ (n = 0 => Bytes(p, n) = << >>)
BY DEF Bytes

\* A step that leaves uxTail, uxHead and their positions alone, and keeps the
\* invariant, is invisible to ByteStream.
LEMMA InvisibleStep ==
    ASSUME IInv, IInv', UNCHANGED <<uxTail, uxHead, tailPos, headPos>>
    PROVE  Queue' = Queue /\ headPos' = headPos
<1>1. Queue = Bytes(tailPos, Size)
      BY QueueIsBytes
<1>2. Queue' = Bytes(tailPos', Size')
      BY QueueNext
<1>3. Size' = Size
      BY DEF Size, uxStreamBufferGetSize
<1> QED BY <1>1, <1>2, <1>3

\* The end of uxStreamBufferAdd puts its bytes at the end of the queue, or
\* changes nothing when they are stored ahead of uxHead.
LEMMA AddCommitRefines ==
    ASSUME IInv, IInv', AddCommit
    PROVE  [Stream!Next]_<<Queue, headPos>>
<1> USE LengthAssumption
<1>1. CASE add.offset # 0
  <2>1. UNCHANGED <<uxTail, uxHead, tailPos, headPos>>
        BY <1>1 DEF AddCommit
  <2> QED BY <2>1, InvisibleStep
<1>2. CASE add.offset = 0
  <2>1. /\ Size \in Index /\ tailPos \in Nat /\ headPos = tailPos + Size
        /\ uxStreamBufferGetSpace = LENGTH - 1 - Size
        BY StateFacts
  <2>2. add.count \in Nat /\ add.count >= 1 /\ add.count <= LENGTH - 1 - Size
        BY <1>2, <2>1 DEF AddCommit, IInv, TypeOK, AddInv
  <2>3. tailPos' = tailPos /\ headPos' = headPos + add.count
        BY <1>2 DEF AddCommit
  <2>4. headPos' = tailPos' + Size' /\ Queue' = Bytes(tailPos', Size') /\ Size' \in Index
        BY QueueNext
  <2>5. Size' = Size + add.count
    <3>1. Size \in Int /\ Size' \in Int
          BY <2>1, <2>4 DEF Index
    <3>2. tailPos + Size' = (tailPos + Size) + add.count
          BY <2>1, <2>3, <2>4
    <3>3. tailPos \in Int /\ add.count \in Int
          BY <2>1, <2>2
    <3> QED BY <3>1, <3>2, <3>3
  <2>6. Queue = Bytes(tailPos, Size) /\ Len(Queue) = Size
        BY <2>1, QueueIsBytes, BytesLen DEF Index
  <2>7. Queue' = Queue \o [i \in 1 .. add.count |-> headPos + i - 1]
    <3>1. Size \in Nat
          BY <2>1 DEF Index
    <3>2. Bytes(tailPos, Size + add.count)
            = Bytes(tailPos, Size) \o [i \in 1 .. add.count |-> (tailPos + Size) + i - 1]
          BY <3>1, <2>1, <2>2, BytesAppend
    <3> QED BY <3>2, <2>1, <2>3, <2>4, <2>5, <2>6
  <2>8. Stream!Put(add.count)
    <3>1. Len(Queue) + add.count <= LENGTH - 1
          BY <2>1, <2>2, <2>6 DEF Index
    <3> QED BY <3>1, <2>3, <2>7 DEF Stream!Put, Queue
  <2>9. add.count \in 1 .. LENGTH - 1
        BY <2>1, <2>2 DEF Index
  <2> QED BY <2>8, <2>9 DEF Stream!Next
<1> QED BY <1>1, <1>2

\* The end of uxStreamBufferGet takes the oldest bytes off the queue.
LEMMA GetCommitRefines ==
    ASSUME IInv, IInv', GetCommit
    PROVE  Stream!Next
<1> USE LengthAssumption
<1>1. Size \in Nat /\ tailPos \in Nat /\ headPos = tailPos + Size
      BY StateFacts DEF Index
<1>2. get.count \in Nat /\ get.count >= 1 /\ get.count <= Size
      BY <1>1 DEF GetCommit, IInv, TypeOK, GetInv, Size
<1>3. tailPos' = tailPos + get.count /\ headPos' = headPos
      BY DEF GetCommit
<1>4. headPos' = tailPos' + Size' /\ Queue' = Bytes(tailPos', Size') /\ Size' \in Index
      BY QueueNext
<1>5. Size' = Size - get.count
      BY <1>1, <1>2, <1>3, <1>4 DEF Index
<1>6. Queue = Bytes(tailPos, Size) /\ Len(Queue) = Size
      BY <1>1, QueueIsBytes, BytesLen
<1>7. Queue' = SubSeq(Queue, get.count + 1, Len(Queue))
      BY <1>1, <1>2, <1>3, <1>4, <1>5, <1>6, BytesTake
<1>8. Stream!Take(get.count)
      BY <1>3, <1>7 DEF Stream!Take, Queue
<1>9. get.count \in 1 .. Len(Queue)
      BY <1>1, <1>2, <1>6
<1> QED BY <1>8, <1>9 DEF Stream!Next, Queue

\* vStreamBufferClear empties the queue.
LEMMA ClearRefines ==
    ASSUME IInv, IInv', vStreamBufferClear
    PROVE  Stream!Next
<1>1. uxHead' = 0 /\ uxTail' = 0 /\ tailPos' = 0 /\ headPos' = 0
      BY DEF vStreamBufferClear
<1>2. uxStreamBufferGetSize' = 0
      BY <1>1, LengthAssumption DEF uxStreamBufferGetSize, uxStreamBufferDistance, Wrap
<1>3. Queue' = << >>
      BY <1>2 DEF Queue
<1>4. Stream!Reset
      BY <1>1, <1>3 DEF Stream!Reset, Queue
<1> QED BY <1>4 DEF Stream!Next

\* Both uses of the buffer start with an empty queue.
LEMMA InitRefines == Init => Stream!Init
<1> SUFFICES ASSUME Init PROVE Stream!Init
    OBVIOUS
<1>1. uxStreamBufferGetSize = 0
      BY LengthAssumption DEF Init, uxStreamBufferGetSize, uxStreamBufferDistance, Wrap
<1> QED BY <1>1 DEF Init, Stream!Init

\* rxStream implements a bounded queue of the bytes of the stream.
THEOREM RxRefinesByteStream == SpecRx => RefinesByteStream
<1>1. ASSUME IInv, IInv', [NextRx]_vars PROVE [Stream!Next]_<<Queue, headPos>>
  <2>1. CASE AddCommit
        BY <1>1, <2>1, AddCommitRefines
  <2>2. CASE GetCommit
        BY <1>1, <2>2, GetCommitRefines
  <2>3. CASE vStreamBufferClear
        BY <1>1, <2>3, ClearRefines
  <2>4. CASE ~AddCommit /\ ~GetCommit /\ ~vStreamBufferClear
    <3>1. UNCHANGED <<uxTail, uxHead, tailPos, headPos>>
          BY <1>1, <2>4 DEF NextRx, AddStart, AddCopy, GetStart, GetCopied, vars, buffer, history
    <3> QED BY <3>1, <1>1, InvisibleStep
  <2> QED BY <2>1, <2>2, <2>3, <2>4
<1> QED BY <1>1, InitRefines, RxInvariant, PTL DEF SpecRx, RefinesByteStream, Stream!Spec, Queue

\* txStream implements a bounded queue of the bytes of the stream, although the
\* sliding window moves uxMid and reads the same bytes several times.
THEOREM TxRefinesByteStream == SpecTx => RefinesByteStream
<1>1. ASSUME IInv, IInv', [NextTx]_vars PROVE [Stream!Next]_<<Queue, headPos>>
  <2>1. CASE AddCommit
        BY <1>1, <2>1, AddCommitRefines
  <2>2. CASE GetCommit
        BY <1>1, <2>2, GetCommitRefines
  <2>3. CASE vStreamBufferClear
        BY <1>1, <2>3, ClearRefines
  <2>4. CASE ~AddCommit /\ ~GetCommit /\ ~vStreamBufferClear
    <3>1. UNCHANGED <<uxTail, uxHead, tailPos, headPos>>
          BY <1>1, <2>4 DEF NextTx, AddStart, AddCopy, GetStart, GetCopied,
                            vStreamBufferMoveMid, vars, buffer, history
    <3> QED BY <3>1, <1>1, InvisibleStep
  <2> QED BY <2>1, <2>2, <2>3, <2>4
<1> QED BY <1>1, InitRefines, TxInvariant, PTL DEF SpecTx, RefinesByteStream, Stream!Spec, Queue

-----------------------------------------------------------------------------
(***************************************************************************)
(* txStream: uxMid stays between uxTail and uxHead.                         *)
(***************************************************************************)

\* What is announced is stored, and the bytes that are being dropped were
\* announced; only announced bytes are peeked at or dropped.
MidInv ==
    /\ Announced <= uxStreamBufferGetSize
    /\ get.kind \in {"none", "peek", "drop"}
    /\ get.pc = "commit" => get.kind = "drop" /\ get.count <= Announced

\* The way from t to h by m, when m is on it.
LEMMA DistanceSplits ==
    ASSUME NEW t \in Index, NEW m \in Index, NEW h \in Index,
           uxStreamBufferDistance(t, m) <= uxStreamBufferDistance(t, h)
    PROVE  uxStreamBufferDistance(t, m) + uxStreamBufferDistance(m, h) = uxStreamBufferDistance(t, h)
BY LengthAssumption DEF uxStreamBufferDistance, Wrap, Index

\* Moving forward by c from m, on the way from t to h.
LEMMA DistanceGrows ==
    ASSUME NEW t \in Index, NEW m \in Index, NEW h \in Index, NEW c \in Nat,
           uxStreamBufferDistance(t, m) <= uxStreamBufferDistance(t, h),
           c <= uxStreamBufferDistance(m, h)
    PROVE  uxStreamBufferDistance(t, Wrap(m + c)) = uxStreamBufferDistance(t, m) + c
BY LengthAssumption DEF uxStreamBufferDistance, Wrap, Index

\* The producer only makes the readable part larger.
LEMMA SizeGrows ==
    ASSUME IInv, IInv', tailPos' = tailPos, NEW n \in Nat, headPos' = headPos + n
    PROVE  uxStreamBufferGetSize' = uxStreamBufferGetSize + n
<1>1. uxStreamBufferGetSize = headPos - tailPos /\ uxStreamBufferGetSize' = headPos' - tailPos'
      BY DEF IInv, Unread
<1>2. headPos \in Nat /\ tailPos \in Nat
      BY DEF IInv, TypeOK
<1> QED BY <1>1, <1>2

\* Every step of txStream's users preserves MidInv.
LEMMA MidStep ==
    ASSUME IInv, IInv', MidInv, [NextTx]_vars
    PROVE  MidInv'
<1> USE LengthAssumption, BoundAssumption
<1>1. /\ uxTail \in Index /\ uxMid \in Index /\ uxHead \in Index
      /\ Announced \in Index /\ uxStreamBufferGetSize \in Index /\ uxStreamBufferMidSpace \in Index
      BY SizeAndSpace DEF IInv, TypeOK, Announced, uxStreamBufferGetSize, uxStreamBufferMidSpace
<1>2. get \in [pc : {"idle", "copy", "commit"}, kind : {"none", "read", "peek", "drop", "ptr"},
               offset : Nat, count : Nat, next : Index]
      BY DEF IInv, TypeOK
<1>3. CASE (\E count \in 1 .. MaxAdd : AddStart(0, count, FALSE)) \/ AddCopy \/ UNCHANGED vars
  <2>1. UNCHANGED <<uxTail, uxMid, uxHead, get>>
        BY <1>3 DEF AddStart, AddCopy, vars, buffer, history
  <2> QED BY <2>1 DEF MidInv, Announced, uxStreamBufferGetSize
<1>4. CASE AddCommit
  <2>1. UNCHANGED <<uxTail, uxMid, tailPos, get>>
        BY <1>4 DEF AddCommit
  <2>2. PICK n \in Nat : headPos' = headPos + n
    <3>1. headPos \in Nat /\ add.count \in Nat
          BY DEF IInv, TypeOK
    <3>2. headPos' = headPos + (IF add.offset = 0 THEN add.count ELSE 0)
          BY <1>4, <3>1 DEF AddCommit
    <3> QED BY <3>1, <3>2
  <2>3. uxStreamBufferGetSize' = uxStreamBufferGetSize + n
        BY <2>1, <2>2, SizeGrows
  <2>4. Announced' = Announced
        BY <2>1 DEF Announced
  <2> QED BY <2>1, <2>3, <2>4, <1>1 DEF MidInv, Index
<1>5. ASSUME NEW count \in 1 .. MaxAdd, vStreamBufferMoveMid(count) PROVE MidInv'
  <2> DEFINE m == Min2(count, uxStreamBufferMidSpace)
  <2>1. UNCHANGED <<uxTail, uxHead, get>> /\ uxMid' = Wrap(uxMid + m) /\ get.pc = "idle"
        BY <1>5 DEF vStreamBufferMoveMid
  <2>2. m \in Nat /\ m <= uxStreamBufferMidSpace
        BY <1>1 DEF Min2, Index
  <2>3. Announced' = Announced + m
    <3> HIDE DEF m
    <3>1. uxStreamBufferDistance(uxTail, uxMid) <= uxStreamBufferDistance(uxTail, uxHead)
          BY DEF MidInv, Announced, uxStreamBufferGetSize
    <3> QED BY <3>1, <2>1, <2>2, <1>1, DistanceGrows DEF Announced, uxStreamBufferMidSpace
  <2>4. Announced + uxStreamBufferMidSpace = uxStreamBufferGetSize
        BY <1>1, DistanceSplits DEF MidInv, Announced, uxStreamBufferGetSize, uxStreamBufferMidSpace
  <2>5. uxStreamBufferGetSize' = uxStreamBufferGetSize
        BY <2>1 DEF uxStreamBufferGetSize
  <2> HIDE DEF m
  <2> QED BY <2>1, <2>2, <2>3, <2>4, <2>5, <1>1 DEF MidInv, Index
<1>6. ASSUME NEW offset \in 0 .. LENGTH, NEW count \in 1 .. MaxAdd, GetStart("peek", offset, count)
      PROVE  MidInv'
  <2>1. UNCHANGED <<uxTail, uxMid, uxHead>> /\ get'.kind = "peek" /\ get'.pc = "copy"
        BY <1>6 DEF GetStart, buffer
  <2> QED BY <2>1 DEF MidInv, Announced, uxStreamBufferGetSize
<1>7. ASSUME NEW count \in 1 .. MaxAdd, count <= Announced, GetStart("drop", 0, count)
      PROVE  MidInv'
  <2>1. /\ UNCHANGED <<uxTail, uxMid, uxHead>> /\ get'.kind = "drop"
        /\ get'.count = Min2(Beyond(uxStreamBufferGetSize, 0), count)
        BY <1>7 DEF GetStart, buffer
  <2>2. get'.count <= Announced
        BY <2>1, <1>1, <1>7 DEF Min2, Beyond, Index
  <2> QED BY <2>1, <2>2 DEF MidInv, Announced, uxStreamBufferGetSize
<1>8. CASE GetCopied
  <2>1. UNCHANGED <<uxTail, uxMid, uxHead>> /\ get' = NoGet
        BY <1>8 DEF GetCopied, buffer, IInv, MidInv, GetInv
  <2> QED BY <2>1 DEF MidInv, NoGet, Announced, uxStreamBufferGetSize
<1>9. CASE GetCommit
  <2>1. get.count \in Nat /\ get.count <= Announced /\ get.count <= uxStreamBufferGetSize
        BY <1>9, <1>1, <1>2 DEF GetCommit, MidInv, Index
  <2>2. get.next = uxTail
        BY <1>9, <1>1 DEF GetCommit, IInv, GetInv, Wrap, Index
  <2>3. UNCHANGED <<uxMid, uxHead>> /\ get' = NoGet /\ uxTail' = Wrap(uxTail + get.count)
        BY <1>9, <2>2 DEF GetCommit
  <2>4. Announced' = Announced - get.count
        BY <2>1, <2>3, <1>1, DistanceShrinks DEF Announced
  <2>5. uxStreamBufferGetSize' = uxStreamBufferGetSize - get.count
        BY <2>1, <2>3, <1>1, DistanceShrinks DEF uxStreamBufferGetSize
  <2> QED BY <2>1, <2>3, <2>4, <2>5, <1>1 DEF MidInv, NoGet, Index
<1>10. CASE vStreamBufferClear
  <2>1. uxTail' = 0 /\ uxMid' = 0 /\ uxHead' = 0 /\ get' = get /\ get.pc = "idle"
        BY <1>10 DEF vStreamBufferClear
  <2> QED BY <2>1 DEF MidInv, Announced, uxStreamBufferGetSize, uxStreamBufferDistance, Wrap
<1> QED BY <1>3, <1>4, <1>5, <1>6, <1>7, <1>8, <1>9, <1>10 DEF NextTx

\* txStream: what is announced to the sliding window and what is still to be
\* announced are exactly the bytes that are stored.
THEOREM TxMidBetween == SpecTx => []MidBetween
<1>1. Init => MidInv
      BY LengthAssumption
      DEF Init, MidInv, NoGet, Announced, uxStreamBufferGetSize, uxStreamBufferDistance, Wrap
<1>2. IInv /\ MidInv => MidBetween
  <2> SUFFICES ASSUME IInv, MidInv PROVE MidBetween
      OBVIOUS
  <2>1. uxTail \in Index /\ uxMid \in Index /\ uxHead \in Index
        BY DEF IInv, TypeOK
  <2> QED BY <2>1, DistanceSplits
          DEF MidInv, MidBetween, Announced, uxStreamBufferGetSize, uxStreamBufferMidSpace
<1>3. IInv /\ IInv' /\ MidInv /\ [NextTx]_vars => MidInv'
      BY MidStep
<1> QED BY <1>1, <1>2, <1>3, TxInvariant, PTL DEF SpecTx
=============================================================================
