--------------------------- MODULE SimpleFifoProofs ---------------------------
(***************************************************************************)
(* Proofs about the FIFO for every depth and every set of words, with      *)
(* pointers of either width: with the extra bit whatever its two users do, *)
(* as built as long as the users keep the rules that bit would enforce.    *)
(***************************************************************************)
EXTENDS SimpleFifo, TLAPS, SequenceTheorems

USE DepthAssumption, FifoDataAssumption DEF DepthAssumption, FifoDataAssumption

-----------------------------------------------------------------------------
(* What the users have to keep to, when the counts do not tell them        *)

\* No user goes beyond what has reached its side of the FIFO: the last read pointer
\* that the write side has seen leaves a slot free, the last write pointer that the
\* read side has seen is ahead.
AsTold == (iaddr' # iaddr => Used < Depth) /\ (oaddr' # oaddr => Offered > 0)

\* No word is written to a full FIFO, and none is read from an empty one.
Fits == /\ iaddr' # iaddr => Len(pending) < Depth
        /\ oaddr' # oaddr => One(ord_q) < Len(pending)

-----------------------------------------------------------------------------
(* Pointers as positions on a circle                                       *)

\* The pointer k steps after p.
At(p, k) == IF p + k < 2 * Depth THEN p + k ELSE p + k - 2 * Depth

LEMMA AtDiff ==
  ASSUME NEW p \in Ptr, NEW a \in Ptr
  PROVE  Diff(a, p) \in Ptr /\ At(p, Diff(a, p)) = a
  BY DEF At, Diff, Ptr

LEMMA DiffAt ==
  ASSUME NEW p \in Ptr, NEW j \in 0..Depth, NEW k \in j..Depth
  PROVE  At(p, j) \in Ptr /\ At(p, k) \in Ptr /\ Diff(At(p, k), At(p, j)) = k - j
  BY DEF At, Diff, Ptr

LEMMA AtAt ==
  ASSUME NEW p \in Ptr, NEW j \in 0..Depth, NEW k \in 0..Depth, j + k <= Depth
  PROVE  At(At(p, j), k) = At(p, j + k)
  BY DEF At, Ptr

LEMMA AdvanceAt ==
  ASSUME NEW p \in Ptr, NEW k \in 0..Depth, NEW b \in BOOLEAN
  PROVE  Advance(At(p, k), b) = At(p, k + One(b))
  BY DEF At, Advance, One, Ptr

LEMMA AdvanceInPtr ==
  ASSUME NEW p \in Ptr, NEW b \in BOOLEAN
  PROVE  Advance(p, b) \in Ptr /\ (b => Advance(p, b) # p)
  BY DEF Advance, Ptr

LEMMA KeptInPtr ==
  ASSUME NEW p \in Ptr
  PROVE  Kept(p) \in Ptr
  BY DEF Kept, Slot, Ptr

\* Inverting the top bit turns the distance to a pointer into the room left before it,
\* of which a count without its top bit never shows too much.
LEMMA EmptyCounts ==
  ASSUME NEW p \in Ptr, NEW k \in 0..Depth
  PROVE  /\ EmptyCount(At(p, k), p) \in Ptr
         /\ Kept(EmptyCount(At(p, k), p)) <= Depth - k
<1>1. CASE WithTopBit
  BY <1>1 DEF EmptyCount, Kept, At, Diff, TopBitFlipped, Ptr
<1>2. CASE ~WithTopBit
  BY <1>2 DEF EmptyCount, Kept, Slot, At, Diff, TopBitFlipped, Ptr
<1>3. QED
  BY <1>1, <1>2

LEMMA FullCounts ==
  ASSUME NEW p \in Ptr, NEW k \in 0..Depth
  PROVE  /\ FullCount(p, At(p, k)) \in Ptr
         /\ Kept(FullCount(p, At(p, k))) <= k
<1>1. CASE WithTopBit
  BY <1>1 DEF FullCount, Kept, At, Diff, Ptr
<1>2. CASE ~WithTopBit
  BY <1>2 DEF FullCount, Kept, Slot, At, Diff, Ptr
<1>3. QED
  BY <1>1, <1>2

LEMMA CountsInPtr ==
  ASSUME NEW p \in Ptr, NEW r \in Ptr
  PROVE  EmptyCount(p, r) \in Ptr /\ FullCount(p, r) \in Ptr
<1>1. CASE WithTopBit
  BY <1>1 DEF EmptyCount, FullCount, Kept, TopBitFlipped, Diff, Ptr
<1>2. CASE ~WithTopBit
  BY <1>2 DEF EmptyCount, FullCount, Kept, Slot, TopBitFlipped, Diff, Ptr
<1>3. QED
  BY <1>1, <1>2

-----------------------------------------------------------------------------
(* One edge moves the copies and keeps their order                         *)

GapsFit == /\ Freed \in 0..Depth /\ Reading \in 0..Depth /\ Offered \in 0..Depth
           /\ Sent \in 0..Depth /\ Written \in 0..Depth

\* Where the six copies are, counted from the oldest.
LEMMA Positions ==
  ASSUME TypeOK, PointersInOrder
  PROVE  /\ GapsFit /\ Used \in 0..Depth
         /\ oaddr_sent = At(oaddr_seen, Freed)
         /\ oaddr      = At(oaddr_seen, Freed + Reading)
         /\ iaddr_seen = At(oaddr_seen, Freed + Reading + Offered)
         /\ iaddr_sent = At(oaddr_seen, Freed + Reading + Offered + Sent)
         /\ iaddr      = At(oaddr_seen, Used)
<1>1. /\ Freed \in Ptr /\ Reading \in Ptr /\ Offered \in Ptr
      /\ Sent \in Ptr /\ Written \in Ptr
  BY AtDiff DEF TypeOK, Freed, Reading, Offered, Sent, Written
<1>2. GapsFit /\ Used \in 0..Depth
  <2>1. Kept(empty_count) \in Ptr /\ Kept(empty_count) + Used <= Depth
    BY KeptInPtr DEF TypeOK, PointersInOrder
  <2>2. QED
    BY <1>1, <2>1 DEF GapsFit, Used, Unread, Ptr
<1>3. oaddr_sent = At(oaddr_seen, Freed)
  BY AtDiff DEF TypeOK, Freed
<1>4. oaddr = At(oaddr_sent, Reading)
  BY AtDiff DEF TypeOK, Reading
<1>5. iaddr_seen = At(oaddr, Offered)
  BY AtDiff DEF TypeOK, Offered
<1>6. iaddr_sent = At(iaddr_seen, Sent)
  BY AtDiff DEF TypeOK, Sent
<1>7. iaddr = At(iaddr_sent, Written)
  BY AtDiff DEF TypeOK, Written
<1> DEFINE k3 == Freed + Reading
           k4 == k3 + Offered
           k5 == k4 + Sent
<1>8. /\ oaddr_seen \in Ptr /\ k3 \in 0..Depth /\ k4 \in 0..Depth /\ k5 \in 0..Depth
      /\ Used = k5 + Written
  BY <1>2 DEF TypeOK, GapsFit, Used, Unread
<1>9. oaddr = At(oaddr_seen, k3)
  BY <1>2, <1>3, <1>4, <1>8, AtAt DEF GapsFit
<1> HIDE DEF k3
<1>10. iaddr_seen = At(oaddr_seen, k4)
  BY <1>2, <1>5, <1>8, <1>9, AtAt DEF GapsFit
<1> HIDE DEF k4
<1>11. iaddr_sent = At(oaddr_seen, k5)
  BY <1>2, <1>6, <1>8, <1>10, AtAt DEF GapsFit
<1> HIDE DEF k5
<1>12. iaddr = At(oaddr_seen, Used)
  BY <1>2, <1>7, <1>8, <1>11, AtAt DEF GapsFit
<1>13. QED
  BY <1>2, <1>3, <1>9, <1>10, <1>11, <1>12 DEF k3, k4, k5

\* A pointer may advance, a copy may catch up with the one before it.
Moves(iwr, ord) ==
  /\ iaddr' = Advance(iaddr, iwr) /\ oaddr' = Advance(oaddr, ord)
  /\ iaddr_sent' \in {iaddr_sent, iaddr} /\ iaddr_seen' \in {iaddr_seen, iaddr_sent}
  /\ oaddr_sent' \in {oaddr_sent, oaddr} /\ oaddr_seen' \in {oaddr_seen, oaddr_sent}

LEMMA MovesKeepOrder ==
  ASSUME TypeOK, PointersInOrder,
         NEW iwr \in BOOLEAN, NEW ord \in BOOLEAN, Moves(iwr, ord),
         Used + One(iwr) <= Depth, One(ord) <= Offered
  PROVE  \E used, reading, offered, unread \in Nat :
           /\ Used' = used /\ Reading' = reading /\ Offered' = offered /\ Unread' = unread
           /\ used <= Used + One(iwr)
           /\ offered >= Offered - One(ord)
           /\ reading >= One(ord)
           /\ unread = Unread + One(iwr) - One(ord)
<1> DEFINE p  == oaddr_seen
           k2 == Freed
           k3 == Freed + Reading
           k4 == Freed + Reading + Offered
           k5 == Freed + Reading + Offered + Sent
           k6 == Used
<1>1. /\ k2 \in 0..Depth /\ k3 \in k2..Depth /\ k4 \in k3..Depth
      /\ k5 \in k4..Depth /\ k6 \in k5..Depth /\ p \in Ptr
      /\ GapsFit
  <2>1. GapsFit /\ Used \in 0..Depth /\ p \in Ptr
    BY Positions DEF TypeOK
  <2>2. k3 \in k2..Depth /\ k4 \in k3..Depth /\ k5 \in k4..Depth /\ k6 \in k5..Depth
    BY <2>1 DEF GapsFit, Used, Unread
  <2>3. QED
    BY <2>1, <2>2 DEF GapsFit
<1>2. /\ oaddr_sent = At(p, k2) /\ oaddr = At(p, k3) /\ iaddr_seen = At(p, k4)
      /\ iaddr_sent = At(p, k5) /\ iaddr = At(p, k6) /\ oaddr_seen = At(p, 0)
  BY Positions, <1>1 DEF At, Ptr
<1>3. One(iwr) \in {0, 1} /\ One(ord) \in {0, 1}
  BY DEF One
<1>4. k6 + One(iwr) <= Depth /\ k3 + One(ord) <= k4
  BY <1>1, <1>3 DEF GapsFit
<1>5. iaddr' = At(p, k6 + One(iwr)) /\ oaddr' = At(p, k3 + One(ord))
  BY <1>1, <1>2, AdvanceAt DEF Moves
<1>6. PICK n1 \in {0, k2}, n2 \in {k2, k3}, n4 \in {k4, k5}, n5 \in {k5, k6} :
         /\ oaddr_seen' = At(p, n1) /\ oaddr_sent' = At(p, n2)
         /\ iaddr_seen' = At(p, n4) /\ iaddr_sent' = At(p, n5)
  BY <1>2 DEF Moves
<1> DEFINE n3 == k3 + One(ord)
           n6 == k6 + One(iwr)
<1>7. /\ n1 \in 0..Depth /\ n2 \in n1..Depth /\ n3 \in n2..Depth
      /\ n4 \in n3..Depth /\ n5 \in n4..Depth /\ n6 \in n5..Depth
  BY <1>1, <1>3, <1>4, <1>6
<1> HIDE DEF p, k2, k3, k4, k5, k6, n3, n6
<1>8. /\ oaddr_seen' = At(p, n1) /\ oaddr_sent' = At(p, n2) /\ oaddr' = At(p, n3)
      /\ iaddr_seen' = At(p, n4) /\ iaddr_sent' = At(p, n5) /\ iaddr' = At(p, n6)
  BY <1>5, <1>6 DEF n3, n6
<1>9. /\ Freed' = n2 - n1 /\ Reading' = n3 - n2 /\ Offered' = n4 - n3
      /\ Sent' = n5 - n4 /\ Written' = n6 - n5
  <2>1. /\ n2 \in 0..Depth /\ n3 \in 0..Depth /\ n4 \in 0..Depth /\ n5 \in 0..Depth
    BY <1>7
  <2>2. Freed' = n2 - n1
    BY <1>1, <1>7, <1>8, DiffAt DEF Freed
  <2>3. Reading' = n3 - n2
    BY <1>1, <1>7, <1>8, <2>1, DiffAt DEF Reading
  <2>4. Offered' = n4 - n3
    BY <1>1, <1>7, <1>8, <2>1, DiffAt DEF Offered
  <2>5. Sent' = n5 - n4
    BY <1>1, <1>7, <1>8, <2>1, DiffAt DEF Sent
  <2>6. Written' = n6 - n5
    BY <1>1, <1>7, <1>8, <2>1, DiffAt DEF Written
  <2>7. QED
    BY <2>2, <2>3, <2>4, <2>5, <2>6
<1>10. /\ n1 >= 0 /\ n2 <= k3 /\ n4 >= k4
       /\ k4 = k3 + Offered /\ k6 = k3 + Unread /\ k6 = Used /\ Unread \in Nat
  <2>1. k6 = k3 + Unread /\ k6 = Used /\ Unread \in Nat
    BY <1>1 DEF k3, k6, Used, Unread, GapsFit
  <2>2. QED
    BY <1>1, <1>6, <1>7, <2>1 DEF k3, k4
<1>11. Used' = n6 - n1 /\ Unread' = n6 - n3
  BY <1>1, <1>3, <1>6, <1>7, <1>9 DEF Used, Unread
<1>12. n6 - n1 <= Used + One(iwr)
  BY <1>1, <1>3, <1>7, <1>10 DEF n6
<1>13. n4 - n3 >= Offered - One(ord) /\ n3 - n2 >= One(ord)
  BY <1>1, <1>3, <1>6, <1>7, <1>10 DEF n3, GapsFit
<1>14. n6 - n3 = Unread + One(iwr) - One(ord)
  BY <1>1, <1>3, <1>7, <1>10 DEF n3, n6
<1>15. n6 - n1 \in Nat /\ n3 - n2 \in Nat /\ n4 - n3 \in Nat /\ n6 - n3 \in Nat
  BY <1>7
<1>16. QED
  BY <1>9, <1>11, <1>12, <1>13, <1>14, <1>15

-----------------------------------------------------------------------------
(* The write side and the read side, each at an edge of its own clock      *)

LEMMA WriteFlags ==
  ASSUME NEW iwr \in BOOLEAN, NEW idata \in Data, Write(iwr, idata)
  PROVE  /\ ioverflow' \in BOOLEAN /\ ireset' \in BOOLEAN
         /\ ireset' => ireset
         /\ ~ireset => (ioverflow' <=> iwr /\ empty_count = 0)
  BY Zenon DEF Write, WriteEdge, WriteCounters, Release

LEMMA ReadFlags ==
  ASSUME NEW ord \in BOOLEAN, Read(ord)
  PROVE  /\ ounderflow' \in BOOLEAN /\ oreset' \in BOOLEAN
         /\ oreset' => oreset
         /\ ~oreset => (ounderflow' <=> ord /\ full_count = 0)
  BY Zenon DEF Read, ReadEdge, ReadCounters, Release

LEMMA WriteSide ==
  ASSUME WithTopBit \/ AsTold, FifoInv, ~erred, NEW iwr \in BOOLEAN, NEW idata \in Data,
         Write(iwr, idata)
  PROVE  /\ iaddr' = Advance(iaddr, iwr)
         /\ iaddr_sent' \in {iaddr_sent, iaddr} /\ oaddr_seen' \in {oaddr_seen, oaddr_sent}
         /\ ireset' => iaddr' = 0 /\ iaddr_sent' = 0 /\ oaddr_seen' = 0 /\ empty_count' = 0
         /\ empty_count' \in Ptr /\ ram' \in [Slots -> Data]
         /\ ~ioverflow' => Kept(empty_count)' + Used + One(iwr) <= Depth
<1> TypeOK /\ QuietInReset /\ PointersInOrder
  BY DEF FifoInv
<1>1. iaddr \in Ptr /\ oaddr_seen \in Ptr /\ empty_count \in Ptr /\ ram \in [Slots -> Data]
  BY DEF TypeOK
<1>2. ram' \in [Slots -> Data]
  BY <1>1 DEF Write, WriteEdge, RamWrite, Slot, Slots, Ptr
<1>3. CASE ireset
  <2>1. ~iwr /\ One(iwr) = 0
    BY <1>3 DEF Write, One
  <2>2. /\ iaddr' = 0 /\ empty_count' = 0 /\ iaddr_sent' = 0 /\ oaddr_seen' = 0
        /\ iaddr = 0 /\ iaddr_sent = 0 /\ oaddr_seen = 0
    BY <1>3 DEF Write, WriteEdge, WriteCounters, WriteXings, QuietInReset
  <2>3. Used \in 0..Depth
    BY Positions
  <2>4. Kept(empty_count)' = 0
    BY <2>2 DEF Kept, Slot
  <2>5. QED
    BY <1>2, <2>1, <2>2, <2>3, <2>4 DEF Advance, Ptr
<1>4. CASE ~ireset
  <2>1. /\ iaddr' = Advance(iaddr, iwr)
        /\ iaddr_sent' \in {iaddr_sent, iaddr} /\ oaddr_seen' \in {oaddr_seen, oaddr_sent}
        /\ empty_count' = EmptyCount(iaddr', oaddr_seen)
    BY <1>4 DEF Write, WriteEdge, WriteCounters, WriteXings
  <2>2. Used \in 0..Depth /\ iaddr = At(oaddr_seen, Used)
    BY Positions
  <2>3. iaddr' = At(oaddr_seen, Used + One(iwr))
    BY <1>1, <2>1, <2>2, AdvanceAt
  <2>4. empty_count' \in Ptr
    <3>1. iaddr' \in Ptr
      BY <1>1, <2>1, AdvanceInPtr
    <3>2. QED
      BY <1>1, <2>1, <3>1, CountsInPtr
  <2>5. ~ioverflow' => Used + One(iwr) \in 0..Depth
    <3>1. CASE ~iwr
      BY <2>2, <3>1 DEF One
    <3>2. CASE iwr /\ AsTold
      <4>1. iaddr' # iaddr
        BY <1>1, <2>1, <3>2, AdvanceInPtr
      <4>2. Used < Depth
        BY <3>2, <4>1 DEF AsTold
      <4>3. QED
        BY <2>2, <4>2, <3>2 DEF One
    <3>3. CASE iwr /\ WithTopBit
      <4>1. ~ioverflow' => empty_count # 0
        BY <1>4, <3>3, WriteFlags
      <4>2. Kept(empty_count) = empty_count /\ Kept(empty_count) + Used <= Depth
        BY <3>3 DEF Kept, PointersInOrder
      <4>3. QED
        BY <1>1, <2>2, <3>3, <4>1, <4>2 DEF One, Ptr
    <3>4. QED
      BY <3>1, <3>2, <3>3
  <2>6. ~ioverflow' => Kept(empty_count)' <= Depth - (Used + One(iwr))
    <3>1. SUFFICES ASSUME ~ioverflow' PROVE Kept(empty_count') <= Depth - (Used + One(iwr))
      BY DEF Kept, Slot
    <3>2. Used + One(iwr) \in 0..Depth
      BY <2>5, <3>1
    <3>3. QED
      BY <1>1, <2>1, <2>3, <3>2, EmptyCounts
  <2>7. ~ireset'
    BY <1>4, WriteFlags
  <2>8. ~ioverflow' => Kept(empty_count)' + Used + One(iwr) <= Depth
    <3>1. One(iwr) \in {0, 1}
      BY DEF One
    <3>2. Kept(empty_count)' \in Ptr
      BY <2>4, KeptInPtr DEF Kept, Slot
    <3>3. QED
      BY <2>2, <2>6, <3>1, <3>2 DEF Ptr
  <2>9. QED
    BY <1>2, <2>1, <2>4, <2>7, <2>8
<1>5. QED
  BY <1>3, <1>4

LEMMA ReadSide ==
  ASSUME WithTopBit \/ AsTold, FifoInv, ~erred, NEW ord \in BOOLEAN, Read(ord)
  PROVE  /\ oaddr' = Advance(oaddr, ord)
         /\ oaddr_sent' \in {oaddr_sent, oaddr} /\ iaddr_seen' \in {iaddr_seen, iaddr_sent}
         /\ oreset' => /\ oaddr' = 0 /\ oaddr_sent' = 0 /\ iaddr_seen' = 0
                       /\ full_count' = 0 /\ ~ord
         /\ full_count' \in Ptr /\ oaddr_q' \in Slots /\ odata' \in Data
         /\ ord_q' = ord /\ ord_qq' = ord_q
         /\ ~ounderflow' => Kept(full_count)' + One(ord) <= Offered
<1> TypeOK /\ QuietInReset /\ PointersInOrder
  BY DEF FifoInv
<1>1. oaddr \in Ptr /\ iaddr_seen \in Ptr /\ full_count \in Ptr /\ Offered \in 0..Depth
  BY Positions DEF TypeOK, GapsFit
<1>2. oaddr_q' \in Slots /\ odata' \in Data /\ ord_q' = ord /\ ord_qq' = ord_q
  BY <1>1 DEF Read, ReadEdge, RamRead, TypeOK, Slot, Slots, Ptr
<1>3. CASE oreset
  <2>1. ~ord /\ One(ord) = 0
    BY <1>3 DEF Read, One
  <2>2. /\ oaddr' = 0 /\ full_count' = 0 /\ oaddr_sent' = 0 /\ iaddr_seen' = 0
        /\ oaddr = 0 /\ oaddr_sent = 0 /\ iaddr_seen = 0
    BY <1>3 DEF Read, ReadEdge, ReadCounters, ReadXings, QuietInReset
  <2>3. Kept(full_count)' = 0
    BY <2>2 DEF Kept, Slot
  <2>4. QED
    BY <1>1, <1>2, <2>1, <2>2, <2>3 DEF Advance, Ptr
<1>4. CASE ~oreset
  <2>1. /\ oaddr' = Advance(oaddr, ord)
        /\ oaddr_sent' \in {oaddr_sent, oaddr} /\ iaddr_seen' \in {iaddr_seen, iaddr_sent}
        /\ full_count' = FullCount(oaddr', iaddr_seen)
    BY <1>4 DEF Read, ReadEdge, ReadCounters, ReadXings
  <2>2. oaddr' \in Ptr /\ full_count' \in Ptr
    <3>1. oaddr' \in Ptr
      BY <1>1, <2>1, AdvanceInPtr
    <3>2. QED
      BY <1>1, <2>1, <3>1, CountsInPtr
  <2>3. One(ord) \in {0, 1}
    BY DEF One
  <2>4. ~ounderflow' => One(ord) <= Offered
    <3>1. CASE ~ord
      BY <1>1, <3>1 DEF One
    <3>2. CASE ord /\ AsTold
      <4>1. oaddr' # oaddr
        BY <1>1, <2>1, <3>2, AdvanceInPtr
      <4>2. QED
        BY <1>1, <3>2, <4>1 DEF AsTold, One
    <3>3. CASE ord /\ WithTopBit
      <4>1. ~ounderflow' => full_count # 0
        BY <1>4, <3>3, ReadFlags
      <4>2. Kept(full_count) = full_count /\ Kept(full_count) <= Offered
        BY <3>3 DEF Kept, PointersInOrder
      <4>3. QED
        BY <1>1, <3>3, <4>1, <4>2 DEF One, Ptr
    <3>4. QED
      BY <3>1, <3>2, <3>3
  <2>5. ~ounderflow' => iaddr_seen = At(oaddr', Offered - One(ord))
    <3>1. iaddr_seen = At(oaddr, Offered)
      BY <1>1, AtDiff DEF Offered
    <3>2. QED
      BY <1>1, <2>1, <2>3, <2>4, <3>1 DEF At, Advance, One, Ptr
  <2>6. ~ounderflow' => Kept(full_count)' <= Offered - One(ord)
    <3>1. SUFFICES ASSUME ~ounderflow' PROVE Kept(full_count') <= Offered - One(ord)
      BY DEF Kept, Slot
    <3>2. Offered - One(ord) \in 0..Depth
      BY <1>1, <2>3, <2>4, <3>1
    <3>3. QED
      BY <2>1, <2>2, <2>5, <3>1, <3>2, FullCounts
  <2>7. ~oreset'
    BY <1>4, ReadFlags
  <2>8. ~ounderflow' => Kept(full_count)' + One(ord) <= Offered
    <3>1. Kept(full_count)' \in Ptr
      BY <2>2, KeptInPtr DEF Kept, Slot
    <3>2. QED
      BY <1>1, <2>3, <2>6, <3>1 DEF Ptr
  <2>9. QED
    BY <1>1, <1>2, <2>1, <2>2, <2>7, <2>8
<1>5. QED
  BY <1>3, <1>4

-----------------------------------------------------------------------------
(* The invariant                                                           *)

LEMMA InitFifoInv == Init => FifoInv
<1> SUFFICES ASSUME Init PROVE FifoInv
  OBVIOUS
<1>1. /\ iaddr = 0 /\ iaddr_sent = 0 /\ iaddr_seen = 0 /\ oaddr = 0 /\ oaddr_sent = 0
      /\ oaddr_seen = 0 /\ empty_count = 0 /\ full_count = 0 /\ oaddr_q = 0
      /\ ram \in [Slots -> Data] /\ odata \in Data /\ pending = <<>>
  BY Zenon DEF Init
<1>2. /\ ioverflow \in BOOLEAN /\ ounderflow \in BOOLEAN /\ ireset \in BOOLEAN
      /\ oreset \in BOOLEAN /\ ord_q \in BOOLEAN /\ ord_qq \in BOOLEAN /\ erred \in BOOLEAN
      /\ ~ord_q
  BY Zenon DEF Init
<1>3. TypeOK
  BY <1>1, <1>2 DEF TypeOK, Ptr, Slots
<1>4. QuietInReset
  BY <1>1, <1>2 DEF QuietInReset
<1>5. PointersInOrder
  BY <1>1, <1>2 DEF PointersInOrder, Kept, Slot, Used, Freed, Reading, Offered, Sent, Written, Unread, Diff, One
<1>6. QED
  BY <1>3, <1>4, <1>5 DEF FifoInv

LEMMA AfterShowLen ==
  ASSUME TypeOK, PointersInOrder
  PROVE  AfterShow \in Seq(Data) /\ Len(AfterShow) = Unread
<1>1. pending \in Seq(Data) /\ Len(pending) = One(ord_q) + Unread
  BY DEF TypeOK, PointersInOrder
<1>2. Unread \in Nat
  BY Positions DEF GapsFit, Unread
<1>3. CASE ord_q
  <2>1. One(ord_q) = 1
    BY <1>3 DEF One
  <2>2. Len(pending) >= 1
    BY <1>1, <1>2, <2>1
  <2>3. Tail(pending) \in Seq(Data) /\ Len(Tail(pending)) = Len(pending) - 1
    BY <1>1, <2>2, HeadTailProperties
  <2>4. AfterShow = Tail(pending)
    BY <1>3, Zenon DEF AfterShow
  <2>5. QED
    BY <1>1, <1>2, <2>1, <2>3, <2>4
<1>4. CASE ~ord_q
  <2>1. AfterShow = pending /\ One(ord_q) = 0
    BY <1>4, Zenon DEF AfterShow, One
  <2>2. QED
    BY <1>1, <1>2, <2>1
<1>5. QED
  BY <1>3, <1>4

\* The numbers an edge changes: before it, after it, and what must hold of them.
Before(iwr, ord, w, r, u, o, n) ==
  w = One(iwr) /\ r = One(ord) /\ u = Used /\ o = Offered /\ n = Unread

After(s, e, f, l) ==
  s = One(ord_q)' /\ e = Kept(empty_count)' /\ f = Kept(full_count)' /\ l = Len(pending)'

Fit(w, r, s, u, o, n, e, f, l) ==
  e + u + w <= Depth /\ f + r <= o /\ l + r = s + n + w

FitsAfter(w, r, u, o, n) ==
  \E s \in {0, 1}, e \in Nat, f \in Nat, l \in Nat :
    After(s, e, f, l) /\ Fit(w, r, s, u, o, n, e, f, l)

EdgeFits(iwr, ord) ==
  \E w \in {0, 1}, r \in {0, 1}, u \in Nat, o \in Nat, n \in Nat :
    Before(iwr, ord, w, r, u, o, n) /\ FitsAfter(w, r, u, o, n)

\* ord_q takes ord, unless the read side has no edge.
OrdTaken(ord) == ord_q' = ord \/ (~ord /\ UNCHANGED <<ord_q, oaddr, oaddr_sent>>)

LEMMA BeforeExists ==
  ASSUME TypeOK, PointersInOrder, NEW iwr \in BOOLEAN, NEW ord \in BOOLEAN
  PROVE  \E w \in {0, 1}, r \in {0, 1}, u \in Nat, o \in Nat, n \in Nat :
           Before(iwr, ord, w, r, u, o, n)
<1>1. One(iwr) \in {0, 1} /\ One(ord) \in {0, 1}
  BY DEF One
<1>2. Used \in Nat /\ Offered \in Nat /\ Unread \in Nat
  BY Positions DEF GapsFit, Unread
<1>3. QED
  BY <1>1, <1>2 DEF Before

LEMMA AfterExists ==
  ASSUME TypeOK'
  PROVE  \E s \in {0, 1}, e \in Nat, f \in Nat, l \in Nat : After(s, e, f, l)
<1>1. One(ord_q)' \in {0, 1}
  BY DEF One
<1>2. Kept(empty_count)' \in Nat /\ Kept(full_count)' \in Nat /\ Len(pending)' \in Nat
  <2>1. empty_count' \in Ptr /\ full_count' \in Ptr /\ Len(pending)' \in Nat
    BY DEF TypeOK
  <2>2. Kept(empty_count') \in Nat /\ Kept(full_count') \in Nat
    BY <2>1, KeptInPtr DEF Ptr
  <2>3. QED
    BY <2>1, <2>2 DEF Kept, Slot
<1>3. QED
  BY <1>1, <1>2 DEF After

LEMMA PointersStep ==
  ASSUME TypeOK, PointersInOrder,
         NEW iwr \in BOOLEAN, NEW ord \in BOOLEAN,
         Moves(iwr, ord), OrdTaken(ord), EdgeFits(iwr, ord)
  PROVE  PointersInOrder'
<1> PICK w \in {0, 1}, r \in {0, 1}, u \in Nat, o \in Nat, n \in Nat :
      Before(iwr, ord, w, r, u, o, n) /\ FitsAfter(w, r, u, o, n)
  BY DEF EdgeFits
<1> PICK s \in {0, 1}, e \in Nat, f \in Nat, l \in Nat :
      After(s, e, f, l) /\ Fit(w, r, s, u, o, n, e, f, l)
  BY DEF FitsAfter
<1>1. u + w <= Depth /\ r <= o
  BY DEF Fit
<1>2. Used + One(iwr) <= Depth /\ One(ord) <= Offered
  BY <1>1 DEF Before
<1>3. PICK used, reading, offered, unread \in Nat :
        /\ Used' = used /\ Reading' = reading /\ Offered' = offered /\ Unread' = unread
        /\ used <= u + w
        /\ offered >= o - r
        /\ reading >= r
        /\ unread = n + w - r
  BY <1>2, MovesKeepOrder DEF Before
<1>4. used <= u + w /\ offered >= o - r /\ unread = n + w - r
  BY <1>3
<1>5. e + used <= Depth /\ f <= offered /\ l = s + unread
  BY <1>4 DEF Fit
<1>6. One(ord_q)' <= Reading'
  <2>1. CASE ord_q' = ord
    BY <1>3, <2>1 DEF Before
  <2>2. CASE ~ord /\ UNCHANGED <<ord_q, oaddr, oaddr_sent>>
    BY <2>2 DEF PointersInOrder, Reading
  <2>3. QED
    BY <2>1, <2>2, Zenon DEF OrdTaken
<1>7. QED
  BY <1>3, <1>5, <1>6 DEF PointersInOrder, After

LEMMA WriteTickStep ==
  ASSUME WithTopBit \/ AsTold, FifoInv, NEW iwr \in BOOLEAN, WriteTick(iwr)
  PROVE  FifoInv'
<1>1. PICK idata \in Data :
        /\ ~erred /\ Write(iwr, idata) /\ UNCHANGED rdvars
        /\ pending' = IF iwr THEN Append(pending, idata) ELSE pending
        /\ erred' = ioverflow'
  BY DEF WriteTick
<1>2. TypeOK /\ QuietInReset /\ PointersInOrder
  BY <1>1 DEF FifoInv
<1>3. /\ iaddr' = Advance(iaddr, iwr)
      /\ iaddr_sent' \in {iaddr_sent, iaddr} /\ oaddr_seen' \in {oaddr_seen, oaddr_sent}
      /\ ireset' => iaddr' = 0 /\ iaddr_sent' = 0 /\ oaddr_seen' = 0 /\ empty_count' = 0
      /\ empty_count' \in Ptr /\ ram' \in [Slots -> Data]
      /\ ~ioverflow' => Kept(empty_count)' + Used + One(iwr) <= Depth
  BY <1>1, WriteSide
<1>4. ioverflow' \in BOOLEAN /\ ireset' \in BOOLEAN /\ erred' \in BOOLEAN
  BY <1>1, WriteFlags, Zenon
<1>5. pending' \in Seq(Data) /\ Len(pending') = Len(pending) + One(iwr)
  BY <1>1, <1>2 DEF TypeOK, One
<1>6. TypeOK'
  <2>1. iaddr' \in Ptr
    BY <1>2, <1>3, AdvanceInPtr DEF TypeOK
  <2>2. {iaddr', iaddr_sent', iaddr_seen', oaddr', oaddr_sent', oaddr_seen'} \subseteq Ptr
    BY <1>1, <1>2, <1>3, <2>1 DEF TypeOK, rdvars
  <2>3. /\ ounderflow' \in BOOLEAN /\ oreset' \in BOOLEAN
        /\ ord_q' \in BOOLEAN /\ ord_qq' \in BOOLEAN
    BY <1>1, <1>2, Zenon DEF TypeOK, rdvars
  <2>4. full_count' \in Ptr /\ oaddr_q' \in Slots /\ odata' \in Data
    BY <1>1, <1>2 DEF TypeOK, rdvars
  <2>5. QED
    BY <1>3, <1>4, <1>5, <2>2, <2>3, <2>4 DEF TypeOK
<1>7. QuietInReset'
  BY <1>1, <1>2, <1>3 DEF QuietInReset, rdvars
<1>8. ASSUME ~erred' PROVE PointersInOrder'
  <2>1. ~ioverflow'
    BY <1>1, <1>8, Zenon
  <2>2. PICK none \in BOOLEAN : ~none /\ One(none) = 0
    BY DEF One
  <2>3. Moves(iwr, none)
    BY <1>1, <1>3, <2>2 DEF Moves, rdvars, Advance
  <2>4. UNCHANGED <<ord_q, oaddr, oaddr_sent, full_count>>
    BY <1>1 DEF rdvars
  <2>5. PICK w \in {0, 1}, r \in {0, 1}, u \in Nat, o \in Nat, n \in Nat :
          Before(iwr, none, w, r, u, o, n) /\ r = 0
    BY <1>2, <2>2, BeforeExists DEF Before
  <2>6. PICK s \in {0, 1}, e \in Nat, f \in Nat, l \in Nat : After(s, e, f, l)
    BY <1>6, AfterExists
  <2>7. Fit(w, r, s, u, o, n, e, f, l)
    <3>1. e + u + w <= Depth
      BY <1>3, <2>1, <2>5, <2>6 DEF Before, After
    <3>2. f + r <= o
      BY <1>2, <2>4, <2>5, <2>6 DEF Before, After, PointersInOrder, Kept, Slot
    <3>3. l = s + n + w
      BY <1>2, <1>5, <2>4, <2>5, <2>6 DEF Before, After, PointersInOrder, One
    <3>4. QED
      BY <2>5, <3>1, <3>2, <3>3 DEF Fit
  <2>8. EdgeFits(iwr, none)
    <3>1. FitsAfter(w, r, u, o, n)
      BY <2>6, <2>7 DEF FitsAfter
    <3>2. QED
      BY <2>5, <3>1 DEF EdgeFits
  <2>9. OrdTaken(none)
    BY <2>2, <2>4 DEF OrdTaken
  <2>10. QED
    BY <1>2, <2>3, <2>8, <2>9, PointersStep
<1>9. QED
  BY <1>6, <1>7, <1>8 DEF FifoInv

LEMMA ReadTickStep ==
  ASSUME WithTopBit \/ AsTold, FifoInv, NEW ord \in BOOLEAN, ReadTick(ord)
  PROVE  FifoInv'
<1>1. /\ ~erred /\ Read(ord) /\ UNCHANGED wrvars
      /\ pending' = AfterShow /\ erred' = ounderflow'
  BY DEF ReadTick
<1>2. TypeOK /\ QuietInReset /\ PointersInOrder
  BY <1>1 DEF FifoInv
<1>3. AfterShow \in Seq(Data) /\ Len(AfterShow) = Unread
  BY <1>2, AfterShowLen
<1>4. /\ oaddr' = Advance(oaddr, ord)
      /\ oaddr_sent' \in {oaddr_sent, oaddr} /\ iaddr_seen' \in {iaddr_seen, iaddr_sent}
      /\ oreset' => /\ oaddr' = 0 /\ oaddr_sent' = 0 /\ iaddr_seen' = 0
                    /\ full_count' = 0 /\ ~ord
      /\ full_count' \in Ptr /\ oaddr_q' \in Slots /\ odata' \in Data
      /\ ord_q' = ord /\ ord_qq' = ord_q
      /\ ~ounderflow' => Kept(full_count)' + One(ord) <= Offered
  BY <1>1, ReadSide
<1>5. TypeOK'
  <2>1. oaddr' \in Ptr
    BY <1>2, <1>4, AdvanceInPtr DEF TypeOK
  <2>2. {iaddr', iaddr_sent', iaddr_seen', oaddr', oaddr_sent', oaddr_seen'} \subseteq Ptr
    BY <1>1, <1>2, <1>4, <2>1 DEF TypeOK, wrvars
  <2>3. ounderflow' \in BOOLEAN /\ oreset' \in BOOLEAN /\ erred' \in BOOLEAN
    BY <1>1, ReadFlags, Zenon
  <2>4. ioverflow' \in BOOLEAN /\ ireset' \in BOOLEAN
    BY <1>1, <1>2, Zenon DEF TypeOK, wrvars
  <2>5. ord_q' \in BOOLEAN /\ ord_qq' \in BOOLEAN
    BY <1>2, <1>4, Zenon DEF TypeOK
  <2>6. empty_count' \in Ptr /\ ram' \in [Slots -> Data]
    BY <1>1, <1>2 DEF TypeOK, wrvars
  <2>7. QED
    BY <1>1, <1>3, <1>4, <2>2, <2>3, <2>4, <2>5, <2>6 DEF TypeOK
<1>6. QuietInReset'
  BY <1>1, <1>2, <1>4 DEF QuietInReset, wrvars
<1>7. ASSUME ~erred' PROVE PointersInOrder'
  <2>1. ~ounderflow'
    BY <1>1, <1>7, Zenon
  <2>2. PICK none \in BOOLEAN : ~none /\ One(none) = 0
    BY DEF One
  <2>3. Moves(none, ord)
    BY <1>1, <1>4, <2>2 DEF Moves, wrvars, Advance
  <2>4. PICK w \in {0, 1}, r \in {0, 1}, u \in Nat, o \in Nat, n \in Nat :
          Before(none, ord, w, r, u, o, n) /\ w = 0
    BY <1>2, <2>2, BeforeExists DEF Before
  <2>5. PICK s \in {0, 1}, e \in Nat, f \in Nat, l \in Nat : After(s, e, f, l)
    BY <1>5, AfterExists
  <2>6. Fit(w, r, s, u, o, n, e, f, l)
    <3>1. e + u <= Depth
      BY <1>1, <1>2, <2>4, <2>5 DEF Before, After, PointersInOrder, Kept, Slot, wrvars
    <3>2. f + r <= o
      BY <1>4, <2>1, <2>4, <2>5 DEF Before, After
    <3>3. s = r /\ l = n
      BY <1>1, <1>3, <1>4, <2>4, <2>5 DEF Before, After, One
    <3>4. QED
      BY <2>4, <3>1, <3>2, <3>3 DEF Fit
  <2>7. EdgeFits(none, ord)
    <3>1. FitsAfter(w, r, u, o, n)
      BY <2>5, <2>6 DEF FitsAfter
    <3>2. QED
      BY <2>4, <3>1 DEF EdgeFits
  <2>8. OrdTaken(ord)
    BY <1>4, Zenon DEF OrdTaken
  <2>9. QED
    BY <1>2, <2>3, <2>7, <2>8, PointersStep
<1>8. QED
  BY <1>5, <1>6, <1>7 DEF FifoInv

LEMMA BothTickStep ==
  ASSUME WithTopBit \/ AsTold, FifoInv, NEW iwr \in BOOLEAN, NEW ord \in BOOLEAN, BothTick(iwr, ord)
  PROVE  FifoInv'
<1>1. PICK idata \in Data :
        /\ ~erred /\ Write(iwr, idata) /\ Read(ord)
        /\ pending' = IF iwr THEN Append(AfterShow, idata) ELSE AfterShow
        /\ erred' = (ioverflow' \/ ounderflow')
  BY DEF BothTick
<1>2. TypeOK /\ QuietInReset /\ PointersInOrder
  BY <1>1 DEF FifoInv
<1>3. /\ iaddr' = Advance(iaddr, iwr)
      /\ iaddr_sent' \in {iaddr_sent, iaddr} /\ oaddr_seen' \in {oaddr_seen, oaddr_sent}
      /\ ireset' => iaddr' = 0 /\ iaddr_sent' = 0 /\ oaddr_seen' = 0 /\ empty_count' = 0
      /\ empty_count' \in Ptr /\ ram' \in [Slots -> Data]
      /\ ~ioverflow' => Kept(empty_count)' + Used + One(iwr) <= Depth
  BY <1>1, WriteSide
<1>4. /\ oaddr' = Advance(oaddr, ord)
      /\ oaddr_sent' \in {oaddr_sent, oaddr} /\ iaddr_seen' \in {iaddr_seen, iaddr_sent}
      /\ oreset' => /\ oaddr' = 0 /\ oaddr_sent' = 0 /\ iaddr_seen' = 0
                    /\ full_count' = 0 /\ ~ord
      /\ full_count' \in Ptr /\ oaddr_q' \in Slots /\ odata' \in Data
      /\ ord_q' = ord /\ ord_qq' = ord_q
      /\ ~ounderflow' => Kept(full_count)' + One(ord) <= Offered
  BY <1>1, ReadSide
<1>5. pending' \in Seq(Data) /\ Len(pending') = Unread + One(iwr)
  <2>1. AfterShow \in Seq(Data) /\ Len(AfterShow) = Unread /\ Unread \in Nat
    BY <1>2, AfterShowLen
  <2>2. QED
    BY <1>1, <2>1 DEF One
<1>6. TypeOK'
  <2>1. iaddr' \in Ptr /\ oaddr' \in Ptr
    <3>1. iaddr' \in Ptr
      BY <1>2, <1>3, AdvanceInPtr DEF TypeOK
    <3>2. oaddr' \in Ptr
      BY <1>2, <1>4, AdvanceInPtr DEF TypeOK
    <3>3. QED
      BY <3>1, <3>2
  <2>2. {iaddr', iaddr_sent', iaddr_seen', oaddr', oaddr_sent', oaddr_seen'} \subseteq Ptr
    BY <1>2, <1>3, <1>4, <2>1 DEF TypeOK
  <2>3. /\ ioverflow' \in BOOLEAN /\ ireset' \in BOOLEAN
        /\ ounderflow' \in BOOLEAN /\ oreset' \in BOOLEAN
    BY <1>1, WriteFlags, ReadFlags
  <2>4. erred' \in BOOLEAN
    BY <1>1, Zenon
  <2>5. ord_q' \in BOOLEAN /\ ord_qq' \in BOOLEAN
    BY <1>2, <1>4, Zenon DEF TypeOK
  <2>6. QED
    BY <1>3, <1>4, <1>5, <2>2, <2>3, <2>4, <2>5 DEF TypeOK
<1>7. QuietInReset'
  BY <1>3, <1>4 DEF QuietInReset
<1>8. ASSUME ~erred' PROVE PointersInOrder'
  <2>1. ~ioverflow' /\ ~ounderflow'
    BY <1>1, <1>8, Zenon
  <2>2. Moves(iwr, ord)
    BY <1>3, <1>4 DEF Moves
  <2>3. PICK w \in {0, 1}, r \in {0, 1}, u \in Nat, o \in Nat, n \in Nat :
          Before(iwr, ord, w, r, u, o, n)
    BY <1>2, BeforeExists
  <2>4. PICK s \in {0, 1}, e \in Nat, f \in Nat, l \in Nat : After(s, e, f, l)
    BY <1>6, AfterExists
  <2>5. Fit(w, r, s, u, o, n, e, f, l)
    <3>1. e + u + w <= Depth
      BY <1>3, <2>1, <2>3, <2>4 DEF Before, After
    <3>2. f + r <= o
      BY <1>4, <2>1, <2>3, <2>4 DEF Before, After
    <3>3. s = r /\ l = n + w
      BY <1>4, <1>5, <2>3, <2>4 DEF Before, After, One
    <3>4. QED
      BY <3>1, <3>2, <3>3 DEF Fit
  <2>6. EdgeFits(iwr, ord)
    <3>1. FitsAfter(w, r, u, o, n)
      BY <2>4, <2>5 DEF FitsAfter
    <3>2. QED
      BY <2>3, <3>1 DEF EdgeFits
  <2>7. OrdTaken(ord)
    BY <1>4, Zenon DEF OrdTaken
  <2>8. QED
    BY <1>2, <2>2, <2>6, <2>7, PointersStep
<1>9. QED
  BY <1>6, <1>7, <1>8 DEF FifoInv

LEMMA FifoInvUnchanged == FifoInv /\ UNCHANGED vars => FifoInv'
  BY DEF FifoInv, TypeOK, QuietInReset, PointersInOrder, Used, Freed, Reading, Unread,
         Offered, Sent, Written, Kept, Slot, vars, wrvars, rdvars

LEMMA FifoInvStep == (WithTopBit \/ AsTold) /\ FifoInv /\ [Next]_vars => FifoInv'
<1> SUFFICES ASSUME WithTopBit \/ AsTold, FifoInv, [Next]_vars PROVE FifoInv'
  OBVIOUS
<1>1. ASSUME NEW iwr \in BOOLEAN, WriteTick(iwr) PROVE FifoInv'
  BY <1>1, WriteTickStep
<1>2. ASSUME NEW ord \in BOOLEAN, ReadTick(ord) PROVE FifoInv'
  BY <1>2, ReadTickStep
<1>3. ASSUME NEW iwr \in BOOLEAN, NEW ord \in BOOLEAN, BothTick(iwr, ord) PROVE FifoInv'
  BY <1>3, BothTickStep
<1>4. CASE Corrupted
  BY <1>4, FifoInvUnchanged DEF Corrupted
<1>5. CASE UNCHANGED vars
  BY <1>5, FifoInvUnchanged
<1>6. QED
  BY <1>1, <1>2, <1>3, <1>4, <1>5 DEF Next

\* The six copies of the two pointers stay in order on an arc no longer than the RAM, for
\* every depth, until the first error is flagged: with the extra pointer bit whatever the
\* users do, as built as long as each keeps to what has reached its side.
THEOREM FifoInvariant == Spec /\ [][WithTopBit \/ AsTold]_vars => []FifoInv
<1>1. FifoInv /\ [Next]_vars /\ [WithTopBit \/ AsTold]_vars => FifoInv'
  BY FifoInvStep, FifoInvUnchanged, Zenon
<1>2. QED
  BY <1>1, InitFifoInv, PTL DEF Spec

\* simple_fifo.sv:22-23 and :37-38, for every depth, under the same condition: until an
\* error is flagged the counts, as built their bits below the top one, never promise more
\* than there is, although each side counts with an old copy of the other's pointer.
THEOREM CountsNeverLie == Spec /\ [][WithTopBit \/ AsTold]_vars => []CountsArePromises
<1>1. FifoInv => CountsArePromises
  <2> SUFFICES ASSUME FifoInv, ~erred
               PROVE  /\ Kept(empty_count) + Len(pending) <= Depth
                      /\ Kept(full_count) + One(ord_q) <= Len(pending)
    BY DEF CountsArePromises
  <2>1. TypeOK /\ PointersInOrder
    BY DEF FifoInv
  <2>2. PICK w \in {0, 1} : w = One(ord_q)
    BY DEF One
  <2>3. PICK e \in Nat, f \in Nat : e = Kept(empty_count) /\ f = Kept(full_count)
    <3>1. empty_count \in Ptr /\ full_count \in Ptr
      BY <2>1 DEF TypeOK
    <3>2. Kept(empty_count) \in Nat /\ Kept(full_count) \in Nat
      BY <3>1, KeptInPtr DEF Ptr
    <3>3. QED
      BY <3>2
  <2>4. GapsFit
    BY <2>1, Positions
  <2>5. Len(pending) = w + Unread /\ w <= Reading
    BY <2>1, <2>2 DEF PointersInOrder
  <2>6. e + Used <= Depth /\ f <= Offered
    BY <2>1, <2>3 DEF PointersInOrder
  <2>7. e + Len(pending) <= Depth
    BY <2>4, <2>5, <2>6 DEF Used, Unread, GapsFit
  <2>8. f + One(ord_q) <= Len(pending)
    BY <2>2, <2>4, <2>5, <2>6 DEF Unread, GapsFit
  <2>9. QED
    BY <2>3, <2>7, <2>8
<1>2. QED
  BY <1>1, FifoInvariant, PTL

(***************************************************************************)
(* Until its first error the FIFO is a queue: the words written and not    *)
(* shown yet lie one behind the other in the RAM.                          *)
(***************************************************************************)

-----------------------------------------------------------------------------
(* The RAM as a ring                                                       *)

\* The slot k words after slot b.
Past(b, k) == IF b + k < Depth THEN b + k ELSE b + k - Depth

\* The words s lie in the memory r one after the other, the first in slot b.
Held(r, b, s) == \A j \in 1..Len(s) : r[Past(b, j - 1)] = s[j]

\* A pointer that moves on moves its slot on.
LEMMA SlotAt ==
  ASSUME NEW p \in Ptr, NEW k \in 0..Depth
  PROVE  Slot(p) \in Slots /\ Slot(At(p, k)) = Past(Slot(p), k)
  BY DEF Slot, At, Past, Ptr, Slots

LEMMA PastPast ==
  ASSUME NEW b \in Slots, NEW j \in 0..Depth, NEW k \in 0..Depth, j + k <= Depth
  PROVE  Past(b, j) \in Slots /\ Past(Past(b, j), k) = Past(b, j + k)
  BY DEF Past, Slots

\* Fewer than Depth words apart, two slots are never the same.
LEMMA PastApart ==
  ASSUME NEW b \in Slots, NEW j \in 0..Depth, NEW k \in 0..Depth, j < k, k - j < Depth
  PROVE  Past(b, j) # Past(b, k)
  BY DEF Past, Slots

\* What is left when the first word is taken.
LEMMA DropFirst ==
  ASSUME NEW r \in [Slots -> Data], NEW b \in Slots, NEW s \in Seq(Data),
         s # <<>>, Len(s) <= Depth, Held(r, b, s)
  PROVE  r[b] = Head(s) /\ Held(r, Past(b, 1), Tail(s))
<1>1. /\ Tail(s) \in Seq(Data) /\ Len(Tail(s)) = Len(s) - 1 /\ Len(s) \in Nat /\ Len(s) >= 1
      /\ \A i \in 1..Len(Tail(s)) : Tail(s)[i] = s[i + 1]
  <2>1. /\ Tail(s) \in Seq(Data) /\ Len(Tail(s)) = Len(s) - 1
        /\ \A i \in 1..Len(Tail(s)) : Tail(s)[i] = s[i + 1]
    BY HeadTailProperties
  <2>2. Len(Tail(s)) \in Nat /\ Len(s) \in Nat
    BY <2>1, LenProperties
  <2>3. QED
    BY <2>1, <2>2
<1>2. r[b] = Head(s)
  <2>1. r[Past(b, 0)] = s[1]
    BY <1>1 DEF Held
  <2>2. Past(b, 0) = b
    BY DEF Past, Slots
  <2>3. QED
    BY <2>1, <2>2
<1>3. ASSUME NEW j \in 1..Len(Tail(s)) PROVE r[Past(Past(b, 1), j - 1)] = Tail(s)[j]
  <2>1. j \in Nat /\ j >= 1 /\ j + 1 <= Len(s) /\ j <= Depth
    BY <1>1
  <2>2. Past(Past(b, 1), j - 1) = Past(b, j)
    BY <2>1, PastPast
  <2>3. r[Past(b, (j + 1) - 1)] = s[j + 1]
    BY <2>1, <1>1 DEF Held
  <2>4. (j + 1) - 1 = j
    BY <2>1
  <2>5. QED
    BY <1>1, <2>2, <2>3, <2>4
<1>4. QED
  BY <1>2, <1>3 DEF Held

\* A word written behind the last one leaves the others alone.
LEMMA AddLast ==
  ASSUME NEW r \in [Slots -> Data], NEW b \in Slots, NEW s \in Seq(Data), NEW w \in Data,
         Len(s) < Depth, Held(r, b, s)
  PROVE  Held([r EXCEPT ![Past(b, Len(s))] = w], b, Append(s, w))
<1> DEFINE r2 == [r EXCEPT ![Past(b, Len(s))] = w]
           s2 == Append(s, w)
<1>1. /\ Len(s) \in Nat /\ Len(s2) = Len(s) + 1
      /\ \A i \in 1..Len(s) : s2[i] = s[i]
      /\ s2[Len(s) + 1] = w
  BY LenProperties, AppendProperties
<1>2. Past(b, Len(s)) \in Slots
  BY <1>1, PastPast
<1>3. r2[Past(b, Len(s))] = w
  BY <1>2
<1>4. ASSUME NEW i \in 1..Len(s) PROVE r2[Past(b, i - 1)] = s2[i]
  <2>2. i - 1 \in 0..Depth /\ Len(s) \in 0..Depth /\ i - 1 < Len(s) /\ Len(s) - (i - 1) < Depth
    BY <1>1
  <2>3. Past(b, i - 1) # Past(b, Len(s)) /\ Past(b, i - 1) \in Slots
    BY <2>2, PastApart, PastPast
  <2>4. r[Past(b, i - 1)] = s[i]
    BY DEF Held
  <2>5. QED
    BY <1>1, <2>3, <2>4
<1> HIDE DEF r2, s2
<1>5. ASSUME NEW j \in 1..Len(s2) PROVE r2[Past(b, j - 1)] = s2[j]
  <2>1. CASE j \in 1..Len(s)
    BY <2>1, <1>4
  <2>2. CASE j = Len(s) + 1
    <3>1. j - 1 = Len(s)
      BY <1>1, <2>2
    <3>2. QED
      BY <1>1, <1>3, <2>2, <3>1
  <2>3. QED
    BY <1>1, <2>1, <2>2
<1>6. QED
  BY <1>5 DEF Held, r2, s2

-----------------------------------------------------------------------------
(* The words in the RAM, whatever the counts say of them                   *)

\* Where the oldest word that is not shown lies.
FirstSlot == IF ord_q THEN oaddr_q ELSE Slot(oaddr)

\* The words not shown yet lie in the RAM from there on, and the read pointer is just
\* behind the one word that is on its way out, if there is one.
WordsInPlace ==
  /\ Held(ram, FirstSlot, pending)
  /\ Slot(oaddr) = Past(FirstSlot, One(ord_q))

\* The words between the two pointers, none of them read.
InRam == Diff(iaddr, oaddr)

WordsCounted ==
  /\ Len(pending) = One(ord_q) + InRam
  /\ Len(pending) <= Depth

PathTyped ==
  /\ iaddr \in Ptr /\ oaddr \in Ptr /\ oaddr_q \in Slots
  /\ ram \in [Slots -> Data] /\ pending \in Seq(Data)
  /\ ord_q \in BOOLEAN /\ erred \in BOOLEAN
  /\ ireset => iaddr = 0
  /\ oreset => oaddr = 0

PathInv == PathTyped /\ (~erred => WordsCounted /\ WordsInPlace)

LEMMA InitWordsInPlace == Init => WordsInPlace
<1> SUFFICES ASSUME Init PROVE WordsInPlace
  OBVIOUS
<1>1. oaddr = 0 /\ pending = <<>>
  BY Zenon DEF Init
<1>2. ~ord_q
  BY Zenon DEF Init
<1>3. FirstSlot = 0 /\ Slot(oaddr) = 0 /\ One(ord_q) = 0
  BY <1>1, <1>2 DEF FirstSlot, Slot, One
<1>4. Held(ram, FirstSlot, pending)
  <2>1. Len(pending) = 0
    BY <1>1
  <2>2. QED
    BY <2>1 DEF Held
<1>5. Slot(oaddr) = Past(FirstSlot, One(ord_q))
  BY <1>3 DEF Past
<1>6. QED
  BY <1>4, <1>5 DEF WordsInPlace

\* What FifoInv says includes what the words need.
LEMMA FifoInvCounts ==
  ASSUME FifoInv
  PROVE  PathTyped /\ (~erred => WordsCounted /\ Len(pending) <= Used /\ Used \in 0..Depth)
<1>1. TypeOK /\ QuietInReset
  BY DEF FifoInv
<1>2. PathTyped
  BY <1>1 DEF PathTyped, TypeOK, QuietInReset
<1>3. ASSUME ~erred
      PROVE  WordsCounted /\ Len(pending) <= Used /\ Used \in 0..Depth
  <2>1. PointersInOrder
    BY <1>3 DEF FifoInv
  <2>2. GapsFit /\ Used \in 0..Depth /\ oaddr_seen \in Ptr
    BY <1>1, <2>1, Positions DEF TypeOK
  <2>3. One(ord_q) \in {0, 1} /\ One(ord_q) <= Reading /\ Len(pending) = One(ord_q) + Unread
    BY <2>1 DEF PointersInOrder, One
  <2>4. Unread \in 0..Depth /\ One(ord_q) + Unread <= Used
    BY <2>2, <2>3 DEF GapsFit, Used, Unread
  <2>5. InRam = Unread
    <3>1. oaddr = At(oaddr_seen, Freed + Reading) /\ iaddr = At(oaddr_seen, Used)
      BY <1>1, <2>1, Positions
    <3>2. /\ Freed + Reading \in 0..Depth /\ Used \in Freed + Reading .. Depth
          /\ Used - (Freed + Reading) = Unread
      BY <2>2 DEF GapsFit, Used, Unread
    <3>3. QED
      BY <2>2, <3>1, <3>2, DiffAt DEF InRam
  <2>6. QED
    BY <2>2, <2>3, <2>4, <2>5 DEF WordsCounted
<1>4. QED
  BY <1>2, <1>3

\* The next slot to write is the one behind the last word.
LEMMA Spaces ==
  ASSUME PathTyped, WordsCounted, WordsInPlace
  PROVE  /\ FirstSlot \in Slots /\ Slot(oaddr) \in Slots
         /\ ram \in [Slots -> Data] /\ pending \in Seq(Data) /\ Len(pending) \in 0..Depth
         /\ InRam \in 0..Depth /\ Len(pending) = One(ord_q) + InRam
         /\ Slot(iaddr) = Past(Slot(oaddr), InRam)
         /\ Slot(iaddr) = Past(FirstSlot, Len(pending))
<1>1. /\ iaddr \in Ptr /\ oaddr \in Ptr /\ oaddr_q \in Slots
      /\ ram \in [Slots -> Data] /\ pending \in Seq(Data)
  BY DEF PathTyped
<1>2. Slot(oaddr) \in Slots /\ FirstSlot \in Slots
  BY <1>1 DEF FirstSlot, Slot, Slots, Ptr
<1>3. PICK n \in {0, 1} : n = One(ord_q)
  BY DEF One
<1>4. PICK u \in Ptr : u = InRam /\ At(oaddr, u) = iaddr
  BY <1>1, AtDiff DEF InRam
<1>5. Len(pending) = n + u /\ n + u <= Depth /\ u \in 0..Depth /\ n + u \in 0..Depth
  BY <1>3, <1>4 DEF WordsCounted, Ptr
<1>6. Slot(iaddr) = Past(Slot(oaddr), u)
  BY <1>1, <1>4, <1>5, SlotAt
<1>7. Past(Slot(oaddr), u) = Past(FirstSlot, n + u)
  <2>1. Slot(oaddr) = Past(FirstSlot, n)
    BY <1>3 DEF WordsInPlace
  <2>2. n \in 0..Depth
    BY <1>3
  <2>3. QED
    BY <1>2, <1>5, <2>1, <2>2, PastPast
<1>8. QED
  BY <1>1, <1>2, <1>3, <1>4, <1>5, <1>6, <1>7

LEMMA GapAfter ==
  ASSUME NEW i \in Ptr, NEW o \in Ptr, NEW w \in BOOLEAN, NEW r \in BOOLEAN,
         Diff(i, o) <= Depth, w => Diff(i, o) < Depth, r => Diff(i, o) > 0
  PROVE  Diff(Advance(i, w), Advance(o, r)) = Diff(i, o) + One(w) - One(r)
  BY DEF Diff, Advance, One, Ptr

-----------------------------------------------------------------------------
(* One edge, and what it does to the words                                 *)

LEMMA WriteMovesOn ==
  ASSUME PathTyped, NEW iwr \in BOOLEAN, NEW idata \in Data, Write(iwr, idata)
  PROVE  /\ iaddr' = Advance(iaddr, iwr) /\ iaddr' \in Ptr
         /\ iwr => iaddr' # iaddr /\ ram' = [ram EXCEPT ![Slot(iaddr)] = idata]
         /\ ~iwr => ram' = ram
         /\ ram' \in [Slots -> Data]
         /\ ireset' => iaddr' = 0
<1>1. iaddr \in Ptr /\ ram \in [Slots -> Data]
  BY DEF PathTyped
<1>2. iaddr' = Advance(iaddr, iwr) /\ (ireset' => iaddr' = 0)
  <2>1. CASE ireset
    <3>1. iaddr = 0 /\ iaddr' = 0 /\ ~iwr
      BY <2>1 DEF PathTyped, Write, WriteEdge, WriteCounters
    <3>2. QED
      BY <3>1 DEF Advance
  <2>2. CASE ~ireset
    <3>1. iaddr' = Advance(iaddr, iwr) /\ ~ireset'
      BY <2>2, WriteFlags DEF Write, WriteEdge, WriteCounters
    <3>2. QED
      BY <3>1
  <2>3. QED
    BY <2>1, <2>2
<1>3. iaddr' \in Ptr /\ (iwr => iaddr' # iaddr)
  BY <1>1, <1>2, AdvanceInPtr
<1>4. (iwr => ram' = [ram EXCEPT ![Slot(iaddr)] = idata]) /\ (~iwr => ram' = ram)
  BY Zenon DEF Write, WriteEdge, RamWrite
<1>5. ram' \in [Slots -> Data]
  BY <1>1, <1>4 DEF Slot, Slots, Ptr
<1>6. QED
  BY <1>2, <1>3, <1>4, <1>5

LEMMA ReadMovesOn ==
  ASSUME PathTyped, NEW ord \in BOOLEAN, Read(ord)
  PROVE  /\ oaddr' = Advance(oaddr, ord) /\ oaddr' \in Ptr
         /\ ord => oaddr' # oaddr
         /\ oreset' => oaddr' = 0
         /\ oaddr_q' = Slot(oaddr) /\ oaddr_q' \in Slots /\ odata' = ram[oaddr_q]
         /\ ord_q' = ord /\ ord_qq' = ord_q
<1>1. oaddr \in Ptr
  BY DEF PathTyped
<1>2. oaddr' = Advance(oaddr, ord) /\ (oreset' => oaddr' = 0)
  <2>1. CASE oreset
    <3>1. oaddr = 0 /\ oaddr' = 0 /\ ~ord
      BY <2>1 DEF PathTyped, Read, ReadEdge, ReadCounters
    <3>2. QED
      BY <3>1 DEF Advance
  <2>2. CASE ~oreset
    <3>1. oaddr' = Advance(oaddr, ord) /\ ~oreset'
      BY <2>2, ReadFlags DEF Read, ReadEdge, ReadCounters
    <3>2. QED
      BY <3>1
  <2>3. QED
    BY <2>1, <2>2
<1>3. oaddr' \in Ptr /\ (ord => oaddr' # oaddr)
  BY <1>1, <1>2, AdvanceInPtr
<1>4. oaddr_q' = Slot(oaddr) /\ odata' = ram[oaddr_q] /\ ord_q' = ord /\ ord_qq' = ord_q
  BY DEF Read, ReadEdge, RamRead
<1>5. Slot(oaddr) \in Slots
  BY <1>1 DEF Slot, Slots, Ptr
<1>6. QED
  BY <1>2, <1>3, <1>4, <1>5

\* The words an edge of the read side does not show.
LEMMA AfterShowFits ==
  ASSUME PathTyped, WordsCounted
  PROVE  AfterShow \in Seq(Data) /\ Len(AfterShow) = InRam /\ (ord_q => pending # <<>>)
<1>1. pending \in Seq(Data) /\ Len(pending) = One(ord_q) + InRam
  BY DEF PathTyped, WordsCounted
<1>2. InRam \in Nat
  <2>1. InRam \in Ptr
    BY AtDiff DEF PathTyped, InRam
  <2>2. QED
    BY <2>1 DEF Ptr
<1>3. CASE ord_q
  <2>1. One(ord_q) = 1
    BY <1>3 DEF One
  <2>2. Len(pending) >= 1 /\ pending # <<>>
    BY <1>1, <1>2, <2>1
  <2>3. Tail(pending) \in Seq(Data) /\ Len(Tail(pending)) = Len(pending) - 1
    BY <1>1, <2>2, HeadTailProperties
  <2>4. AfterShow = Tail(pending)
    BY <1>3, Zenon DEF AfterShow
  <2>5. QED
    BY <1>1, <1>2, <2>1, <2>2, <2>3, <2>4
<1>4. CASE ~ord_q
  <2>1. AfterShow = pending /\ One(ord_q) = 0
    BY <1>4, Zenon DEF AfterShow, One
  <2>2. QED
    BY <1>1, <1>2, <1>4, <2>1
<1>5. QED
  BY <1>3, <1>4

\* What a read edge makes of the words: those it does not show stay where they are,
\* and the one it shows is the oldest.
LEMMA ReadKeepsWords ==
  ASSUME PathTyped, WordsCounted, WordsInPlace, NEW ord \in BOOLEAN, Read(ord)
  PROVE  /\ FirstSlot' = Slot(oaddr)
         /\ Slot(oaddr') = Past(Slot(oaddr), One(ord))
         /\ Held(ram, Slot(oaddr), AfterShow)
         /\ ord_q => pending # <<>> /\ odata' = Head(pending) /\ AfterShow = Tail(pending)
         /\ ~ord_q => AfterShow = pending
<1>1. oaddr \in Ptr
  BY DEF PathTyped
<1>2. /\ oaddr' = Advance(oaddr, ord) /\ ord_q' = ord
      /\ oaddr_q' = Slot(oaddr) /\ odata' = ram[oaddr_q]
  BY ReadMovesOn
<1>3. FirstSlot' = Slot(oaddr)
  <2>1. CASE ord
    <3>1. FirstSlot' = oaddr_q'
      BY <1>2, <2>1, Zenon DEF FirstSlot
    <3>2. QED
      BY <1>2, <3>1
  <2>2. CASE ~ord
    <3>1. FirstSlot' = Slot(oaddr')
      BY <1>2, <2>2, Zenon DEF FirstSlot
    <3>2. oaddr' = oaddr
      BY <1>2, <2>2 DEF Advance
    <3>3. QED
      BY <3>1, <3>2
  <2>3. QED
    BY <2>1, <2>2
<1>4. Slot(oaddr') = Past(Slot(oaddr), One(ord))
  <2>1. oaddr = At(oaddr, 0)
    BY <1>1 DEF At, Ptr
  <2>2. One(ord) \in {0, 1}
    BY DEF One
  <2>3. Advance(oaddr, ord) = At(oaddr, One(ord))
    BY <1>1, <2>1, <2>2, AdvanceAt
  <2>4. QED
    BY <1>1, <1>2, <2>2, <2>3, SlotAt
<1>5. ASSUME ord_q
      PROVE  /\ pending # <<>> /\ odata' = Head(pending) /\ AfterShow = Tail(pending)
             /\ Held(ram, Slot(oaddr), AfterShow)
  <2>1. FirstSlot = oaddr_q /\ AfterShow = Tail(pending) /\ One(ord_q) = 1
    BY <1>5, Zenon DEF FirstSlot, AfterShow, One
  <2>2. /\ pending # <<>> /\ Len(pending) \in 0..Depth
        /\ FirstSlot \in Slots /\ ram \in [Slots -> Data] /\ pending \in Seq(Data)
    BY <1>5, AfterShowFits, Spaces
  <2>3. Held(ram, FirstSlot, pending) /\ Slot(oaddr) = Past(FirstSlot, 1)
    BY <2>1 DEF WordsInPlace
  <2>4. ram[FirstSlot] = Head(pending) /\ Held(ram, Past(FirstSlot, 1), Tail(pending))
    BY <2>2, <2>3, DropFirst
  <2>5. QED
    BY <1>2, <2>1, <2>2, <2>3, <2>4
<1>6. ASSUME ~ord_q
      PROVE  AfterShow = pending /\ Held(ram, Slot(oaddr), AfterShow)
  <2>1. FirstSlot = Slot(oaddr) /\ AfterShow = pending
    BY <1>6, Zenon DEF FirstSlot, AfterShow
  <2>2. QED
    BY <2>1 DEF WordsInPlace
<1>7. QED
  BY <1>3, <1>4, <1>5, <1>6

\* The number of words after an edge: ord_q takes ord, if the read side has one.
LEMMA CountedAfter ==
  ASSUME PathTyped, WordsCounted, NEW iwr \in BOOLEAN, NEW ord \in BOOLEAN,
         iaddr' = Advance(iaddr, iwr), oaddr' = Advance(oaddr, ord),
         iwr => Len(pending) < Depth, ord => One(ord_q) < Len(pending),
         NEW n \in Nat, Len(pending') = n, n <= Depth,
         n + One(ord) = One(ord_q)' + InRam + One(iwr)
  PROVE  WordsCounted'
<1>1. iaddr \in Ptr /\ oaddr \in Ptr
  BY DEF PathTyped
<1>2. PICK u \in Ptr : u = Diff(iaddr, oaddr)
  BY <1>1, AtDiff
<1>3. PICK q \in {0, 1} : q = One(ord_q)
  BY DEF One
<1>4. Len(pending) = q + u /\ q + u <= Depth
  BY <1>2, <1>3 DEF WordsCounted, InRam
<1>5. (iwr => u < Depth) /\ (ord => u > 0) /\ u <= Depth
  BY <1>3, <1>4 DEF Ptr
<1>6. Diff(iaddr', oaddr') = u + One(iwr) - One(ord)
  BY <1>1, <1>2, <1>5, GapAfter
<1>7. PICK s \in {0, 1}, w \in {0, 1}, r \in {0, 1} :
        s = One(ord_q)' /\ w = One(iwr) /\ r = One(ord)
  BY DEF One
<1>8. n + r = s + u + w /\ InRam' = u + w - r
  BY <1>2, <1>6, <1>7 DEF InRam
<1>9. n = s + (u + w - r)
  BY <1>8 DEF Ptr
<1>10. QED
  BY <1>7, <1>8, <1>9 DEF WordsCounted

LEMMA WriteKeepsWords ==
  ASSUME PathTyped, WordsCounted, WordsInPlace, Fits, NEW iwr \in BOOLEAN,
         ~erred, ~erred', WriteTick(iwr)
  PROVE  WordsCounted' /\ WordsInPlace' /\ [Queue!Next]_(Queue!qvars)
<1>1. PICK idata \in Data :
        /\ Write(iwr, idata) /\ UNCHANGED rdvars
        /\ pending' = IF iwr THEN Append(pending, idata) ELSE pending
        /\ erred' = ioverflow'
  BY DEF WriteTick
<1>2. /\ oaddr' = oaddr /\ oaddr_q' = oaddr_q /\ ord_q' = ord_q /\ ord_qq' = ord_qq
      /\ odata' = odata
  BY <1>1, Zenon DEF rdvars
<1>3. FirstSlot' = FirstSlot /\ Slot(oaddr)' = Slot(oaddr) /\ One(ord_q)' = One(ord_q)
  BY <1>2 DEF FirstSlot, Slot, One
<1>4. Held(ram, FirstSlot, pending) /\ Slot(oaddr) = Past(FirstSlot, One(ord_q))
  BY DEF WordsInPlace
<1>5. /\ FirstSlot \in Slots /\ ram \in [Slots -> Data] /\ pending \in Seq(Data)
      /\ Slot(iaddr) = Past(FirstSlot, Len(pending))
      /\ Len(pending) \in 0..Depth /\ Len(pending) = One(ord_q) + InRam /\ InRam \in 0..Depth
  BY Spaces
<1>6. /\ iaddr' = Advance(iaddr, iwr)
      /\ iwr => iaddr' # iaddr /\ ram' = [ram EXCEPT ![Slot(iaddr)] = idata]
      /\ ~iwr => ram' = ram
  BY <1>1, WriteMovesOn
<1>7. iwr => Len(pending) < Depth
  BY <1>6 DEF Fits
<1>8. WordsCounted'
  <2>1. PICK none \in BOOLEAN : ~none /\ One(none) = 0 /\ oaddr' = Advance(oaddr, none)
    BY <1>2 DEF One, Advance
  <2>2. Len(pending') = Len(pending) + One(iwr) /\ One(iwr) \in {0, 1}
    BY <1>1, <1>5 DEF One
  <2>3. PICK n \in Nat : n = Len(pending) + One(iwr) /\ n <= Depth
    BY <1>5, <1>7, <2>2 DEF One
  <2>4. n + One(none) = One(ord_q)' + InRam + One(iwr)
    BY <1>3, <1>5, <2>1, <2>2, <2>3
  <2>5. QED
    BY <1>6, <1>7, <2>1, <2>2, <2>3, <2>4, CountedAfter
<1>9. CASE iwr
  <2>1. Len(pending) < Depth /\ ram' = [ram EXCEPT ![Slot(iaddr)] = idata]
        /\ pending' = Append(pending, idata)
    BY <1>1, <1>6, <1>7, <1>9
  <2>2. Held([ram EXCEPT ![Slot(iaddr)] = idata], FirstSlot, Append(pending, idata))
    BY <1>4, <1>5, <2>1, AddLast
  <2>3. Held(ram', FirstSlot', pending')
    BY <1>3, <2>1, <2>2
  <2>4. WordsInPlace'
    BY <1>3, <1>4, <2>3 DEF WordsInPlace
  <2>5. Queue!Put(idata)
    BY <1>2, <2>1 DEF Queue!Put
  <2>6. QED
    BY <1>8, <2>4, <2>5 DEF Queue!Next
<1>10. CASE ~iwr
  <2>1. ram' = ram /\ pending' = pending
    BY <1>1, <1>6, <1>10
  <2>2. WordsInPlace'
    BY <1>3, <1>4, <2>1 DEF WordsInPlace
  <2>3. erred' = erred
    <3>1. erred' \in BOOLEAN /\ erred \in BOOLEAN
      BY <1>1, WriteFlags DEF PathTyped
    <3>2. QED
      BY <3>1, Zenon
  <2>4. UNCHANGED Queue!qvars
    BY <1>2, <2>1, <2>3 DEF Queue!qvars
  <2>5. QED
    BY <1>8, <2>2, <2>4
<1>11. QED
  BY <1>9, <1>10

LEMMA ReadKeepsQueue ==
  ASSUME PathTyped, WordsCounted, WordsInPlace, Fits, NEW ord \in BOOLEAN,
         ~erred, ~erred', ReadTick(ord)
  PROVE  WordsCounted' /\ WordsInPlace' /\ Queue!Next
<1>1. Read(ord) /\ UNCHANGED wrvars /\ pending' = AfterShow
  BY DEF ReadTick
<1>2. ram' = ram /\ iaddr' = iaddr
  BY <1>1 DEF wrvars
<1>3. /\ FirstSlot' = Slot(oaddr) /\ Slot(oaddr') = Past(Slot(oaddr), One(ord))
      /\ Held(ram, Slot(oaddr), AfterShow)
      /\ ord_q => pending # <<>> /\ odata' = Head(pending) /\ AfterShow = Tail(pending)
      /\ ~ord_q => AfterShow = pending
  BY <1>1, ReadKeepsWords
<1>4. /\ oaddr' = Advance(oaddr, ord) /\ ord_q' = ord /\ ord_qq' = ord_q
      /\ ord => oaddr' # oaddr
  BY <1>1, ReadMovesOn
<1>5. WordsInPlace'
  <2>1. Held(ram', FirstSlot', pending')
    BY <1>1, <1>2, <1>3
  <2>2. Slot(oaddr') = Past(FirstSlot', One(ord_q'))
    BY <1>3, <1>4
  <2>3. QED
    BY <2>1, <2>2 DEF WordsInPlace
<1>6. WordsCounted'
  <2>1. PICK none \in BOOLEAN : ~none /\ One(none) = 0 /\ iaddr' = Advance(iaddr, none)
    BY <1>2 DEF One, Advance
  <2>2. ord => One(ord_q) < Len(pending)
    BY <1>4 DEF Fits
  <2>3. Len(AfterShow) = InRam /\ InRam \in 0..Depth
    BY AfterShowFits, Spaces
  <2>4. PICK n \in Nat : n = InRam /\ n <= Depth /\ Len(pending') = n
    BY <1>1, <2>3
  <2>5. One(ord_q)' = One(ord) /\ One(ord) \in {0, 1}
    BY <1>4 DEF One
  <2>6. n + One(ord) = One(ord_q)' + InRam + One(none)
    BY <2>1, <2>4, <2>5
  <2>7. QED
    BY <1>4, <2>1, <2>2, <2>4, <2>6, CountedAfter
<1>7. Queue!Show
  <2>1. CASE ord_q
    BY <1>1, <1>3, <1>4, <2>1 DEF Queue!Show
  <2>2. CASE ~ord_q
    BY <1>1, <1>3, <1>4, <2>2 DEF Queue!Show
  <2>3. QED
    BY <2>1, <2>2
<1>8. QED
  BY <1>5, <1>6, <1>7 DEF Queue!Next

LEMMA BothKeepQueue ==
  ASSUME PathTyped, WordsCounted, WordsInPlace, Fits,
         NEW iwr \in BOOLEAN, NEW ord \in BOOLEAN, ~erred, ~erred', BothTick(iwr, ord)
  PROVE  WordsCounted' /\ WordsInPlace' /\ Queue!Next
<1>1. PICK idata \in Data :
        /\ Write(iwr, idata) /\ Read(ord)
        /\ pending' = IF iwr THEN Append(AfterShow, idata) ELSE AfterShow
  BY DEF BothTick
<1>2. /\ FirstSlot' = Slot(oaddr) /\ Slot(oaddr') = Past(Slot(oaddr), One(ord))
      /\ Held(ram, Slot(oaddr), AfterShow)
      /\ ord_q => pending # <<>> /\ odata' = Head(pending) /\ AfterShow = Tail(pending)
      /\ ~ord_q => AfterShow = pending
  BY <1>1, ReadKeepsWords
<1>3. /\ oaddr' = Advance(oaddr, ord) /\ ord_q' = ord /\ ord_qq' = ord_q
      /\ ord => oaddr' # oaddr
  BY <1>1, ReadMovesOn
<1>4. /\ iaddr' = Advance(iaddr, iwr)
      /\ iwr => iaddr' # iaddr /\ ram' = [ram EXCEPT ![Slot(iaddr)] = idata]
      /\ ~iwr => ram' = ram
  BY <1>1, WriteMovesOn
<1>5. (iwr => Len(pending) < Depth) /\ (ord => One(ord_q) < Len(pending))
  BY <1>3, <1>4 DEF Fits
<1>6. /\ Slot(oaddr) \in Slots /\ ram \in [Slots -> Data] /\ InRam \in 0..Depth
      /\ Slot(iaddr) = Past(Slot(oaddr), InRam)
      /\ Len(pending) = One(ord_q) + InRam /\ Len(pending) \in 0..Depth
  BY Spaces
<1>7. AfterShow \in Seq(Data) /\ Len(AfterShow) = InRam
  BY AfterShowFits
<1>8. One(ord_q) \in {0, 1} /\ One(iwr) \in {0, 1} /\ One(ord) \in {0, 1}
  BY DEF One
<1>9. iwr => Len(AfterShow) < Depth
  BY <1>5, <1>6, <1>7, <1>8
<1>10. Slot(oaddr') = Past(FirstSlot', One(ord_q'))
  BY <1>2, <1>3
<1>11. WordsCounted'
  <2>1. PICK n \in Nat : n = InRam + One(iwr) /\ n <= Depth /\ Len(pending') = n
    BY <1>1, <1>6, <1>7, <1>8, <1>9 DEF One
  <2>2. One(ord_q)' = One(ord)
    BY <1>3 DEF One
  <2>3. n + One(ord) = One(ord_q)' + InRam + One(iwr)
    BY <1>6, <1>8, <2>1, <2>2
  <2>4. QED
    BY <1>3, <1>4, <1>5, <2>1, <2>3, CountedAfter
<1>12. CASE iwr
  <2>1. Len(pending) < Depth /\ ram' = [ram EXCEPT ![Slot(iaddr)] = idata]
        /\ pending' = Append(AfterShow, idata)
    BY <1>1, <1>4, <1>5, <1>12
  <2>2. Held([ram EXCEPT ![Slot(iaddr)] = idata], Slot(oaddr), Append(AfterShow, idata))
    BY <1>2, <1>6, <1>7, <1>9, <1>12, AddLast
  <2>3. Held(ram', FirstSlot', pending')
    BY <1>2, <2>1, <2>2
  <2>4. WordsInPlace'
    BY <1>10, <2>3 DEF WordsInPlace
  <2>5. Queue!PutAndShow(idata)
    <3>1. CASE ord_q
      BY <1>2, <1>3, <2>1, <3>1 DEF Queue!PutAndShow
    <3>2. CASE ~ord_q
      BY <1>2, <1>3, <2>1, <3>2 DEF Queue!PutAndShow
    <3>3. QED
      BY <3>1, <3>2
  <2>6. QED
    BY <1>11, <2>4, <2>5 DEF Queue!Next
<1>13. CASE ~iwr
  <2>1. ram' = ram /\ pending' = AfterShow
    BY <1>1, <1>4, <1>13
  <2>2. Held(ram', FirstSlot', pending')
    BY <1>2, <2>1
  <2>3. WordsInPlace'
    BY <1>10, <2>2 DEF WordsInPlace
  <2>4. Queue!Show
    <3>1. CASE ord_q
      BY <1>2, <1>3, <2>1, <3>1 DEF Queue!Show
    <3>2. CASE ~ord_q
      BY <1>2, <1>3, <2>1, <3>2 DEF Queue!Show
    <3>3. QED
      BY <3>1, <3>2
  <2>5. QED
    BY <1>11, <2>3, <2>4 DEF Queue!Next
<1>14. QED
  BY <1>12, <1>13

-----------------------------------------------------------------------------
(* The refinement                                                          *)

\* An edge without an error is one of the queue.
LEMMA WordsStep ==
  ASSUME PathTyped, WordsCounted, WordsInPlace, Fits, ~erred, ~erred', Next
  PROVE  WordsCounted' /\ WordsInPlace' /\ [Queue!Next]_(Queue!qvars)
<1>1. ASSUME NEW iwr \in BOOLEAN, WriteTick(iwr)
      PROVE  WordsCounted' /\ WordsInPlace' /\ [Queue!Next]_(Queue!qvars)
  BY <1>1, WriteKeepsWords
<1>2. ASSUME NEW ord \in BOOLEAN, ReadTick(ord)
      PROVE  WordsCounted' /\ WordsInPlace' /\ [Queue!Next]_(Queue!qvars)
  BY <1>2, ReadKeepsQueue
<1>3. ASSUME NEW iwr \in BOOLEAN, NEW ord \in BOOLEAN, BothTick(iwr, ord)
      PROVE  WordsCounted' /\ WordsInPlace' /\ [Queue!Next]_(Queue!qvars)
  BY <1>3, BothKeepQueue
<1>4. ~Corrupted
  BY Zenon DEF Corrupted
<1>5. QED
  BY <1>1, <1>2, <1>3, <1>4, Zenon DEF Next

\* The types, also at the edge that makes the error.
LEMMA TypesStep ==
  ASSUME PathTyped, WordsCounted, ~erred, Next
  PROVE  PathTyped'
<1>1. AfterShow \in Seq(Data) /\ pending \in Seq(Data)
  BY AfterShowFits DEF PathTyped
<1>2. /\ iaddr \in Ptr /\ oaddr \in Ptr /\ oaddr_q \in Slots /\ ram \in [Slots -> Data]
      /\ ord_q \in BOOLEAN /\ (ireset => iaddr = 0) /\ (oreset => oaddr = 0)
  BY DEF PathTyped
<1>3. ASSUME NEW iwr \in BOOLEAN, NEW idata \in Data, Write(iwr, idata)
      PROVE  /\ iaddr' \in Ptr /\ ram' \in [Slots -> Data] /\ (ireset' => iaddr' = 0)
             /\ ioverflow' \in BOOLEAN
  BY <1>3, WriteMovesOn, WriteFlags
<1>4. ASSUME NEW ord \in BOOLEAN, Read(ord)
      PROVE  /\ oaddr' \in Ptr /\ oaddr_q' \in Slots /\ (oreset' => oaddr' = 0)
             /\ ord_q' \in BOOLEAN /\ ounderflow' \in BOOLEAN
  BY <1>4, ReadMovesOn, ReadFlags
<1>5. ASSUME NEW iwr \in BOOLEAN, WriteTick(iwr) PROVE PathTyped'
  <2>1. PICK idata \in Data :
          /\ Write(iwr, idata) /\ UNCHANGED rdvars
          /\ pending' = IF iwr THEN Append(pending, idata) ELSE pending
          /\ erred' = ioverflow'
    BY <1>5 DEF WriteTick
  <2>2. /\ oaddr' = oaddr /\ oaddr_q' = oaddr_q
    BY <2>1 DEF rdvars
  <2>3. ord_q' \in BOOLEAN /\ (oreset' => oaddr' = 0) /\ erred' \in BOOLEAN
    BY <1>2, <1>3, <2>1, <2>2, Zenon DEF rdvars
  <2>4. pending' \in Seq(Data)
    BY <1>1, <2>1
  <2>5. QED
    BY <1>2, <1>3, <2>1, <2>2, <2>3, <2>4 DEF PathTyped
<1>6. ASSUME NEW ord \in BOOLEAN, ReadTick(ord) PROVE PathTyped'
  <2>1. Read(ord) /\ UNCHANGED wrvars /\ pending' = AfterShow /\ erred' = ounderflow'
    BY <1>6 DEF ReadTick
  <2>2. iaddr' = iaddr /\ ram' = ram
    BY <2>1 DEF wrvars
  <2>3. (ireset' => iaddr' = 0) /\ erred' \in BOOLEAN
    BY <1>2, <1>4, <2>1, <2>2, Zenon DEF wrvars
  <2>4. QED
    BY <1>1, <1>2, <1>4, <2>1, <2>2, <2>3 DEF PathTyped
<1>7. ASSUME NEW iwr \in BOOLEAN, NEW ord \in BOOLEAN, BothTick(iwr, ord) PROVE PathTyped'
  <2>1. PICK idata \in Data :
          /\ Write(iwr, idata) /\ Read(ord)
          /\ pending' = IF iwr THEN Append(AfterShow, idata) ELSE AfterShow
          /\ erred' = (ioverflow' \/ ounderflow')
    BY <1>7 DEF BothTick
  <2>2. erred' \in BOOLEAN
    BY <2>1, Zenon
  <2>3. pending' \in Seq(Data)
    BY <1>1, <2>1
  <2>4. QED
    BY <1>3, <1>4, <2>1, <2>2, <2>3 DEF PathTyped
<1>8. ~Corrupted
  BY Zenon DEF Corrupted
<1>9. QED
  BY <1>5, <1>6, <1>7, <1>8, Zenon DEF Next

LEMMA WordsUnchanged ==
  ASSUME UNCHANGED vars
  PROVE  /\ PathTyped' <=> PathTyped
         /\ WordsCounted' <=> WordsCounted
         /\ WordsInPlace' <=> WordsInPlace
         /\ erred' <=> erred
         /\ UNCHANGED Queue!qvars
<1>1. /\ iaddr' = iaddr /\ oaddr' = oaddr /\ oaddr_q' = oaddr_q /\ ram' = ram
      /\ pending' = pending /\ odata' = odata
  BY DEF vars, wrvars, rdvars
<1>2. /\ ord_q' = ord_q /\ ord_qq' = ord_qq /\ erred' = erred
      /\ ireset' = ireset /\ oreset' = oreset
  BY DEF vars, wrvars, rdvars
<1>3. WordsInPlace' <=> WordsInPlace
  BY <1>1, <1>2 DEF WordsInPlace, FirstSlot, Held, Slot, One
<1>4. WordsCounted' <=> WordsCounted
  BY <1>1, <1>2 DEF WordsCounted, InRam, One
<1>5. PathTyped' <=> PathTyped
  BY <1>1, <1>2 DEF PathTyped
<1>6. UNCHANGED Queue!qvars
  BY <1>1, <1>2 DEF Queue!qvars
<1>7. QED
  BY <1>2, <1>3, <1>4, <1>5, <1>6

\* Steps from the first error on, the one that makes it included.
LEMMA ErrorStep ==
  ASSUME [Next]_vars, erred \/ erred'
  PROVE  [Queue!Next]_(Queue!qvars) /\ (erred => UNCHANGED vars)
<1>1. CASE erred
  <2>1. UNCHANGED vars
    BY <1>1, Zenon DEF Next, Corrupted, WriteTick, ReadTick, BothTick
  <2>2. QED
    BY <2>1, WordsUnchanged
<1>2. CASE ~erred /\ erred'
  <2>1. Queue!Next
    BY <1>2, Zenon DEF Queue!Next
  <2>2. QED
    BY <1>2, <2>1
<1>3. QED
  BY <1>1, <1>2

\* As built: the users see to it that no word too many is written or read.
LEMMA PathStep ==
  PathInv /\ [Next]_vars /\ [Fits]_vars => PathInv' /\ [Queue!Next]_(Queue!qvars)
<1> SUFFICES ASSUME PathInv, [Next]_vars, [Fits]_vars
             PROVE  PathInv' /\ [Queue!Next]_(Queue!qvars)
  OBVIOUS
<1>1. PathTyped /\ (~erred => WordsCounted /\ WordsInPlace)
  BY DEF PathInv
<1>2. CASE UNCHANGED vars
  BY <1>1, <1>2, WordsUnchanged DEF PathInv
<1>3. CASE erred
  BY <1>2, <1>3, ErrorStep
<1>4. CASE ~erred /\ erred' /\ Next
  BY <1>1, <1>4, TypesStep, ErrorStep DEF PathInv
<1>5. CASE ~erred /\ ~erred' /\ Next /\ Fits
  BY <1>1, <1>5, TypesStep, WordsStep DEF PathInv
<1>6. QED
  BY <1>2, <1>3, <1>4, <1>5, Zenon

\* With the extra bit the flags see to it.
LEMMA WideFits ==
  ASSUME WithTopBit, FifoInv, Next, ~erred, ~erred'
  PROVE  Fits
<1>1. PathTyped /\ WordsCounted /\ Len(pending) <= Used /\ Used \in 0..Depth
  BY FifoInvCounts
<1>2. /\ GapsFit /\ Len(pending) = One(ord_q) + Unread
      /\ Kept(empty_count) + Used <= Depth /\ Kept(full_count) <= Offered
  BY Positions DEF FifoInv, PointersInOrder
<1>3. ASSUME NEW iwr \in BOOLEAN, NEW idata \in Data, Write(iwr, idata), ~ioverflow'
      PROVE  iaddr' # iaddr => Len(pending) < Depth
  <2>1. SUFFICES ASSUME iaddr' # iaddr PROVE Len(pending) < Depth
    OBVIOUS
  <2>2. iwr
    BY <1>1, <1>3, <2>1, WriteMovesOn DEF Advance
  <2>3. PICK e \in Ptr : e = Kept(empty_count)'
    <3>1. empty_count' \in Ptr
      BY <1>3, WriteSide
    <3>2. QED
      BY <3>1, KeptInPtr DEF Kept, Slot
  <2>4. e + Used + 1 <= Depth
    BY <1>3, <2>2, <2>3, WriteSide DEF One
  <2>5. QED
    BY <1>1, <2>3, <2>4 DEF Ptr
<1>4. ASSUME NEW ord \in BOOLEAN, Read(ord), ~ounderflow'
      PROVE  oaddr' # oaddr => One(ord_q) < Len(pending)
  <2>1. SUFFICES ASSUME oaddr' # oaddr PROVE One(ord_q) < Len(pending)
    OBVIOUS
  <2>2. ord
    BY <1>1, <1>4, <2>1, ReadMovesOn DEF Advance
  <2>3. PICK f \in Ptr : f = Kept(full_count)'
    <3>1. full_count' \in Ptr
      BY <1>4, ReadSide
    <3>2. QED
      BY <3>1, KeptInPtr DEF Kept, Slot
  <2>4. f + 1 <= Offered
    BY <1>4, <2>2, <2>3, ReadSide DEF One
  <2>5. PICK q \in {0, 1} : q = One(ord_q)
    BY DEF One
  <2>6. QED
    BY <1>2, <2>3, <2>4, <2>5 DEF Unread, GapsFit, Ptr
<1>5. ASSUME NEW iwr \in BOOLEAN, WriteTick(iwr) PROVE Fits
  <2>1. PICK idata \in Data : Write(iwr, idata) /\ UNCHANGED rdvars /\ erred' = ioverflow'
    BY <1>5 DEF WriteTick
  <2>2. oaddr' = oaddr /\ ~ioverflow'
    BY <2>1 DEF rdvars
  <2>3. QED
    BY <1>3, <2>1, <2>2 DEF Fits
<1>6. ASSUME NEW ord \in BOOLEAN, ReadTick(ord) PROVE Fits
  <2>1. Read(ord) /\ UNCHANGED wrvars /\ erred' = ounderflow'
    BY <1>6 DEF ReadTick
  <2>2. iaddr' = iaddr /\ ~ounderflow'
    BY <2>1 DEF wrvars
  <2>3. QED
    BY <1>4, <2>1, <2>2 DEF Fits
<1>7. ASSUME NEW iwr \in BOOLEAN, NEW ord \in BOOLEAN, BothTick(iwr, ord) PROVE Fits
  <2>1. PICK idata \in Data :
          Write(iwr, idata) /\ Read(ord) /\ erred' = (ioverflow' \/ ounderflow')
    BY <1>7 DEF BothTick
  <2>2. ~ioverflow' /\ ~ounderflow'
    BY <2>1, Zenon
  <2>3. QED
    BY <1>3, <1>4, <2>1, <2>2 DEF Fits
<1>8. ~Corrupted
  BY Zenon DEF Corrupted
<1>9. QED
  BY <1>5, <1>6, <1>7, <1>8, Zenon DEF Next

QueueInv == FifoInv /\ (~erred => WordsInPlace)

LEMMA WideStep ==
  WithTopBit /\ QueueInv /\ [Next]_vars => QueueInv' /\ [Queue!Next]_(Queue!qvars)
<1> SUFFICES ASSUME WithTopBit, QueueInv, [Next]_vars
             PROVE  QueueInv' /\ [Queue!Next]_(Queue!qvars)
  OBVIOUS
<1>1. FifoInv /\ FifoInv' /\ (~erred => WordsInPlace)
  BY FifoInvStep DEF QueueInv
<1>2. CASE UNCHANGED vars
  BY <1>1, <1>2, WordsUnchanged DEF QueueInv
<1>3. CASE erred
  BY <1>2, <1>3, ErrorStep
<1>4. CASE ~erred /\ erred'
  BY <1>1, <1>4, ErrorStep DEF QueueInv
<1>5. CASE ~erred /\ ~erred' /\ Next
  <2>1. PathTyped /\ WordsCounted /\ WordsInPlace
    BY <1>1, <1>5, FifoInvCounts
  <2>2. Fits
    BY <1>1, <1>5, WideFits
  <2>3. QED
    BY <1>1, <1>5, <2>1, <2>2, WordsStep DEF QueueInv
<1>6. QED
  BY <1>2, <1>3, <1>4, <1>5, Zenon

\* simple_fifo.sv:1-3 and :22-40, for every depth and every set of words.  As built: the
\* FIFO is a queue of Depth words as long as no word is written to a full one or read from
\* an empty one, whatever its counts say.  With the extra pointer bit it is one until an
\* error is flagged, whatever the users do: the first error is always flagged.
THEOREM ImplementsQueue == Spec /\ [][WithTopBit \/ Fits]_vars => QueueUntilError
<1>1. Init => Queue!Init
  <2>1. Init => pending = <<>> /\ ord_qq = FALSE /\ erred = FALSE
    BY Zenon DEF Init
  <2>2. QED
    BY <2>1 DEF Queue!Init
<1>2. Init => QueueInv /\ PathInv
  BY InitFifoInv, InitWordsInPlace, FifoInvCounts DEF QueueInv, PathInv
<1>3. CASE WithTopBit
  <2>1. QueueInv /\ [Next]_vars => QueueInv' /\ [Queue!Next]_(Queue!qvars)
    BY <1>3, WideStep
  <2>2. QED
    BY <1>1, <1>2, <2>1, PTL DEF Spec, QueueUntilError, Queue!Spec
<1>4. CASE ~WithTopBit
  <2>1. PathInv /\ [Next]_vars /\ [WithTopBit \/ Fits]_vars
          => PathInv' /\ [Queue!Next]_(Queue!qvars)
    BY <1>4, PathStep
  <2>2. QED
    BY <1>1, <1>2, <2>1, PTL DEF Spec, QueueUntilError, Queue!Spec
<1>5. QED
  BY <1>3, <1>4

=============================================================================
