-------------------------- MODULE FrameFlushProofs --------------------------
(***************************************************************************)
(* Proofs about FrameFlush for either width of the pointers, for every     *)
(* frame size, page size and FIFO that holds one frame but not two, and    *)
(* any number of mishaps: while no count misleads, no word is overwritten  *)
(* and frames stay whole; misled or not, up to the first restart a frame   *)
(* is torn by the next picture at most.                                    *)
(***************************************************************************)
EXTENDS FrameFlush, TLAPS, SequenceTheorems

USE DepthAssumption, FlushAssumption DEF DepthAssumption, FlushAssumption

Drawing == 0 .. Drawings - 1
Ptr == 0 .. 2 * Depth - 1
Descriptor == [from : 0 .. FRAME_SIZE_WORDS, upto : 0 .. FRAME_SIZE_WORDS, of : Drawing]
-----------------------------------------------------------------------------
(* The invariant *)

StateOK ==
    /\ TypeOK
    /\ last \in BOOLEAN /\ overrun \in BOOLEAN /\ stray \in BOOLEAN
    /\ drawing \in Drawing /\ next \in 0 .. FRAME_SIZE_WORDS /\ misled \in Nat
    /\ fb \in [Slots -> [drawing : Drawing, blank : BOOLEAN]]
    /\ submitted \in Seq(Descriptor) /\ issued \in Seq(Descriptor)
    /\ iaddr \in Ptr /\ oaddr \in Ptr
    /\ ram \in [0 .. Depth - 1 -> Word \cup {Stale}]

\* Descriptors in a row, none of them empty.
Contiguous(q) ==
    \A i \in DOMAIN q : /\ q[i].from < q[i].upto
                        /\ i < Len(q) => q[i].upto = q[i + 1].from

First(q, otherwise) == IF q = <<>> THEN otherwise ELSE q[1].from
Final(q, otherwise) == IF q = <<>> THEN otherwise ELSE q[Len(q)].upto

\* Where the ioctl has got to in the frame, where what it has submitted begins, and
\* which word is the next to be transferred.
Goal == IF at = "ioctl" THEN next ELSE FRAME_SIZE_WORDS
Pending == First(submitted, Goal)
Front == First(issued, Pending)

\* What is issued and submitted is one run up to the goal, and nothing is on its way
\* when the poll is made.
ChainInOrder ==
    /\ Contiguous(issued) /\ Contiguous(submitted)
    /\ Final(submitted, Goal) = Goal
    /\ Final(issued, Pending) = Pending
    /\ at # "ioctl" => submitted = <<>>
    /\ at = "poll" => issued = <<>>

\* The rest of the frame has room, also the part the ioctl has not come to.
RoomForTheRest == held + FRAME_SIZE_WORDS - Front <= Depth

\* How far a slot of the RAM is from the next word to be read.
Ahead(s) == IF s >= Slot(oaddr) THEN s - Slot(oaddr) ELSE s + Depth - Slot(oaddr)

NothingBeyond == \A s \in 0 .. Depth - 1 : Ahead(s) >= held => ram[s] = Stale

\* What holds whatever the counts say, and what holds while they do not mislead.
ChainInv == StateOK /\ (stray \/ ChainInOrder)
Room == NothingBeyond /\ (stray \/ RoomForTheRest)
RoomInv == Room /\ ~overrun

-----------------------------------------------------------------------------
(* Runs of descriptors *)

\* A run with one more descriptor at its end.
LEMMA AppendRun ==
  ASSUME NEW q \in Seq(Descriptor), NEW d \in Descriptor, NEW g,
         Contiguous(q), Final(q, d.from) = d.from, d.from < d.upto
  PROVE  /\ Append(q, d) \in Seq(Descriptor) /\ Contiguous(Append(q, d))
         /\ First(Append(q, d), g) = First(q, d.from)
         /\ Final(Append(q, d), g) = d.upto
<1>1. /\ Append(q, d) \in Seq(Descriptor) /\ Len(Append(q, d)) = Len(q) + 1
      /\ \A i \in 1 .. Len(q) : Append(q, d)[i] = q[i]
      /\ Append(q, d)[Len(q) + 1] = d /\ Append(q, d) # <<>>
  OBVIOUS
<1>2. Contiguous(Append(q, d))
  BY <1>1 DEF Contiguous, Final
<1>3. QED
  BY <1>1, <1>2 DEF First, Final

\* Two runs, the second of which begins where the first ends.
LEMMA JoinedRuns ==
  ASSUME NEW q \in Seq(Descriptor), NEW r \in Seq(Descriptor), NEW g,
         Contiguous(q), Contiguous(r), Final(q, First(r, g)) = First(r, g), Final(r, g) = g
  PROVE  /\ q \o r \in Seq(Descriptor) /\ Contiguous(q \o r)
         /\ First(q \o r, g) = First(q, First(r, g))
         /\ Final(q \o r, g) = g
<1>1. /\ q \o r \in Seq(Descriptor) /\ Len(q \o r) = Len(q) + Len(r)
      /\ \A i \in 1 .. Len(q) : (q \o r)[i] = q[i]
      /\ \A i \in 1 .. Len(r) : (q \o r)[Len(q) + i] = r[i]
      /\ Len(q) \in Nat /\ Len(r) \in Nat
  OBVIOUS
<1>2. \A i \in Len(q) + 1 .. Len(q) + Len(r) : (q \o r)[i] = r[i - Len(q)]
  <2>1. TAKE i \in Len(q) + 1 .. Len(q) + Len(r)
  <2>2. i - Len(q) \in 1 .. Len(r) /\ Len(q) + (i - Len(q)) = i
    BY <1>1
  <2>3. QED
    BY <1>1, <2>2
<1>3. Contiguous(q \o r)
  <2>1. SUFFICES ASSUME NEW i \in 1 .. Len(q) + Len(r)
                 PROVE  /\ (q \o r)[i].from < (q \o r)[i].upto
                        /\ i < Len(q) + Len(r) => (q \o r)[i].upto = (q \o r)[i + 1].from
    BY <1>1 DEF Contiguous
  <2>2. CASE i < Len(q)
    BY <1>1, <2>2 DEF Contiguous
  <2>3. CASE i = Len(q)
    BY <1>1, <2>3 DEF Contiguous, First, Final
  <2>4. CASE i > Len(q)
    <3> DEFINE j == i - Len(q)
    <3>1. j \in 1 .. Len(r) /\ (q \o r)[i] = r[j]
      BY <1>1, <1>2, <2>4
    <3>2. ASSUME i < Len(q) + Len(r)
          PROVE  j + 1 \in 1 .. Len(r) /\ j < Len(r) /\ (q \o r)[i + 1] = r[j + 1]
      BY <1>1, <1>2, <2>4, <3>2
    <3>3. QED
      BY <1>1, <3>1, <3>2 DEF Contiguous
  <2>5. QED
    BY <1>1, <2>2, <2>3, <2>4
<1>4. First(q \o r, g) = First(q, First(r, g)) /\ Final(q \o r, g) = g
  <2>1. CASE q = <<>>
    <3>1. q \o r = r
      BY <2>1
    <3>2. QED
      BY <2>1, <3>1 DEF First, Final
  <2>2. CASE r = <<>>
    <3>1. q \o r = q
      BY <2>2
    <3>2. QED
      BY <2>2, <3>1 DEF First, Final
  <2>3. CASE q # <<>> /\ r # <<>>
    <3>1. Len(q) > 0 /\ Len(r) > 0 /\ q \o r # <<>>
      BY <1>1, <2>3
    <3>2. (q \o r)[1] = q[1] /\ (q \o r)[Len(q \o r)] = r[Len(r)]
      BY <1>1, <3>1
    <3>3. QED
      BY <2>3, <3>1, <3>2 DEF First, Final
  <2>4. QED
    BY <2>1, <2>2, <2>3
<1>5. QED
  BY <1>1, <1>3, <1>4

\* What is left of the descriptors when one word has been transferred.
Transferred(q) == IF Head(q).from + 1 = Head(q).upto THEN Tail(q)
                  ELSE [q EXCEPT ![1].from = @ + 1]

LEMMA DescriptorMoved ==
  ASSUME NEW d \in Descriptor, NEW n
  PROVE  [d EXCEPT !.from = n] = [from |-> n, upto |-> d.upto, of |-> d.of]
  BY SMT DEF Descriptor

LEMMA TransferredRun ==
  ASSUME NEW q \in Seq(Descriptor), q # <<>>, NEW g, Contiguous(q), Final(q, g) = g
  PROVE  /\ Head(q) \in Descriptor /\ Head(q).from < FRAME_SIZE_WORDS /\ Head(q).from = First(q, g)
         /\ Transferred(q) \in Seq(Descriptor) /\ Contiguous(Transferred(q))
         /\ First(Transferred(q), g) = First(q, g) + 1
         /\ Final(Transferred(q), g) = g
<1>1. /\ Len(q) \in Nat /\ Len(q) > 0 /\ Head(q) = q[1] /\ DOMAIN q = 1 .. Len(q)
      /\ \A i \in 1 .. Len(q) : q[i] \in Descriptor
  OBVIOUS
<1>2. \A i \in 1 .. Len(q) : /\ q[i].from \in 0 .. FRAME_SIZE_WORDS
                             /\ q[i].upto \in 0 .. FRAME_SIZE_WORDS
                             /\ q[i].from < q[i].upto
                             /\ i < Len(q) => q[i].upto = q[i + 1].from
  BY <1>1 DEF Contiguous, Descriptor
<1>3. /\ Head(q) \in Descriptor /\ Head(q).from < FRAME_SIZE_WORDS
      /\ First(q, g) = q[1].from /\ Final(q, g) = q[Len(q)].upto
  BY <1>1, <1>2 DEF First, Final
<1>4. CASE Head(q).from + 1 = Head(q).upto
  <2> DEFINE t == Tail(q)
  <2>1. /\ t \in Seq(Descriptor) /\ Len(t) = Len(q) - 1 /\ DOMAIN t = 1 .. Len(q) - 1
        /\ \A i \in 1 .. Len(q) - 1 : t[i] = q[i + 1]
        /\ Len(q) = 1 => t = <<>>
        /\ Len(q) > 1 => t # <<>>
    <3>1. t \in Seq(Descriptor) /\ Len(t) = Len(q) - 1 /\ \A i \in 1 .. Len(t) : t[i] = q[i + 1]
      BY HeadTailProperties
    <3> HIDE DEF t
    <3>2. DOMAIN t = 1 .. Len(t) /\ Len(t) \in Nat
      BY <3>1, LenProperties
    <3>3. Len(t) = 0 <=> t = <<>>
      BY <3>1, EmptySeq
    <3>4. QED
      BY <1>1, <3>1, <3>2, <3>3
  <2> HIDE DEF t
  <2>2. Contiguous(t)
    <3>1. SUFFICES ASSUME NEW i \in 1 .. Len(q) - 1
                   PROVE  t[i].from < t[i].upto /\ (i < Len(t) => t[i].upto = t[i + 1].from)
      BY <2>1 DEF Contiguous
    <3>2. i + 1 \in 1 .. Len(q) /\ t[i] = q[i + 1]
      BY <1>1, <2>1
    <3>3. i < Len(t) => i + 1 \in 1 .. Len(q) - 1 /\ t[i + 1] = q[i + 2] /\ i + 1 < Len(q)
      BY <1>1, <2>1
    <3>4. QED
      BY <1>2, <3>2, <3>3
  <2>3. First(t, g) = First(q, g) + 1 /\ Final(t, g) = g
    <3>1. CASE Len(q) = 1
      BY <1>1, <1>3, <1>4, <2>1, <3>1 DEF First, Final
    <3>2. CASE Len(q) > 1
      <4>1. t[1] = q[2] /\ t[Len(t)] = q[Len(q)]
        BY <1>1, <2>1, <3>2
      <4>2. q[1].upto = q[2].from
        BY <1>1, <1>2, <3>2
      <4>3. First(t, g) = q[2].from /\ Final(t, g) = q[Len(q)].upto
        BY <2>1, <3>2, <4>1 DEF First, Final
      <4>4. QED
        BY <1>1, <1>3, <1>4, <4>2, <4>3
    <3>3. QED
      BY <1>1, <3>1, <3>2
  <2>4. QED
    BY <1>3, <1>4, <2>1, <2>2, <2>3 DEF Transferred, t
<1>5. CASE Head(q).from + 1 # Head(q).upto
  <2> DEFINE d == [from |-> q[1].from + 1, upto |-> q[1].upto, of |-> q[1].of]
             t == [q EXCEPT ![1] = d]
  <2>1. d \in Descriptor /\ d.from = q[1].from + 1 /\ d.upto = q[1].upto /\ d.from < d.upto
    <3>1. /\ q[1] \in Descriptor /\ q[1].from \in 0 .. FRAME_SIZE_WORDS
          /\ q[1].upto \in 0 .. FRAME_SIZE_WORDS /\ q[1].from < q[1].upto
          /\ q[1].from + 1 # q[1].upto
      BY <1>1, <1>2, <1>5
    <3>2. q[1].from + 1 \in 0 .. FRAME_SIZE_WORDS
      BY <3>1
    <3>3. d \in Descriptor
      BY <3>1, <3>2 DEF Descriptor
    <3>4. QED
      BY <3>1, <3>3
  <2>2. /\ t \in Seq(Descriptor) /\ Len(t) = Len(q) /\ DOMAIN t = 1 .. Len(q) /\ t # <<>>
        /\ t[1] = d /\ \A i \in 2 .. Len(q) : t[i] = q[i]
    <3> HIDE DEF d
    <3>1. 1 \in 1 .. Len(q)
      BY <1>1
    <3>2. /\ t \in Seq(Descriptor) /\ Len(t) = Len(q)
          /\ \A j \in 1 .. Len(q) : t[j] = IF j = 1 THEN d ELSE q[j]
      BY <2>1, <3>1, ExceptSeq
    <3>3. QED
      BY <1>1, <3>1, <3>2, LenProperties, EmptySeq
  <2>3. Transferred(q) = t
    <3>1. [q[1] EXCEPT !.from = q[1].from + 1] = d
      <4>1. q[1] \in Descriptor
        BY <1>1
      <4>2. QED
        BY <4>1, DescriptorMoved
    <3>2. Transferred(q) = [q EXCEPT ![1] = [q[1] EXCEPT !.from = q[1].from + 1]]
      BY <1>5, Zenon DEF Transferred
    <3>3. QED
      BY <3>1, <3>2, Zenon
  <2> HIDE DEF d
  <2> HIDE DEF t
  <2>4. Contiguous(t)
    BY <1>1, <1>2, <2>1, <2>2 DEF Contiguous
  <2>5. First(t, g) = First(q, g) + 1
    BY <1>3, <2>1, <2>2 DEF First
  <2>6. Final(t, g) = g
    BY <1>1, <1>3, <2>1, <2>2 DEF Final
  <2>7. QED
    BY <1>3, <2>2, <2>3, <2>4, <2>5, <2>6
<1>6. QED
  BY <1>4, <1>5
-----------------------------------------------------------------------------
(* The pointers *)

LEMMA Counts ==
  ASSUME iaddr \in Ptr, oaddr \in Ptr
  PROVE  /\ held \in Ptr /\ empty_count \in Int
         /\ Slot(iaddr) \in 0 .. Depth - 1 /\ Slot(oaddr) \in 0 .. Depth - 1
         /\ \A s \in 0 .. Depth - 1 : Ahead(s) \in 0 .. Depth - 1
         /\ held < Depth => Ahead(Slot(iaddr)) = held
         /\ \A s \in 0 .. Depth - 1 : Ahead(s) = Ahead(Slot(iaddr)) => s = Slot(iaddr)
         /\ \A s \in 0 .. Depth - 1 : Ahead(s) = 0 => s = Slot(oaddr)
BY DEF held, empty_count, EmptyCount, Kept, Diff, TopBitFlipped, Slot, Ahead, Ptr

LEMMA PointersStay ==
  ASSUME NEW p \in Ptr
  PROVE  Advance(p, TRUE) \in Ptr
BY DEF Advance, Ptr

LEMMA WriteMoves ==
  ASSUME iaddr \in Ptr, oaddr \in Ptr, held < Depth,
         iaddr' = Advance(iaddr, TRUE), oaddr' = oaddr
  PROVE  /\ iaddr' \in Ptr /\ held' = held + 1
         /\ \A s \in 0 .. Depth - 1 : Ahead(s)' = Ahead(s)
BY DEF held, Diff, Slot, Ahead, Ptr, Advance

LEMMA ReadMoves ==
  ASSUME iaddr \in Ptr, oaddr \in Ptr, held > 0,
         oaddr' = Advance(oaddr, TRUE), iaddr' = iaddr
  PROVE  /\ oaddr' \in Ptr /\ held' = held - 1
         /\ \A s \in 0 .. Depth - 1 :
                IF s = Slot(oaddr) THEN Ahead(s) = 0 /\ Ahead(s)' = Depth - 1
                ELSE Ahead(s)' = Ahead(s) - 1
BY DEF held, Diff, Slot, Ahead, Ptr, Advance

-----------------------------------------------------------------------------
(* No word is overwritten *)

Places == {"fill", "draw", "poll", "ioctl", "ending", "wait", "exited", "down"}

\* Steps that move no word and leave the next one to be transferred as it is.
LEMMA RoomKept ==
  ASSUME ~stray, Room, UNCHANGED fifo, Front' = Front
  PROVE  Room'
<1>1. UNCHANGED <<iaddr, oaddr, ram>>
  BY DEF fifo
<1>2. RoomForTheRest'
  BY <1>1 DEF Room, RoomForTheRest, held
<1>3. NothingBeyond'
  BY <1>1 DEF Room, NothingBeyond, Ahead, held
<1>4. QED
  BY <1>2, <1>3 DEF Room

\* Steps of the program outside the ioctl leave the chain alone.
LEMMA ChainKept ==
  ASSUME ChainInv, ~stray, at # "ioctl", at' # "ioctl", at' = "poll" => issued = <<>> \/ stray',
         UNCHANGED <<dmaVars, fifo>>
  PROVE  Front' = Front /\ (stray' \/ ChainInOrder')
<1>1. ChainInOrder /\ UNCHANGED <<submitted, issued>>
  BY DEF ChainInv, dmaVars
<1>2. Goal' = Goal
  BY DEF Goal
<1>3. Pending' = Pending /\ Front' = Front
  BY <1>1, <1>2 DEF Pending, Front, First
<1>4. QED
  BY <1>1, <1>2, <1>3 DEF ChainInOrder, Contiguous, Final

LEMMA FrontInFrame ==
  ASSUME StateOK
  PROVE  Goal \in 0 .. FRAME_SIZE_WORDS /\ Pending \in 0 .. FRAME_SIZE_WORDS
         /\ Front \in 0 .. FRAME_SIZE_WORDS
<1>1. Goal \in 0 .. FRAME_SIZE_WORDS
  BY DEF StateOK, Goal
<1>2. ASSUME NEW q \in Seq(Descriptor), NEW g \in 0 .. FRAME_SIZE_WORDS
      PROVE  First(q, g) \in 0 .. FRAME_SIZE_WORDS
  <2>1. CASE q # <<>>
    <3>1. 1 \in 1 .. Len(q)
      BY <1>2, <2>1, EmptySeq
    <3>2. q[1] \in Descriptor
      BY <1>2, <3>1, ElementOfSeq
    <3>3. QED
      BY <2>1, <3>2 DEF First, Descriptor
  <2>2. QED
    BY <1>2, <2>1 DEF First
<1>3. QED
  BY <1>1, <1>2 DEF StateOK, Pending, Front

LEMMA RoomInit ==
  ASSUME Init
  PROVE  ChainInv /\ RoomInv
<1>1. /\ iaddr = 0 /\ oaddr = 0 /\ held = 0
      /\ submitted = <<>> /\ issued = <<>> /\ at = "fill"
  BY DEF Init, held, Diff
<1>2. StateOK /\ ~overrun
  <2>1. <<>> \in Seq(Descriptor) /\ <<>> \in Seq(Contents) /\ Len(<<>>) = 0
    BY EmptySeq
  <2>2. ram \in [0 .. Depth - 1 -> Word \cup {Stale}] /\ taken = <<>>
    BY DEF Init
  <2>3. TypeOK
    <3>1. iaddr \in 0 .. 2 * Depth - 1 /\ oaddr \in 0 .. 2 * Depth - 1
      BY <1>1
    <3>2. undrawn \subseteq Slots /\ next \in 0 .. FRAME_SIZE_WORDS
      BY DEF Init
    <3>3. taken \in Seq(Contents) /\ Len(taken) < FRAME_SIZE_WORDS
      BY <2>1, <2>2
    <3>4. \A s \in DOMAIN ram : ram[s] \in Word \cup {Stale}
      BY <2>2
    <3>5. QED
      BY <1>1, <3>1, <3>2, <3>3, <3>4 DEF TypeOK
  <2>4. fb \in [Slots -> [drawing : Drawing, blank : BOOLEAN]]
    BY DEF Init, Drawing
  <2>5. last \in BOOLEAN /\ ~overrun /\ overrun \in BOOLEAN /\ stray \in BOOLEAN
    BY Zenon DEF Init
  <2>6. drawing \in Drawing /\ next \in 0 .. FRAME_SIZE_WORDS /\ misled \in Nat
    BY DEF Init, Drawing
  <2>7. QED
    BY <1>1, <2>1, <2>2, <2>3, <2>4, <2>5, <2>6 DEF StateOK, Ptr
<1>3. ChainInOrder /\ RoomForTheRest
  BY <1>1 DEF ChainInOrder, RoomForTheRest, Contiguous, First, Final, Goal, Pending, Front
<1>4. NothingBeyond
  BY DEF Init, NothingBeyond
<1>5. QED
  BY <1>2, <1>3, <1>4 DEF ChainInv, RoomInv, Room

\* The ioctl, descriptor by descriptor.
LEMMA SubmitKeepsRoom ==
  ASSUME ChainInv, ~stray, Submit
  PROVE  ChainInv' /\ (Room => Room')
<1>1. StateOK /\ ChainInOrder
  BY DEF ChainInv
<1> DEFINE upto == next + Chunk(next)
           d == [from |-> next, upto |-> upto, of |-> drawing]
<1>2. /\ at = "ioctl" /\ submitted' = Append(submitted, d) /\ next' = upto
      /\ UNCHANGED <<at, issued, drawing, iaddr, oaddr, ram>>
      /\ next < FRAME_SIZE_WORDS
  BY DEF Submit, fifo
<1>3. upto \in 0 .. FRAME_SIZE_WORDS /\ next < upto /\ d \in Descriptor
  BY <1>1, <1>2 DEF StateOK, Chunk, Least, Descriptor
<1> HIDE DEF upto
<1>4. Goal = next /\ Goal' = upto
  BY <1>2 DEF Goal
<1>5. /\ submitted' \in Seq(Descriptor) /\ Contiguous(submitted')
      /\ First(submitted', upto) = First(submitted, next) /\ Final(submitted', upto) = upto
  <2>1. submitted \in Seq(Descriptor) /\ Contiguous(submitted) /\ Final(submitted, next) = next
    BY <1>1, <1>4 DEF StateOK, ChainInOrder
  <2>2. d.from = next /\ d.upto = upto /\ d \in Descriptor
    BY <1>3
  <2> HIDE DEF d
  <2>3. QED
    BY <1>2, <1>3, <2>1, <2>2, AppendRun
<1>6. Pending' = Pending /\ Front' = Front
  BY <1>2, <1>4, <1>5 DEF Pending, Front
<1>7. ChainInOrder'
  BY <1>1, <1>2, <1>4, <1>5, <1>6 DEF ChainInOrder
<1>8. Room => Room'
  BY <1>6, RoomKept DEF Submit
<1>9. StateOK'
  <2>1. /\ submitted' \in Seq(Descriptor) /\ next' \in 0 .. FRAME_SIZE_WORDS
        /\ UNCHANGED <<at, last, drawing, undrawn, fb, issued, iaddr, oaddr, ram, taken, overrun,
                       misled, stray>>
    BY <1>2, <1>3, <1>5 DEF Submit, fifo, stringVars
  <2>2. QED
    BY <1>1, <2>1 DEF StateOK, TypeOK
<1>10. QED
  BY <1>7, <1>8, <1>9 DEF ChainInv

LEMMA IssueKeepsRoom ==
  ASSUME ChainInv, ~stray, IssuePending,
         UNCHANGED <<fifo, stringVars, overrun, misled, stray, fb, last>>,
         \/ UNCHANGED progVars
         \/ /\ at = "ioctl" /\ next = FRAME_SIZE_WORDS /\ UNCHANGED next
            /\ at' \in {"draw", "ending", "wait"}
            /\ undrawn' \subseteq Slots /\ drawing' \in Drawing
  PROVE  ChainInv' /\ (Room => Room')
<1>1. StateOK /\ ChainInOrder
  BY DEF ChainInv
<1>2. /\ issued' = issued \o submitted /\ submitted' = <<>>
      /\ UNCHANGED <<iaddr, oaddr, ram, taken>> /\ next' = next
  BY DEF IssuePending, fifo, stringVars, progVars
<1>3. Goal' = Goal
  BY DEF Goal, progVars
<1>4. /\ issued' \in Seq(Descriptor) /\ Contiguous(issued')
      /\ First(issued', Goal) = Front /\ Final(issued', Goal) = Goal
  BY <1>1, <1>2, JoinedRuns DEF StateOK, ChainInOrder, Pending, Front
<1>5. Pending' = Goal /\ Front' = Front
  BY <1>2, <1>3, <1>4 DEF Pending, Front, First
<1>6. at' = "poll" => issued' = <<>>
  <2>1. SUFFICES ASSUME at' = "poll"
                 PROVE  issued' = <<>>
    OBVIOUS
  <2>2. at = "poll"
    BY <2>1 DEF progVars
  <2>3. issued = <<>> /\ submitted = <<>>
    BY <1>1, <2>2 DEF ChainInOrder
  <2>4. QED
    BY <1>2, <2>3
<1>7. ChainInOrder'
  <2>1. Contiguous(<<>>) /\ Final(<<>>, Goal) = Goal
    BY DEF Contiguous, Final
  <2>2. QED
    BY <1>2, <1>3, <1>4, <1>5, <1>6, <2>1 DEF ChainInOrder
<1>8. Room => Room'
  BY <1>5, RoomKept
<1>9. StateOK'
  <2>1. <<>> \in Seq(Descriptor)
    BY EmptySeq
  <2>2. at' \in Places /\ undrawn' \subseteq Slots /\ drawing' \in Drawing
    BY <1>1 DEF progVars, StateOK, TypeOK, Places
  <2>3. UNCHANGED <<last, overrun, misled, stray, fb, next, iaddr, oaddr, ram, taken>>
    BY DEF fifo, stringVars, progVars
  <2>4. TypeOK'
    BY <1>1, <2>2, <2>3 DEF StateOK, TypeOK, Places
  <2>5. QED
    BY <1>1, <1>2, <1>4, <2>1, <2>2, <2>3, <2>4 DEF StateOK
<1>10. QED
  BY <1>7, <1>8, <1>9 DEF ChainInv

\* A word of the engine.
LEMMA DmaKeepsRoom ==
  ASSUME ChainInv, ~stray, DmaWord
  PROVE  ChainInv' /\ (RoomInv => RoomInv')
<1>1. StateOK /\ ChainInOrder
  BY DEF ChainInv
<1> DEFINE chunk == Head(issued)
           slot == Slot(iaddr)
           word == [slot |-> chunk.from, of |-> chunk.of,
                    drawing |-> fb[chunk.from].drawing, blank |-> fb[chunk.from].blank]
<1>2. /\ issued # <<>> /\ ram' = [ram EXCEPT ![slot] = word]
      /\ overrun' = (overrun \/ ram[slot] # Stale)
      /\ issued' = Transferred(issued) /\ iaddr' = Advance(iaddr, TRUE)
      /\ UNCHANGED <<at, last, drawing, undrawn, fb, next, submitted, oaddr, taken, misled, stray>>
  BY DEF DmaWord, Transferred, progVars, stringVars
<1>3. Goal' = Goal /\ Pending' = Pending
  BY <1>2 DEF Goal, Pending, First
<1>4. /\ chunk \in Descriptor /\ chunk.from < FRAME_SIZE_WORDS /\ chunk.from = Front
      /\ issued' \in Seq(Descriptor) /\ Contiguous(issued')
      /\ First(issued', Pending) = Front + 1 /\ Final(issued', Pending) = Pending
  BY <1>1, <1>2, TransferredRun DEF StateOK, ChainInOrder, Front
<1>5. Front' = Front + 1
  BY <1>3, <1>4 DEF Front
<1>6. iaddr \in Ptr /\ oaddr \in Ptr
  BY <1>1 DEF StateOK
<1>7. slot \in 0 .. Depth - 1 /\ iaddr' \in Ptr
  BY <1>2, <1>6, Counts, PointersStay
<1> HIDE DEF slot
<1>8. ChainInOrder'
  BY <1>1, <1>2, <1>3, <1>4 DEF ChainInOrder
<1>9. word \in Word
  <2>1. chunk.from \in Slots /\ chunk.of \in Drawing
    BY <1>4 DEF Descriptor, Slots
  <2>2. fb[chunk.from] \in [drawing : Drawing, blank : BOOLEAN]
    BY <1>1, <2>1 DEF StateOK
  <2>3. QED
    BY <2>1, <2>2 DEF Word, Drawing
<1> HIDE DEF word
<1>10. StateOK'
  <2>1. ram' \in [0 .. Depth - 1 -> Word \cup {Stale}]
    BY <1>1, <1>2, <1>7, <1>9 DEF StateOK
  <2>2. \A s \in DOMAIN ram' : ram'[s] \in Word \cup {Stale}
    BY <2>1
  <2>3. iaddr' \in 0 .. 2 * Depth - 1
    BY <1>7 DEF Ptr
  <2> HIDE DEF chunk
  <2>4. TypeOK'
    BY <1>1, <1>2, <2>2, <2>3 DEF StateOK, TypeOK
  <2>5. overrun' \in BOOLEAN
    BY <1>2, Zenon
  <2>6. QED
    BY <1>1, <1>2, <1>4, <1>7, <2>1, <2>4, <2>5 DEF StateOK
<1>11. ASSUME RoomInv PROVE RoomInv'
  <2>1. RoomForTheRest /\ NothingBeyond /\ ~overrun
    BY <1>11 DEF RoomInv, Room
  <2>2. /\ held \in Ptr /\ held < Depth /\ Front \in 0 .. FRAME_SIZE_WORDS
        /\ Ahead(slot) = held
    <3>1. Front \in 0 .. FRAME_SIZE_WORDS /\ held \in Ptr
      BY <1>1, <1>6, FrontInFrame, Counts
    <3>2. held < Depth
      BY <1>4, <2>1, <3>1 DEF RoomForTheRest, Ptr
    <3>3. QED
      BY <1>6, <3>1, <3>2, Counts DEF slot
  <2>3. held' = held + 1 /\ \A s \in 0 .. Depth - 1 : Ahead(s)' = Ahead(s)
    BY <1>2, <1>6, <2>2, WriteMoves
  <2>4. ~overrun'
    <3>1. Ahead(slot) >= held
      BY <2>2 DEF Ptr
    <3>2. QED
      BY <1>2, <1>7, <2>1, <3>1 DEF NothingBeyond
  <2>5. RoomForTheRest'
    BY <1>5, <2>1, <2>2, <2>3 DEF RoomForTheRest, Ptr
  <2>6. NothingBeyond'
    <3>1. SUFFICES ASSUME NEW s \in 0 .. Depth - 1, Ahead(s)' >= held'
                   PROVE  ram'[s] = Stale
      BY DEF NothingBeyond
    <3>2. Ahead(s) >= held /\ s # slot
      <4>1. Ahead(s) \in 0 .. Depth - 1
        BY <1>6, Counts
      <4>2. QED
        BY <2>2, <2>3, <3>1, <4>1 DEF Ptr
    <3>3. QED
      BY <1>1, <1>2, <2>1, <3>2 DEF NothingBeyond, StateOK
  <2>7. QED
    BY <2>4, <2>5, <2>6 DEF RoomInv, Room
<1>12. QED
  BY <1>8, <1>10, <1>11 DEF ChainInv

\* The strings.
LEMMA TakeKeepsRoom ==
  ASSUME ChainInv, ~stray, TakeWord
  PROVE  ChainInv' /\ (misled' = 0 /\ Room => Room')
<1>1. StateOK /\ ChainInOrder
  BY DEF ChainInv
<1> DEFINE slot == Slot(oaddr)
           now == Append(taken, Content(ram[slot]))
<1>2. /\ ram' = [ram EXCEPT ![slot] = Stale] /\ oaddr' = Advance(oaddr, TRUE)
      /\ taken' = IF Len(now) < FRAME_SIZE_WORDS THEN now ELSE <<>>
      /\ misled' = IF held = 0 THEN misled + 1 ELSE misled
      /\ UNCHANGED <<at, last, drawing, undrawn, fb, next, submitted, issued, iaddr, overrun, stray>>
  BY DEF TakeWord, progVars, dmaVars
<1>3. iaddr \in Ptr /\ oaddr \in Ptr
  BY <1>1 DEF StateOK
<1>4. slot \in 0 .. Depth - 1 /\ oaddr' \in Ptr
  BY <1>2, <1>3, Counts, PointersStay
<1> HIDE DEF slot
<1>5. Goal' = Goal /\ Pending' = Pending /\ Front' = Front
  BY <1>2 DEF Goal, Pending, Front, First
<1>6. ChainInOrder'
  BY <1>1, <1>2, <1>5 DEF ChainInOrder
<1>7. StateOK'
  <2>1. ram' \in [0 .. Depth - 1 -> Word \cup {Stale}]
    BY <1>1, <1>2, <1>4 DEF StateOK
  <2>2. taken' \in Seq(Contents) /\ Len(taken') < FRAME_SIZE_WORDS
    <3>1. now \in Seq(Contents)
      <4>1. Content(ram[slot]) \in Contents /\ taken \in Seq(Contents)
        BY <1>1, <1>4 DEF StateOK, TypeOK, Contents
      <4>2. QED
        BY <4>1, AppendProperties
    <3>2. <<>> \in Seq(Contents) /\ Len(<<>>) = 0
      BY EmptySeq
    <3> HIDE DEF now
    <3>3. QED
      BY <1>2, <3>1, <3>2
  <2>3. oaddr' \in 0 .. 2 * Depth - 1 /\ misled' \in Nat
    <3>1. misled \in Nat
      BY <1>1 DEF StateOK
    <3>2. misled' \in Nat
      BY <1>2, <3>1
    <3>3. QED
      BY <1>4, <3>2 DEF Ptr
  <2>4. TypeOK'
    BY <1>1, <1>2, <2>1, <2>2, <2>3 DEF StateOK, TypeOK
  <2>5. QED
    BY <1>1, <1>2, <1>4, <2>1, <2>3, <2>4 DEF StateOK
<1>8. ASSUME misled' = 0, Room PROVE Room'
  <2>1. RoomForTheRest /\ NothingBeyond
    BY <1>8 DEF Room
  <2>2. held \in Ptr /\ held > 0 /\ Front \in 0 .. FRAME_SIZE_WORDS
    BY <1>1, <1>2, <1>3, <1>8, Counts, FrontInFrame DEF Ptr, StateOK
  <2>3. /\ held' = held - 1
        /\ \A s \in 0 .. Depth - 1 : IF s = slot THEN Ahead(s) = 0 /\ Ahead(s)' = Depth - 1
                                     ELSE Ahead(s)' = Ahead(s) - 1
    BY <1>2, <1>3, <2>2, ReadMoves DEF slot
  <2>4. RoomForTheRest'
    BY <1>5, <2>1, <2>2, <2>3 DEF RoomForTheRest, Ptr
  <2>5. NothingBeyond'
    <3>1. SUFFICES ASSUME NEW s \in 0 .. Depth - 1, Ahead(s)' >= held'
                   PROVE  ram'[s] = Stale
      BY DEF NothingBeyond
    <3>2. CASE s = slot
      BY <1>1, <1>2, <3>2 DEF StateOK
    <3>3. CASE s # slot
      <4>1. Ahead(s) \in 0 .. Depth - 1
        BY <1>3, Counts
      <4>2. Ahead(s) >= held
        BY <2>2, <2>3, <3>1, <3>3, <4>1 DEF Ptr
      <4>3. QED
        BY <1>1, <1>2, <2>1, <3>3, <4>2 DEF NothingBeyond, StateOK
    <3>4. QED
      BY <3>2, <3>3
  <2>6. QED
    BY <2>4, <2>5 DEF Room
<1>9. QED
  BY <1>6, <1>7, <1>8 DEF ChainInv

\* What is left of the program and the outside: nothing of the chain or the FIFO.
LEMMA ElsewhereKeepsRoom ==
  ASSUME ChainInv, ~stray,
         DrawWord \/ FirstPicture \/ Sleep \/ Blank \/ Leave \/ Crash \/ Restart
  PROVE  ChainInv' /\ (Room => Room')
<1>1. StateOK /\ TypeOK
  BY DEF ChainInv, StateOK
<1>2. /\ at # "ioctl" /\ at' # "ioctl"
      /\ at' = "poll" => issued = <<>> \/ stray'
      /\ UNCHANGED <<dmaVars, fifo, next, overrun, taken>>
  <2>1. CASE Sleep
    BY <2>1 DEF Sleep, FlushDue, SleepOver, stringVars
  <2>2. CASE DrawWord \/ FirstPicture \/ Blank \/ Leave \/ Crash \/ Restart
    BY <2>2 DEF DrawWord, FirstPicture, Blank, Leave, Crash, Restart, StartDrawing, stringVars
  <2>3. QED
    BY <2>1, <2>2
<1>3. Front' = Front /\ (stray' \/ ChainInOrder')
  BY <1>2, ChainKept
<1>4. /\ at' \in Places /\ undrawn' \subseteq Slots /\ last' \in BOOLEAN
      /\ fb' \in [Slots -> [drawing : Drawing, blank : BOOLEAN]] /\ drawing' \in Drawing
  <2>1. /\ at \in Places /\ undrawn \subseteq Slots /\ last \in BOOLEAN
        /\ fb \in [Slots -> [drawing : Drawing, blank : BOOLEAN]] /\ drawing \in Drawing
    BY <1>1 DEF StateOK, TypeOK, Places
  <2>2. CASE DrawWord
    <3>1. PICK i \in undrawn :
             /\ fb' = [fb EXCEPT ![i] = [drawing |-> drawing, blank |-> at = "fill"]]
             /\ undrawn' = undrawn \ {i}
      BY <2>2 DEF DrawWord
    <3>2. UNCHANGED <<at, last, drawing>>
      BY <2>2 DEF DrawWord
    <3>3. (at = "fill") \in BOOLEAN
      OBVIOUS
    <3>4. [drawing |-> drawing, blank |-> at = "fill"] \in [drawing : Drawing, blank : BOOLEAN]
      BY <2>1, <3>3
    <3>5. QED
      BY <2>1, <3>1, <3>2, <3>4
  <2>3. CASE FirstPicture \/ Blank \/ Restart
    <3>1. drawing' \in Drawing /\ undrawn' = Slots
      BY <2>1, <2>3 DEF FirstPicture, Blank, Restart, StartDrawing, Drawing
    <3>2. at' \in Places
      BY <2>3 DEF FirstPicture, Blank, Restart, StartDrawing, Places
    <3>3. last' \in BOOLEAN /\ fb' = fb
      BY <2>1, <2>3, Zenon DEF FirstPicture, Blank, Restart, progVars
    <3>4. QED
      BY <2>1, <3>1, <3>2, <3>3
  <2>4. CASE Sleep \/ Leave \/ Crash
    BY <2>1, <2>4 DEF Sleep, Leave, Crash, Places
  <2>5. QED
    BY <2>2, <2>3, <2>4
<1>5. UNCHANGED <<submitted, issued, iaddr, oaddr, ram>>
  BY <1>2 DEF dmaVars, fifo
<1>6. TypeOK'
  BY <1>1, <1>2, <1>4, <1>5 DEF TypeOK, Places
<1>7. stray' \in BOOLEAN /\ misled' \in Nat
  <2>1. stray \in BOOLEAN /\ misled \in Nat
    BY <1>1 DEF StateOK
  <2>2. stray' \in {stray, stray \/ issued # <<>>}
    BY Zenon DEF DrawWord, FirstPicture, Sleep, Blank, Leave, Crash, Restart, SleepOver
  <2>3. misled' \in {misled, misled + 1}
    BY DEF DrawWord, FirstPicture, Sleep, Blank, Leave, Crash, Restart, GoesByEmpty
  <2>4. stray' \in BOOLEAN
    BY <2>1, <2>2, Zenon
  <2>5. misled' \in Nat
    BY <2>1, <2>3
  <2>6. QED
    BY <2>4, <2>5
<1>8. StateOK'
  BY <1>1, <1>2, <1>4, <1>5, <1>6, <1>7 DEF StateOK
<1>9. Room => Room'
  BY <1>2, <1>3, RoomKept
<1>10. QED
  BY <1>3, <1>8, <1>9 DEF ChainInv

\* The poll answers for the whole frame the ioctl is about to submit.
LEMMA PollKeepsRoom ==
  ASSUME ChainInv, ~stray, Poll
  PROVE  ChainInv' /\ (misled' = 0 /\ Room => Room')
<1>1. StateOK /\ ChainInOrder
  BY DEF ChainInv
<1>2. /\ at = "poll" /\ at' = "ioctl" /\ next' = 0 /\ empty_count >= FRAME_SIZE_WORDS
      /\ misled' = IF empty_count > Depth - held /\ held + FRAME_SIZE_WORDS > Depth
                   THEN misled + 1 ELSE misled
      /\ UNCHANGED <<last, drawing, undrawn, fb, submitted, issued, iaddr, oaddr, ram, taken,
                     overrun, stray>>
  BY DEF Poll, RoomForFrame, GoesByEmpty, dmaVars, fifo, stringVars
<1>3. submitted = <<>> /\ issued = <<>>
  BY <1>1, <1>2 DEF ChainInOrder
<1>4. Front = FRAME_SIZE_WORDS /\ Goal' = 0 /\ Pending' = 0 /\ Front' = 0
  BY <1>2, <1>3 DEF Goal, Pending, Front, First
<1>5. ChainInOrder'
  BY <1>2, <1>3, <1>4 DEF ChainInOrder, Contiguous, Final
<1>6. ASSUME misled' = 0, Room PROVE Room'
  <2>1. held \in Ptr /\ empty_count \in Int /\ misled \in Nat
    BY <1>1, Counts DEF StateOK
  <2>2. held + FRAME_SIZE_WORDS <= Depth
    BY <1>2, <1>6, <2>1 DEF Ptr
  <2>3. held' = held
    BY <1>2 DEF held
  <2>4. RoomForTheRest'
    BY <1>4, <2>1, <2>2, <2>3 DEF RoomForTheRest, Ptr
  <2>5. NothingBeyond'
    BY <1>2, <1>6 DEF Room, NothingBeyond, Ahead, held
  <2>6. QED
    BY <2>4, <2>5 DEF Room
<1>7. StateOK'
  <2>1. TypeOK' /\ misled' \in Nat
    BY <1>1, <1>2 DEF StateOK, TypeOK
  <2>2. QED
    BY <1>1, <1>2, <2>1 DEF StateOK
<1>8. QED
  BY <1>5, <1>6, <1>7 DEF ChainInv

\* Before the first descriptor of a call nothing is on its way.
LEMMA NothingBefore ==
  ASSUME StateOK, ChainInOrder, at = "ioctl", next = 0
  PROVE  submitted = <<>> /\ issued = <<>>
<1>1. ASSUME NEW q \in Seq(Descriptor), Contiguous(q), Final(q, 0) = 0
      PROVE  q = <<>>
  <2>1. SUFFICES ASSUME q # <<>>
                 PROVE  FALSE
    OBVIOUS
  <2>2. Len(q) \in 1 .. Len(q) /\ DOMAIN q = 1 .. Len(q)
    BY <1>1, <2>1, EmptySeq, LenProperties
  <2>3. q[Len(q)] \in Descriptor /\ q[Len(q)].from < q[Len(q)].upto /\ q[Len(q)].upto = 0
    BY <1>1, <2>1, <2>2, ElementOfSeq DEF Contiguous, Final
  <2>4. QED
    BY <2>3 DEF Descriptor
<1>2. submitted = <<>>
  BY <1>1 DEF StateOK, ChainInOrder, Goal
<1>3. issued = <<>>
  BY <1>1, <1>2 DEF StateOK, ChainInOrder, Pending, First, Goal
<1>4. QED
  BY <1>2, <1>3

\* A call that fails before its first descriptor leaves nothing behind.
LEMMA FailureKeepsRoom ==
  ASSUME ChainInv, ~stray, SubmitFails
  PROVE  ChainInv' /\ (Room => Room')
<1>1. StateOK /\ ChainInOrder
  BY DEF ChainInv
<1>2. /\ at = "ioctl" /\ at' = "down" /\ (next > 0 => stray')
      /\ UNCHANGED <<last, drawing, undrawn, fb, next, submitted, issued, iaddr, oaddr, ram, taken,
                     overrun, misled>>
  BY DEF SubmitFails, dmaVars, fifo, stringVars
<1>3. stray' \in BOOLEAN
  BY Zenon DEF SubmitFails
<1>4. StateOK'
  <2>1. TypeOK'
    BY <1>1, <1>2 DEF StateOK, TypeOK
  <2>2. QED
    BY <1>1, <1>2, <1>3, <2>1 DEF StateOK
<1>5. NothingBeyond => NothingBeyond'
  BY <1>2 DEF NothingBeyond, Ahead, held
<1>6. ASSUME next = 0
      PROVE  ChainInOrder' /\ (RoomForTheRest => RoomForTheRest')
  <2>1. submitted = <<>> /\ issued = <<>>
    BY <1>1, <1>2, <1>6, NothingBefore
  <2>2. Front = 0 /\ Goal' = FRAME_SIZE_WORDS /\ Pending' = FRAME_SIZE_WORDS
        /\ Front' = FRAME_SIZE_WORDS
    BY <1>2, <1>6, <2>1 DEF Goal, Pending, Front, First
  <2>3. ChainInOrder'
    BY <1>2, <2>1, <2>2 DEF ChainInOrder, Contiguous, Final
  <2>4. held \in Ptr /\ held' = held
    BY <1>1, <1>2, Counts DEF StateOK, held
  <2>5. QED
    BY <2>2, <2>3, <2>4 DEF RoomForTheRest, Ptr
<1>7. next = 0 \/ next > 0
  BY <1>1 DEF StateOK
<1>8. QED
  BY <1>2, <1>4, <1>5, <1>6, <1>7 DEF ChainInv, Room

LEMMA IssueStepKeepsRoom ==
  ASSUME ChainInv, ~stray, Issue \/ OthersIssue
  PROVE  ChainInv' /\ (Room => Room')
<1>1. CASE Issue
  <2>1. /\ at = "ioctl" /\ next = FRAME_SIZE_WORDS /\ IssuePending /\ AfterFlush
        /\ UNCHANGED <<last, fb, next, fifo, stringVars, overrun, misled, stray>>
    BY <1>1 DEF Issue
  <2>2. drawing \in Drawing /\ undrawn \subseteq Slots
    BY DEF ChainInv, StateOK, TypeOK
  <2>3. /\ at' \in {"draw", "ending", "wait"}
        /\ undrawn' \subseteq Slots /\ drawing' \in Drawing
    BY <2>1, <2>2 DEF AfterFlush, StartDrawing, Drawing
  <2>4. QED
    BY <2>1, <2>3, IssueKeepsRoom
<1>2. CASE OthersIssue
  <2>1. /\ IssuePending /\ UNCHANGED progVars
        /\ UNCHANGED <<fb, last, fifo, stringVars, overrun, misled, stray>>
    BY <1>2 DEF OthersIssue, progVars
  <2>2. QED
    BY <2>1, IssueKeepsRoom
<1>3. QED
  BY <1>1, <1>2

\* A count that once misled stays on record.
LEMMA MisledStays ==
  ASSUME StateOK, [Next]_vars, misled' = 0
  PROVE  misled = 0
<1>1. misled' = misled \/ misled' = misled + 1
  BY DEF Next, Program, Engine, DrawWord, FirstPicture, Sleep, Poll, Submit, Issue, Blank, Leave,
         DmaWord, TakeWord, SubmitFails, OthersIssue, Crash, Restart, GoesByEmpty, vars
<1>2. QED
  BY <1>1 DEF StateOK

LEMMA RoomStep ==
  ASSUME ChainInv, [Next]_vars
  PROVE  ChainInv' /\ (misled' = 0 /\ RoomInv => RoomInv')
<1>1. CASE UNCHANGED vars
  <2>1. UNCHANGED <<at, last, drawing, undrawn, fb, next, submitted, issued, iaddr, oaddr, ram,
                    taken, overrun, misled, stray>>
    BY <1>1 DEF vars, progVars, dmaVars, fifo, stringVars
  <2>2. StateOK'
    BY <2>1 DEF ChainInv, StateOK, TypeOK
  <2>3. Goal' = Goal /\ Pending' = Pending /\ Front' = Front /\ held' = held
    BY <2>1 DEF Goal, Pending, Front, First, held
  <2>4. stray' \/ ChainInOrder'
    BY <2>1, <2>3 DEF ChainInv, ChainInOrder, Contiguous, Final
  <2>5. RoomInv => RoomInv'
    BY <2>1, <2>3 DEF RoomInv, Room, NothingBeyond, RoomForTheRest, Ahead
  <2>6. QED
    BY <2>2, <2>4, <2>5 DEF ChainInv
<1>2. CASE Next
  <2>1. ~stray
    BY <1>2 DEF Next, Going
  <2>2. CASE DmaWord
    BY <2>1, <2>2, DmaKeepsRoom
  <2>3. overrun' = overrun \/ DmaWord
    BY <1>2 DEF Next, Program, Engine, DrawWord, FirstPicture, Sleep, Poll, Submit, Issue, Blank,
                Leave, TakeWord, SubmitFails, OthersIssue, Crash, Restart
  <2>4. CASE DrawWord \/ FirstPicture \/ Sleep \/ Blank \/ Leave \/ Crash \/ Restart
    BY <2>1, <2>2, <2>3, <2>4, ElsewhereKeepsRoom DEF RoomInv
  <2>5. CASE Poll
    BY <2>1, <2>2, <2>3, <2>5, PollKeepsRoom DEF RoomInv
  <2>6. CASE Submit
    BY <2>1, <2>2, <2>3, <2>6, SubmitKeepsRoom DEF RoomInv
  <2>7. CASE SubmitFails
    BY <2>1, <2>2, <2>3, <2>7, FailureKeepsRoom DEF RoomInv
  <2>8. CASE Issue \/ OthersIssue
    BY <2>1, <2>2, <2>3, <2>8, IssueStepKeepsRoom DEF RoomInv
  <2>9. CASE TakeWord
    BY <2>1, <2>2, <2>3, <2>9, TakeKeepsRoom DEF RoomInv
  <2>10. QED
    BY <1>2, <2>2, <2>4, <2>5, <2>6, <2>7, <2>8, <2>9 DEF Next, Program, Engine
<1>3. QED
  BY <1>1, <1>2

\* The descriptors on their way are one run up to where the ioctl has got to, whatever
\* the counts say; and while they do not mislead, the words on their way and those the
\* ioctl has still to submit have had their room since the poll, which is many steps
\* before the transfer it answers for (display.rs:173-183, led-driver.c:59-96).
THEOREM RoomInvariant == Spec => [](ChainInv /\ (misled = 0 => RoomInv))
<1> DEFINE Inv == ChainInv /\ (misled = 0 => RoomInv)
<1>1. Init => Inv
  BY RoomInit
<1>2. Inv /\ [Next]_vars => Inv'
  BY RoomStep, MisledStays DEF ChainInv
<1>3. QED
  BY <1>1, <1>2, PTL DEF Spec

\* Every state is of its types: what the engine puts into the FIFO is always a word of
\* the frame buffer (led-driver.c:67-93).
THEOREM TypesHold == Spec => []TypeOK
<1>1. ChainInv => TypeOK
  BY DEF ChainInv, StateOK
<1>2. QED
  BY <1>1, RoomInvariant, PTL

\* flush polls once a frame, and no word is overwritten, for either width of the
\* pointers, as long as no count says more than is there (display.rs:173-183).
THEOREM NothingOverrun == Spec => []NeverOverruns
<1>1. (misled = 0 => RoomInv) => NeverOverruns
  BY DEF RoomInv, NeverOverruns
<1>2. QED
  BY <1>1, RoomInvariant, PTL

-----------------------------------------------------------------------------
(* Frames stay whole *)

\* Words are counted from the start of the frame the strings are taking.  The one being
\* taken, those behind it in the FIFO and the one on its way are three at most.
FrameNo(p) == IF p < FRAME_SIZE_WORDS THEN 0 ELSE IF p < 2 * FRAME_SIZE_WORDS THEN 1 ELSE 2
PlaceIn(p) == IF p < FRAME_SIZE_WORDS THEN p
              ELSE IF p < 2 * FRAME_SIZE_WORDS THEN p - FRAME_SIZE_WORDS
              ELSE p - 2 * FRAME_SIZE_WORDS

Total == Len(taken) + held

\* o says of which flush each of the three frames is.
TakenOf(o) == \A i \in DOMAIN taken : taken[i].slot = i - 1 /\ taken[i].of = o[0]

RamOf(o) ==
    \A s \in 0 .. Depth - 1 : Ahead(s) < held =>
        /\ ram[s].slot = PlaceIn(Len(taken) + Ahead(s))
        /\ ram[s].of = o[FrameNo(Len(taken) + Ahead(s))]

AllOf(q, flush) == \A i \in DOMAIN q : q[i].of = flush

\* The next word to be transferred is the next one of a frame.
ChainOf(o) ==
    IF Front < FRAME_SIZE_WORDS
    THEN /\ Front = PlaceIn(Total)
         /\ AllOf(issued, o[FrameNo(Total)]) /\ AllOf(submitted, o[FrameNo(Total)])
         /\ at = "ioctl" => drawing = o[FrameNo(Total)]
    ELSE PlaceIn(Total) = 0

FrameInv == \E o \in [0 .. 2 -> Drawing] : TakenOf(o) /\ RamOf(o) /\ (stray \/ ChainOf(o))

LEMMA NextPlace ==
  ASSUME NEW p \in 0 .. 3 * FRAME_SIZE_WORDS - 2
  PROVE  /\ PlaceIn(p) + 1 < FRAME_SIZE_WORDS =>
                FrameNo(p + 1) = FrameNo(p) /\ PlaceIn(p + 1) = PlaceIn(p) + 1
         /\ PlaceIn(p) + 1 = FRAME_SIZE_WORDS => PlaceIn(p + 1) = 0
BY DEF FrameNo, PlaceIn

LEMMA TotalBounded ==
  ASSUME ChainInv, RoomInv, ~stray
  PROVE  /\ Len(taken) \in 0 .. FRAME_SIZE_WORDS - 1 /\ held \in 0 .. Depth
         /\ Total \in 0 .. 3 * FRAME_SIZE_WORDS - 2 /\ FrameNo(Total) \in 0 .. 2
         /\ Front \in 0 .. FRAME_SIZE_WORDS
<1>1. /\ Len(taken) \in 0 .. FRAME_SIZE_WORDS - 1 /\ held \in Ptr
      /\ Front \in 0 .. FRAME_SIZE_WORDS
  BY Counts, FrontInFrame, LenProperties DEF ChainInv, StateOK, TypeOK
<1>2. held \in 0 .. Depth
  BY <1>1 DEF RoomInv, Room, RoomForTheRest, Ptr
<1>3. Total \in 0 .. 3 * FRAME_SIZE_WORDS - 2
  BY <1>1, <1>2 DEF Total
<1>4. FrameNo(Total) \in 0 .. 2
  BY DEF FrameNo
<1>5. QED
  BY <1>1, <1>2, <1>3, <1>4

\* What does not move a word keeps the frames of those that are there.
LEMMA WordsKept ==
  ASSUME NEW o, TakenOf(o), RamOf(o), UNCHANGED <<fifo, stringVars>>
  PROVE  TakenOf(o)' /\ RamOf(o)' /\ Total' = Total
<1>1. UNCHANGED <<iaddr, oaddr, ram, taken>>
  BY DEF fifo, stringVars
<1>2. held' = held /\ \A s : Ahead(s)' = Ahead(s)
  BY <1>1 DEF held, Ahead
<1>3. QED
  BY <1>1, <1>2 DEF TakenOf, RamOf, Total

LEMMA StartsInFrame ==
  ASSUME NEW q \in Seq(Descriptor), NEW g, Contiguous(q), q # <<>> \/ g < FRAME_SIZE_WORDS
  PROVE  First(q, g) < FRAME_SIZE_WORDS
<1>1. CASE q # <<>>
  <2>1. 1 \in 1 .. Len(q) /\ DOMAIN q = 1 .. Len(q)
    BY <1>1, EmptySeq, LenProperties
  <2>2. q[1] \in Descriptor /\ q[1].from < q[1].upto
    BY <2>1, ElementOfSeq DEF Contiguous
  <2>3. QED
    BY <1>1, <2>2 DEF First, Descriptor
<1>2. QED
  BY <1>1 DEF First

LEMMA FramesElsewhere ==
  ASSUME ChainInv, RoomInv, ~stray, NEW o \in [0 .. 2 -> Drawing], TakenOf(o), RamOf(o), ChainOf(o),
         DrawWord \/ FirstPicture \/ Sleep \/ Blank \/ Leave \/ Crash \/ Restart
  PROVE  TakenOf(o)' /\ RamOf(o)' /\ ChainOf(o)'
<1>1. /\ at # "ioctl" /\ at' # "ioctl"
      /\ UNCHANGED <<submitted, issued, fifo, stringVars>>
  BY DEF DrawWord, FirstPicture, Sleep, FlushDue, Blank, Leave, Crash, Restart, StartDrawing,
         dmaVars
<1>2. TakenOf(o)' /\ RamOf(o)' /\ Total' = Total
  BY <1>1, WordsKept
<1>3. Goal' = Goal /\ Pending' = Pending /\ Front' = Front
  BY <1>1 DEF Goal, Pending, Front, First
<1>4. QED
  BY <1>1, <1>2, <1>3 DEF ChainOf, AllOf

LEMMA FramesPoll ==
  ASSUME ChainInv, RoomInv, ~stray, NEW o \in [0 .. 2 -> Drawing], TakenOf(o), RamOf(o), ChainOf(o), Poll
  PROVE  \E p \in [0 .. 2 -> Drawing] : TakenOf(p)' /\ RamOf(p)' /\ ChainOf(p)'
<1>1. /\ at = "poll" /\ at' = "ioctl" /\ next' = 0
      /\ UNCHANGED <<drawing, submitted, issued, fifo, stringVars>>
  BY DEF Poll, dmaVars
<1>2. submitted = <<>> /\ issued = <<>> /\ drawing \in Drawing
  BY <1>1 DEF ChainInv, ChainInOrder, StateOK
<1>3. Front = FRAME_SIZE_WORDS /\ Front' = 0
  BY <1>1, <1>2 DEF Goal, Pending, Front, First
<1>4. PlaceIn(Total) = 0
  BY <1>3 DEF ChainOf
<1> DEFINE n == FrameNo(Total)
<1>5. PICK p \in [0 .. 2 -> Drawing] : /\ p[n] = drawing
                                       /\ \A k \in 0 .. 2 : k # n => p[k] = o[k]
  <2> DEFINE p == [o EXCEPT ![n] = drawing]
  <2>1. p \in [0 .. 2 -> Drawing] /\ p[n] = drawing /\ \A k \in 0 .. 2 : k # n => p[k] = o[k]
    BY <1>2, TotalBounded
  <2>2. QED
    BY <2>1
<1>6. \A k \in 0 .. Total - 1 : FrameNo(k) # n /\ FrameNo(k) \in 0 .. 2
  BY <1>4, TotalBounded DEF FrameNo, PlaceIn
<1>7. TakenOf(p)
  <2>1. CASE taken = <<>>
    BY <2>1 DEF TakenOf
  <2>2. CASE taken # <<>>
    <3>1. Len(taken) > 0
      BY <2>2, EmptySeq DEF ChainInv, StateOK, TypeOK
    <3>2. 0 \in 0 .. Total - 1 /\ FrameNo(0) = 0
      BY <3>1, TotalBounded DEF Total, FrameNo
    <3>3. QED
      BY <1>5, <1>6, <3>2 DEF TakenOf
  <2>3. QED
    BY <2>1, <2>2
<1>8. RamOf(p)
  <2>1. SUFFICES ASSUME NEW s \in 0 .. Depth - 1, Ahead(s) < held
                 PROVE  /\ ram[s].slot = PlaceIn(Len(taken) + Ahead(s))
                        /\ ram[s].of = p[FrameNo(Len(taken) + Ahead(s))]
    BY DEF RamOf
  <2>2. Ahead(s) \in 0 .. Depth - 1
    BY Counts DEF ChainInv, StateOK
  <2>3. Len(taken) + Ahead(s) \in 0 .. Total - 1
    BY <2>1, <2>2, TotalBounded DEF Total
  <2>4. QED
    BY <1>5, <1>6, <2>1, <2>3 DEF RamOf
<1>9. TakenOf(p)' /\ RamOf(p)' /\ Total' = Total
  BY <1>1, <1>7, <1>8, WordsKept
<1>10. ChainOf(p)'
  BY <1>1, <1>2, <1>3, <1>4, <1>5, <1>9 DEF ChainOf, AllOf
<1>11. QED
  BY <1>5, <1>9, <1>10

LEMMA FramesSubmit ==
  ASSUME ChainInv, RoomInv, ~stray, NEW o \in [0 .. 2 -> Drawing], TakenOf(o), RamOf(o), ChainOf(o), Submit
  PROVE  TakenOf(o)' /\ RamOf(o)' /\ ChainOf(o)'
<1> DEFINE upto == next + Chunk(next)
           d == [from |-> next, upto |-> upto, of |-> drawing]
<1>1. /\ at = "ioctl" /\ submitted' = Append(submitted, d) /\ next' = upto
      /\ UNCHANGED <<at, issued, drawing, fifo, stringVars>> /\ next < FRAME_SIZE_WORDS
  BY DEF Submit
<1>2. TakenOf(o)' /\ RamOf(o)' /\ Total' = Total
  BY <1>1, WordsKept
<1>3. /\ submitted \in Seq(Descriptor) /\ issued \in Seq(Descriptor)
      /\ Contiguous(submitted) /\ Contiguous(issued)
      /\ Final(submitted, next) = next /\ next \in 0 .. FRAME_SIZE_WORDS /\ Goal = next
  BY <1>1 DEF ChainInv, StateOK, ChainInOrder, Goal
<1>4. upto \in 0 .. FRAME_SIZE_WORDS /\ next < upto /\ drawing \in Drawing
  BY <1>1, <1>3 DEF Chunk, Least, ChainInv, StateOK
<1> HIDE DEF upto
<1>5. d \in Descriptor /\ d.from = next /\ d.upto = upto /\ d.of = drawing
  BY <1>3, <1>4 DEF Descriptor
<1> HIDE DEF d
<1>6. First(submitted', upto) = First(submitted, next)
  BY <1>1, <1>3, <1>4, <1>5, AppendRun
<1>7. Front' = Front /\ Front < FRAME_SIZE_WORDS
  <2>1. Goal' = upto
    BY <1>1 DEF Goal
  <2>2. Pending' = Pending /\ Pending < FRAME_SIZE_WORDS
    BY <1>1, <1>3, <1>6, <2>1, StartsInFrame DEF Pending
  <2>3. QED
    BY <1>1, <1>3, <2>2, StartsInFrame DEF Front
<1>8. AllOf(submitted', o[FrameNo(Total)])
  <2>1. AllOf(submitted, o[FrameNo(Total)]) /\ d.of = o[FrameNo(Total)]
    BY <1>1, <1>5, <1>7 DEF ChainOf
  <2>2. /\ DOMAIN submitted' = 1 .. Len(submitted) + 1
        /\ \A i \in 1 .. Len(submitted) : submitted'[i] = submitted[i]
        /\ submitted'[Len(submitted) + 1] = d
        /\ DOMAIN submitted = 1 .. Len(submitted) /\ Len(submitted) \in Nat
    BY <1>1, <1>3, <1>5, AppendProperties, LenProperties
  <2>3. QED
    BY <2>1, <2>2 DEF AllOf
<1>9. ChainOf(o)'
  BY <1>1, <1>2, <1>7, <1>8 DEF ChainOf
<1>10. QED
  BY <1>2, <1>9

LEMMA FramesFailure ==
  ASSUME ChainInv, RoomInv, ~stray, NEW o \in [0 .. 2 -> Drawing], TakenOf(o), RamOf(o), ChainOf(o),
         SubmitFails
  PROVE  TakenOf(o)' /\ RamOf(o)' /\ (stray' \/ ChainOf(o)')
<1>1. /\ at = "ioctl" /\ at' = "down" /\ (next > 0 => stray')
      /\ UNCHANGED <<issued, submitted, fifo, stringVars>> /\ next < FRAME_SIZE_WORDS
  BY DEF SubmitFails, dmaVars
<1>2. TakenOf(o)' /\ RamOf(o)' /\ Total' = Total
  BY <1>1, WordsKept
<1>3. ASSUME next = 0
      PROVE  ChainOf(o)'
  <2>1. submitted = <<>> /\ issued = <<>>
    BY <1>1, <1>3, NothingBefore DEF ChainInv
  <2>2. Front = 0 /\ Front' = FRAME_SIZE_WORDS
    BY <1>1, <1>3, <2>1 DEF Goal, Pending, Front, First
  <2>3. QED
    BY <1>2, <2>2 DEF ChainOf
<1>4. next = 0 \/ next > 0
  BY DEF ChainInv, StateOK
<1>5. QED
  BY <1>1, <1>2, <1>3, <1>4

\* Two runs of the same flush.
LEMMA AllOfBoth ==
  ASSUME NEW q \in Seq(Descriptor), NEW r \in Seq(Descriptor), NEW v, AllOf(q, v), AllOf(r, v)
  PROVE  AllOf(q \o r, v) /\ AllOf(<<>>, v)
<1>1. /\ DOMAIN (q \o r) = 1 .. Len(q) + Len(r)
      /\ \A i \in 1 .. Len(q) + Len(r) :
            (q \o r)[i] = IF i <= Len(q) THEN q[i] ELSE r[i - Len(q)]
      /\ DOMAIN q = 1 .. Len(q) /\ DOMAIN r = 1 .. Len(r)
      /\ Len(q) \in Nat /\ Len(r) \in Nat
  BY ConcatProperties, LenProperties
<1>2. QED
  BY <1>1 DEF AllOf

LEMMA FramesIssue ==
  ASSUME ChainInv, RoomInv, ~stray, NEW o \in [0 .. 2 -> Drawing], TakenOf(o), RamOf(o), ChainOf(o),
         Issue \/ OthersIssue
  PROVE  TakenOf(o)' /\ RamOf(o)' /\ ChainOf(o)'
<1>1. /\ issued' = issued \o submitted /\ submitted' = <<>>
      /\ UNCHANGED <<next, fifo, stringVars>>
      /\ \/ UNCHANGED <<at, drawing>>
         \/ at = "ioctl" /\ next = FRAME_SIZE_WORDS /\ at' # "ioctl"
  BY DEF Issue, OthersIssue, IssuePending, AfterFlush, StartDrawing, progVars
<1>2. TakenOf(o)' /\ RamOf(o)' /\ Total' = Total
  BY <1>1, WordsKept
<1>3. Goal' = Goal
  BY <1>1 DEF Goal
<1>4. /\ issued \in Seq(Descriptor) /\ submitted \in Seq(Descriptor)
      /\ First(issued', Goal) = Front
  BY <1>1, JoinedRuns DEF ChainInv, StateOK, ChainInOrder, Pending, Front
<1>5. Front' = Front
  BY <1>1, <1>3, <1>4 DEF Front, Pending, First
<1>6. ASSUME NEW v, AllOf(issued, v), AllOf(submitted, v)
      PROVE  AllOf(issued', v) /\ AllOf(submitted', v)
  BY <1>1, <1>4, <1>6, AllOfBoth
<1>7. ChainOf(o)'
  BY <1>1, <1>2, <1>5, <1>6 DEF ChainOf
<1>8. QED
  BY <1>2, <1>7

LEMMA TransferredOf ==
  ASSUME NEW q \in Seq(Descriptor), q # <<>>, NEW v, AllOf(q, v)
  PROVE  Head(q).of = v /\ AllOf(Transferred(q), v)
<1>1. /\ 1 \in 1 .. Len(q) /\ DOMAIN q = 1 .. Len(q) /\ Len(q) \in Nat
      /\ q[1] \in Descriptor /\ Head(q) = q[1]
  BY EmptySeq, LenProperties, ElementOfSeq
<1>2. CASE Transferred(q) = Tail(q)
  <2>1. /\ DOMAIN Tail(q) = 1 .. Len(q) - 1
        /\ \A i \in 1 .. Len(q) - 1 : Tail(q)[i] = q[i + 1]
    BY HeadTailProperties, LenProperties
  <2>2. QED
    BY <1>1, <1>2, <2>1 DEF AllOf
<1>3. CASE Transferred(q) = [q EXCEPT ![1] = [q[1] EXCEPT !.from = q[1].from + 1]]
  <2> DEFINE d == [q[1] EXCEPT !.from = q[1].from + 1]
  <2>1. d.of = q[1].of
    BY <1>1, DescriptorMoved
  <2> HIDE DEF d
  <2>2. [q EXCEPT ![1] = d][1] = d /\ \A i \in 2 .. Len(q) : [q EXCEPT ![1] = d][i] = q[i]
    BY <1>1
  <2>3. DOMAIN [q EXCEPT ![1] = d] = 1 .. Len(q)
    BY <1>1
  <2>4. Transferred(q) = [q EXCEPT ![1] = d]
    BY <1>3 DEF d
  <2>5. QED
    BY <1>1, <2>1, <2>2, <2>3, <2>4 DEF AllOf
<1>4. Transferred(q) = Tail(q)
      \/ Transferred(q) = [q EXCEPT ![1] = [q[1] EXCEPT !.from = q[1].from + 1]]
  BY <1>1, Zenon DEF Transferred
<1>5. QED
  BY <1>1, <1>2, <1>3, <1>4 DEF AllOf

LEMMA FramesDma ==
  ASSUME ChainInv, RoomInv, ~stray, NEW o \in [0 .. 2 -> Drawing],
         TakenOf(o), RamOf(o), ChainOf(o), DmaWord
  PROVE  TakenOf(o)' /\ RamOf(o)' /\ ChainOf(o)'
<1> DEFINE chunk == Head(issued)
           slot == Slot(iaddr)
           word == [slot |-> chunk.from, of |-> chunk.of,
                    drawing |-> fb[chunk.from].drawing, blank |-> fb[chunk.from].blank]
<1>1. /\ issued # <<>> /\ ram' = [ram EXCEPT ![slot] = word]
      /\ issued' = Transferred(issued) /\ iaddr' = Advance(iaddr, TRUE)
      /\ UNCHANGED <<at, drawing, next, submitted, oaddr, taken>>
  BY DEF DmaWord, Transferred, progVars, stringVars
<1>2. /\ iaddr \in Ptr /\ oaddr \in Ptr /\ issued \in Seq(Descriptor)
      /\ Contiguous(issued) /\ Final(issued, Pending) = Pending
      /\ ram \in [0 .. Depth - 1 -> Word \cup {Stale}]
  BY DEF ChainInv, StateOK, ChainInOrder
<1>3. Goal' = Goal /\ Pending' = Pending
  BY <1>1 DEF Goal, Pending, First
<1>4. chunk.from = Front /\ Front < FRAME_SIZE_WORDS /\ Front' = Front + 1
  BY <1>1, <1>2, <1>3, TransferredRun DEF Front
<1>5. /\ held < Depth /\ slot \in 0 .. Depth - 1 /\ Ahead(slot) = held
      /\ \A s \in 0 .. Depth - 1 : Ahead(s) \in 0 .. Depth - 1
      /\ \A s \in 0 .. Depth - 1 : Ahead(s) = held => s = slot
  <2>1. held < Depth
    BY <1>4, TotalBounded DEF RoomInv, Room, RoomForTheRest
  <2>2. QED
    BY <1>2, <2>1, Counts
<1>6. held' = held + 1 /\ \A s \in 0 .. Depth - 1 : Ahead(s)' = Ahead(s)
  BY <1>1, <1>2, <1>5, WriteMoves
<1>7. Total' = Total + 1
  BY <1>1, <1>6, TotalBounded DEF Total
<1>8. /\ Front = PlaceIn(Total) /\ chunk.of = o[FrameNo(Total)]
      /\ AllOf(issued', o[FrameNo(Total)]) /\ AllOf(submitted, o[FrameNo(Total)])
      /\ at = "ioctl" => drawing = o[FrameNo(Total)]
  BY <1>1, <1>2, <1>4, TransferredOf DEF ChainOf
<1>9. word.slot = PlaceIn(Total) /\ word.of = o[FrameNo(Total)]
  BY <1>4, <1>8
<1> HIDE DEF word, slot, chunk
<1>10. TakenOf(o)'
  BY <1>1 DEF TakenOf
<1>11. RamOf(o)'
  <2>1. SUFFICES ASSUME NEW s \in 0 .. Depth - 1, Ahead(s) < held + 1
                 PROVE  /\ ram'[s].slot = PlaceIn(Len(taken) + Ahead(s))
                        /\ ram'[s].of = o[FrameNo(Len(taken) + Ahead(s))]
    BY <1>1, <1>6 DEF RamOf
  <2>2. CASE s = slot
    BY <1>1, <1>2, <1>5, <1>9, <2>2 DEF Total
  <2>3. CASE s # slot
    <3>1. Ahead(s) < held
      <4>1. PICK a \in 0 .. Depth - 1 : a = Ahead(s)
        BY <1>5
      <4>2. PICK n \in 0 .. Depth : n = held
        BY TotalBounded
      <4>3. a < n + 1 /\ a # n
        BY <1>5, <2>1, <2>3, <4>1, <4>2
      <4>4. a < n
        BY <4>3
      <4>5. QED
        BY <4>1, <4>2, <4>4
    <3>2. ram'[s] = ram[s]
      BY <1>1, <1>2, <2>3
    <3>3. QED
      BY <3>1, <3>2 DEF RamOf
  <2>4. QED
    BY <2>2, <2>3
<1>12. ChainOf(o)'
  <2>1. CASE Front + 1 < FRAME_SIZE_WORDS
    <3>1. FrameNo(Total + 1) = FrameNo(Total) /\ PlaceIn(Total + 1) = Front + 1
      BY <1>8, <2>1, TotalBounded, NextPlace
    <3>2. QED
      BY <1>1, <1>4, <1>7, <1>8, <2>1, <3>1 DEF ChainOf
  <2>2. CASE Front + 1 = FRAME_SIZE_WORDS
    <3>1. PlaceIn(Total + 1) = 0
      BY <1>8, <2>2, TotalBounded, NextPlace
    <3>2. QED
      BY <1>4, <1>7, <2>2, <3>1 DEF ChainOf
  <2>3. QED
    BY <1>4, <2>1, <2>2, TotalBounded
<1>13. QED
  BY <1>10, <1>11, <1>12

LEMMA FramesTake ==
  ASSUME ChainInv, RoomInv, ~stray, NEW o \in [0 .. 2 -> Drawing],
         TakenOf(o), RamOf(o), ChainOf(o), TakeWord, misled' = 0
  PROVE  \E p \in [0 .. 2 -> Drawing] : TakenOf(p)' /\ RamOf(p)' /\ ChainOf(p)'
<1> DEFINE slot == Slot(oaddr)
           now == Append(taken, Content(ram[slot]))
<1>1. /\ misled' = IF held = 0 THEN misled + 1 ELSE misled
      /\ ram' = [ram EXCEPT ![slot] = Stale] /\ oaddr' = Advance(oaddr, TRUE)
      /\ taken' = IF Len(now) < FRAME_SIZE_WORDS THEN now ELSE <<>>
      /\ UNCHANGED <<at, drawing, next, submitted, issued, iaddr>>
  BY DEF TakeWord, progVars, dmaVars
<1>2. /\ iaddr \in Ptr /\ oaddr \in Ptr /\ taken \in Seq(Contents)
      /\ ram \in [0 .. Depth - 1 -> Word \cup {Stale}]
  BY DEF ChainInv, StateOK, TypeOK
<1>3. held \in 0 .. Depth /\ held > 0 /\ slot \in 0 .. Depth - 1
  <2>1. slot \in 0 .. Depth - 1
    BY <1>2, Counts
  <2>2. held \in 0 .. Depth /\ misled \in Nat
    BY TotalBounded DEF ChainInv, StateOK
  <2>3. QED
    BY <1>1, <2>1, <2>2
<1>4. /\ held' = held - 1
      /\ \A s \in 0 .. Depth - 1 : IF s = slot THEN Ahead(s) = 0 /\ Ahead(s)' = Depth - 1
                                   ELSE Ahead(s)' = Ahead(s) - 1
  BY <1>1, <1>2, <1>3, ReadMoves
<1>5. \A s \in 0 .. Depth - 1 : Ahead(s) \in 0 .. Depth - 1
  BY <1>2, Counts
<1>6. Goal' = Goal /\ Pending' = Pending /\ Front' = Front
  BY <1>1 DEF Goal, Pending, Front, First
<1>7. Content(ram[slot]).slot = Len(taken) /\ Content(ram[slot]).of = o[0]
  <2>1. Ahead(slot) = 0
    BY <1>3, <1>4
  <2>2. PlaceIn(Len(taken)) = Len(taken) /\ FrameNo(Len(taken)) = 0
    BY TotalBounded DEF PlaceIn, FrameNo
  <2>3. QED
    BY <1>3, <2>1, <2>2, TotalBounded DEF RamOf, Content
<1>8. /\ Len(now) = Len(taken) + 1 /\ DOMAIN now = 1 .. Len(taken) + 1
      /\ \A i \in 1 .. Len(taken) : now[i] = taken[i]
      /\ now[Len(taken) + 1] = Content(ram[slot]) /\ DOMAIN taken = 1 .. Len(taken)
  <2>1. Content(ram[slot]) \in Contents
    BY <1>2, <1>3 DEF Contents
  <2>2. QED
    BY <1>2, <2>1, AppendProperties, LenProperties
<1> HIDE DEF now, slot
<1>9. \A s \in 0 .. Depth - 1 : Ahead(s)' < held' =>
         s # slot /\ Ahead(s)' = Ahead(s) - 1 /\ Ahead(s) < held /\ ram'[s] = ram[s]
  <2>1. SUFFICES ASSUME NEW s \in 0 .. Depth - 1, Ahead(s)' < held'
                 PROVE  /\ s # slot /\ Ahead(s)' = Ahead(s) - 1
                        /\ Ahead(s) < held /\ ram'[s] = ram[s]
    OBVIOUS
  <2>2. s # slot
    BY <1>3, <1>4, <2>1
  <2>3. Ahead(s)' = Ahead(s) - 1 /\ Ahead(s) < held
    BY <1>3, <1>4, <1>5, <2>1, <2>2
  <2>4. QED
    BY <1>1, <1>2, <2>2, <2>3
<1>10. CASE Len(taken) + 1 < FRAME_SIZE_WORDS
  <2>1. taken' = now /\ Len(taken') = Len(taken) + 1 /\ Total' = Total
    BY <1>1, <1>3, <1>4, <1>8, <1>10, TotalBounded DEF Total
  <2>2. TakenOf(o)'
    <3>1. SUFFICES ASSUME NEW i \in 1 .. Len(taken) + 1
                   PROVE  now[i].slot = i - 1 /\ now[i].of = o[0]
      BY <1>8, <2>1 DEF TakenOf
    <3>2. Len(taken) \in Nat
      BY TotalBounded
    <3>3. CASE i \in 1 .. Len(taken)
      BY <1>8, <3>3 DEF TakenOf
    <3>4. CASE i = Len(taken) + 1
      BY <1>7, <1>8, <3>2, <3>4
    <3>5. QED
      BY <3>1, <3>2, <3>3, <3>4
  <2>3. RamOf(o)'
    <3>1. SUFFICES ASSUME NEW s \in 0 .. Depth - 1, Ahead(s)' < held'
                   PROVE  /\ ram'[s].slot = PlaceIn(Len(taken') + Ahead(s)')
                          /\ ram'[s].of = o[FrameNo(Len(taken') + Ahead(s)')]
      BY DEF RamOf
    <3>2. Ahead(s)' = Ahead(s) - 1 /\ ram'[s] = ram[s] /\ Ahead(s) < held
      BY <1>9, <3>1
    <3>3. Len(taken') + Ahead(s)' = Len(taken) + Ahead(s)
      <4>1. Ahead(s) \in 0 .. Depth - 1
        BY <1>5, <3>1
      <4>2. Len(taken) \in 0 .. FRAME_SIZE_WORDS - 1
        BY TotalBounded
      <4>3. Len(taken') = Len(taken) + 1
        BY <2>1
      <4>4. QED
        BY <3>2, <4>1, <4>2, <4>3
    <3>4. QED
      BY <3>2, <3>3 DEF RamOf
  <2>4. ChainOf(o)'
    BY <1>1, <1>6, <2>1 DEF ChainOf, AllOf
  <2>5. QED
    BY <2>2, <2>3, <2>4
<1>11. CASE Len(taken) + 1 = FRAME_SIZE_WORDS
  <2>1. taken' = <<>> /\ Len(taken') = 0 /\ Total' = Total - FRAME_SIZE_WORDS
        /\ Total >= FRAME_SIZE_WORDS
    BY <1>1, <1>3, <1>4, <1>8, <1>11, EmptySeq, TotalBounded DEF Total
  <2>2. PICK p \in [0 .. 2 -> Drawing] : p[0] = o[1] /\ p[1] = o[2]
    <3> DEFINE p == [k \in 0 .. 2 |-> IF k = 0 THEN o[1] ELSE o[2]]
    <3>1. p \in [0 .. 2 -> Drawing] /\ p[0] = o[1] /\ p[1] = o[2]
      OBVIOUS
    <3>2. QED
      BY <3>1
  <2>3. ASSUME NEW k \in FRAME_SIZE_WORDS .. 3 * FRAME_SIZE_WORDS - 2
        PROVE  /\ PlaceIn(k - FRAME_SIZE_WORDS) = PlaceIn(k)
               /\ p[FrameNo(k - FRAME_SIZE_WORDS)] = o[FrameNo(k)]
    BY <2>2 DEF PlaceIn, FrameNo
  <2>4. TakenOf(p)'
    BY <2>1 DEF TakenOf
  <2>5. RamOf(p)'
    <3>1. SUFFICES ASSUME NEW s \in 0 .. Depth - 1, Ahead(s)' < held'
                   PROVE  /\ ram'[s].slot = PlaceIn(Len(taken') + Ahead(s)')
                          /\ ram'[s].of = p[FrameNo(Len(taken') + Ahead(s)')]
      BY DEF RamOf
    <3> DEFINE k == Len(taken) + Ahead(s)
    <3>2. ram'[s] = ram[s] /\ Ahead(s) < held /\ Ahead(s) \in 0 .. Depth - 1
          /\ Ahead(s)' = Ahead(s) - 1 /\ s # slot
      BY <1>5, <1>9, <3>1
    <3>3. Ahead(s) > 0
      <4>1. Ahead(s) = 0 => s = slot
        BY <1>2, Counts DEF slot
      <4>2. QED
        BY <3>2, <4>1
    <3>4. k \in FRAME_SIZE_WORDS .. 3 * FRAME_SIZE_WORDS - 2
          /\ Len(taken') + Ahead(s)' = k - FRAME_SIZE_WORDS
      <4>1. Len(taken) = FRAME_SIZE_WORDS - 1 /\ Len(taken') = 0 /\ held \in 0 .. Depth
        BY <1>11, <2>1, TotalBounded
      <4>2. QED
        BY <3>2, <3>3, <4>1
    <3>5. ram[s].slot = PlaceIn(k) /\ ram[s].of = o[FrameNo(k)]
      BY <3>2 DEF RamOf
    <3> HIDE DEF k
    <3>6. QED
      BY <2>3, <3>2, <3>4, <3>5
  <2>6. ChainOf(p)'
    <3>1. PlaceIn(Total') = PlaceIn(Total) /\ p[FrameNo(Total')] = o[FrameNo(Total)]
      BY <2>1, <2>3, TotalBounded
    <3>2. QED
      BY <1>1, <1>6, <3>1 DEF ChainOf, AllOf
  <2>7. QED
    BY <2>4, <2>5, <2>6
<1>12. QED
  BY <1>10, <1>11, TotalBounded

LEMMA FrameStep ==
  ASSUME ChainInv, RoomInv, FrameInv, [Next]_vars, misled' = 0
  PROVE  FrameInv'
<1>1. CASE UNCHANGED vars
  <2>1. UNCHANGED <<at, drawing, next, submitted, issued, iaddr, oaddr, ram, taken, stray>>
    BY <1>1 DEF vars, progVars, dmaVars, fifo, stringVars
  <2>2. PICK o \in [0 .. 2 -> Drawing] : TakenOf(o) /\ RamOf(o) /\ (stray \/ ChainOf(o))
    BY DEF FrameInv
  <2>3. TakenOf(o)' /\ RamOf(o)' /\ Total' = Total
    <3>1. UNCHANGED <<fifo, stringVars>>
      BY <1>1 DEF vars
    <3>2. QED
      BY <2>2, <3>1, WordsKept
  <2>4. stray' \/ ChainOf(o)'
    BY <2>1, <2>2, <2>3 DEF ChainOf, AllOf, Front, Pending, Goal, First
  <2>5. QED
    BY <2>3, <2>4 DEF FrameInv
<1>2. CASE Next
  <2>1. ~stray
    BY <1>2 DEF Next, Going
  <2>2. PICK o \in [0 .. 2 -> Drawing] : TakenOf(o) /\ RamOf(o) /\ ChainOf(o)
    BY <2>1 DEF FrameInv
  <2>3. CASE DrawWord \/ FirstPicture \/ Sleep \/ Blank \/ Leave \/ Crash \/ Restart
    BY <2>1, <2>2, <2>3, FramesElsewhere DEF FrameInv
  <2>4. CASE Poll
    BY <2>1, <2>2, <2>4, FramesPoll DEF FrameInv
  <2>5. CASE Submit
    BY <2>1, <2>2, <2>5, FramesSubmit DEF FrameInv
  <2>6. CASE SubmitFails
    BY <2>1, <2>2, <2>6, FramesFailure DEF FrameInv
  <2>7. CASE Issue \/ OthersIssue
    BY <2>1, <2>2, <2>7, FramesIssue DEF FrameInv
  <2>8. CASE DmaWord
    BY <2>1, <2>2, <2>8, FramesDma DEF FrameInv
  <2>9. CASE TakeWord
    BY <2>1, <2>2, <2>9, FramesTake DEF FrameInv
  <2>10. QED
    BY <1>2, <2>3, <2>4, <2>5, <2>6, <2>7, <2>8, <2>9 DEF Next, Program, Engine
<1>3. QED
  BY <1>1, <1>2

LEMMA FrameInit ==
  ASSUME Init
  PROVE  FrameInv
<1>1. /\ at = "fill" /\ taken = <<>> /\ held = 0 /\ issued = <<>> /\ submitted = <<>>
      /\ oaddr = 0 /\ Len(taken) = 0
  BY EmptySeq DEF Init, held, Diff
<1> DEFINE o == [k \in 0 .. 2 |-> 0]
<1>2. o \in [0 .. 2 -> Drawing]
  BY DEF Drawing
<1>3. TakenOf(o) /\ RamOf(o)
  BY <1>1 DEF TakenOf, RamOf, Ahead, Slot
<1>4. ChainOf(o)
  BY <1>1 DEF ChainOf, Front, Pending, Goal, First, Total, PlaceIn
<1>5. QED
  BY <1>2, <1>3, <1>4 DEF FrameInv

\* The words the strings take are the frames that were flushed, one after the other and
\* whole, although nothing in the stream marks where a frame begins: at every moment the
\* place of the next word to be transferred follows from how many have been taken and
\* how many lie in the FIFO (led-driver.c:59-96, parallel_strings.v:69).
THEOREM FramesAreWhole == Spec => []FramesStayWhole
<1> DEFINE Inv == ChainInv /\ (misled = 0 => RoomInv /\ FrameInv)
<1>1. ASSUME FrameInv, StateOK PROVE FramesStayWhole
  <2>1. PICK o \in [0 .. 2 -> Drawing] : TakenOf(o)
    BY <1>1 DEF FrameInv
  <2>2. \A i \in DOMAIN taken : 1 \in DOMAIN taken
    BY <1>1, LenProperties DEF StateOK, TypeOK
  <2>3. QED
    BY <2>1, <2>2 DEF TakenOf, FramesStayWhole
<1>2. Inv => FramesStayWhole
  BY <1>1 DEF ChainInv, FramesStayWhole
<1>3. Init => Inv
  BY RoomInit, FrameInit
<1>4. Inv /\ [Next]_vars => Inv'
  BY RoomStep, FrameStep, MisledStays DEF ChainInv
<1>5. QED
  BY <1>2, <1>3, <1>4, PTL DEF Spec

-----------------------------------------------------------------------------
(* How far a picture may be torn *)

\* The drawing before this one.
Before == IF drawing = 0 THEN Drawings - 1 ELSE drawing - 1

\* What is on its way was flushed in the drawing before, or in this one, which is then
\* complete.
OnTheirWay ==
    \/ AllOf(issued, Before) /\ AllOf(submitted, Before)
    \/ undrawn = {} /\ AllOf(issued, drawing) /\ AllOf(submitted, drawing)

\* The buffer is made of this drawing and the one before.
BufferOfTwo == \A i \in Slots : fb[i].drawing = IF i \in undrawn THEN Before ELSE drawing

AtItsPlace ==
    /\ at \notin {"fill", "draw", "down"} => undrawn = {}
    /\ at = "fill" /\ ~last => issued = <<>>
    /\ at = "ioctl" => AllOf(issued, drawing) /\ AllOf(submitted, drawing)

TornLittle == \A s \in DOMAIN ram : Newer(ram[s]) <= 1

OneProgram == BufferOfTwo /\ AtItsPlace /\ OnTheirWay /\ TornLittle

TornInv == restarts \in Nat /\ (restarts = 0 => TornLittle /\ (stray \/ OneProgram))

\* A word of the drawing that was flushed, or of the next, and none.
LEMMA NewerByOne ==
  ASSUME drawing \in Drawing, NEW w,
         \/ w.of = drawing /\ w.drawing = drawing
         \/ w.of = Before /\ w.drawing \in {Before, drawing}
         \/ w = Stale
  PROVE  Newer(w) <= 1
<1>1. ASSUME NEW a \in Drawing PROVE (Drawings + a - a) % Drawings = 0
  BY <1>1 DEF Drawing
<1>2. Before \in Drawing
  BY DEF Before, Drawing
<1>3. (Drawings + drawing - Before) % Drawings = 1
  <2>1. CASE drawing = 0
    BY <2>1 DEF Before
  <2>2. CASE drawing > 0
    BY <2>2 DEF Before, Drawing
  <2>3. QED
    BY <2>1, <2>2 DEF Drawing
<1>4. 0 \in Drawing
  BY DEF Drawing
<1>5. CASE w.of = w.drawing /\ w.of \in Drawing
  BY <1>1, <1>5 DEF Newer
<1>6. CASE w.of = Before /\ w.drawing = drawing
  BY <1>3, <1>6 DEF Newer
<1>7. CASE w = Stale
  BY <1>1, <1>4, <1>7 DEF Newer, Stale
<1>8. QED
  BY <1>2, <1>5, <1>6, <1>7

\* The next drawing.
LEMMA NextDrawing ==
  ASSUME drawing \in Drawing, drawing' = (drawing + 1) % Drawings
  PROVE  Before' = drawing
<1>1. CASE drawing = Drawings - 1
  BY <1>1 DEF Before, Drawing
<1>2. CASE drawing < Drawings - 1
  BY <1>2 DEF Before, Drawing
<1>3. QED
  BY <1>1, <1>2 DEF Drawing

\* A drawing that begins: what is on its way is of the drawing before, and so is all of
\* the buffer.
LEMMA DrawingBegins ==
  ASSUME ChainInv, BufferOfTwo, TornLittle, undrawn = {}, NEW a, StartDrawing(a),
         AllOf(issued', drawing), AllOf(submitted', drawing),
         a = "draw" \/ (a = "fill" /\ last'), UNCHANGED <<fb, ram>>
  PROVE  OneProgram'
<1>1. drawing \in Drawing /\ Before' = drawing
  BY NextDrawing DEF ChainInv, StateOK, StartDrawing
<1>2. at' = a /\ undrawn' = Slots
  BY DEF StartDrawing
<1>3. BufferOfTwo'
  BY <1>1, <1>2 DEF BufferOfTwo
<1>4. AtItsPlace' /\ OnTheirWay'
  BY <1>1, <1>2 DEF AtItsPlace, OnTheirWay
<1>5. TornLittle'
  BY DEF TornLittle, Newer
<1>6. QED
  BY <1>3, <1>4, <1>5 DEF OneProgram

\* The program outside the ioctl.
LEMMA TornProgram ==
  ASSUME ChainInv, ~stray, OneProgram,
         DrawWord \/ FirstPicture \/ Sleep \/ Poll \/ Blank \/ Leave \/ Crash
  PROVE  TornLittle' /\ (stray' \/ OneProgram')
<1>1. /\ BufferOfTwo /\ AtItsPlace /\ OnTheirWay /\ TornLittle
      /\ UNCHANGED <<issued, submitted, ram>>
  BY DEF OneProgram, DrawWord, FirstPicture, Sleep, Poll, Blank, Leave, Crash, dmaVars, fifo
<1>2. /\ undrawn \subseteq Slots /\ fb \in [Slots -> [drawing : Drawing, blank : BOOLEAN]]
      /\ at # "ioctl" => submitted = <<>>
      /\ at = "poll" => issued = <<>>
  BY DEF ChainInv, StateOK, TypeOK, ChainInOrder
<1>3. \A v : AllOf(<<>>, v)
  BY EmptySeq DEF AllOf
<1>4. CASE DrawWord
  <2>1. PICK i \in undrawn :
            /\ fb' = [fb EXCEPT ![i] = [drawing |-> drawing, blank |-> at = "fill"]]
            /\ undrawn' = undrawn \ {i}
    BY <1>4 DEF DrawWord
  <2>2. at \in {"fill", "draw"} /\ UNCHANGED <<at, last, drawing>> /\ Before' = Before
    BY <1>4 DEF DrawWord, Before
  <2>3. i \in Slots
    BY <1>2, <2>1
  <2>4. \A j \in Slots : fb'[j].drawing = IF j = i THEN drawing ELSE fb[j].drawing
    BY <1>2, <2>1, <2>3
  <2>5. BufferOfTwo'
    BY <1>1, <2>1, <2>2, <2>4 DEF BufferOfTwo
  <2>6. AtItsPlace' /\ TornLittle'
    BY <1>1, <2>2 DEF AtItsPlace, TornLittle, Newer
  <2>7. OnTheirWay'
    BY <1>1, <2>1, <2>2 DEF OnTheirWay, AllOf
  <2>8. QED
    BY <2>5, <2>6, <2>7 DEF OneProgram
<1>5. CASE FirstPicture
  <2>1. issued' = <<>> /\ submitted' = <<>> /\ undrawn = {} /\ StartDrawing("draw")
        /\ UNCHANGED fb
    BY <1>1, <1>2, <1>5 DEF FirstPicture, AtItsPlace
  <2>2. QED
    BY <1>1, <1>3, <2>1, DrawingBegins DEF OneProgram
<1>6. CASE Blank
  <2>1. /\ issued # <<>> => stray'
        /\ submitted' = <<>> /\ undrawn = {} /\ StartDrawing("fill") /\ last' /\ UNCHANGED fb
    BY <1>1, <1>2, <1>6 DEF Blank, SleepOver, AtItsPlace
  <2>2. issued' = <<>> => OneProgram'
    BY <1>1, <1>3, <2>1, DrawingBegins
  <2>3. TornLittle'
    BY <1>1 DEF TornLittle, Newer
  <2>4. QED
    BY <1>1, <2>1, <2>2, <2>3
<1>7. CASE Sleep \/ Poll \/ Leave \/ Crash
  <2>1. /\ UNCHANGED <<last, drawing, undrawn, fb>> /\ Before' = Before
        /\ at' \notin {"fill", "draw"}
        /\ at' # "down" => undrawn = {}
        /\ at' = "ioctl" => at = "poll"
    <3>1. CASE Sleep
      BY <3>1 DEF Sleep, FlushDue, Before
    <3>2. CASE Poll \/ Leave \/ Crash
      BY <1>1, <3>2 DEF Poll, Leave, Crash, AtItsPlace, Before
    <3>3. QED
      BY <1>7, <3>1, <3>2
  <2>2. BufferOfTwo' /\ TornLittle' /\ OnTheirWay'
    BY <1>1, <2>1 DEF BufferOfTwo, TornLittle, Newer, OnTheirWay, AllOf
  <2>3. AtItsPlace'
    <3>1. at' = "ioctl" => issued' = <<>> /\ submitted' = <<>>
      BY <1>1, <1>2, <2>1
    <3>2. QED
      BY <1>3, <2>1, <3>1 DEF AtItsPlace
  <2>4. QED
    BY <2>2, <2>3 DEF OneProgram
<1>8. QED
  BY <1>4, <1>5, <1>6, <1>7

\* The ioctl, up to the issue.
LEMMA TornIoctl ==
  ASSUME ChainInv, ~stray, OneProgram, Submit \/ SubmitFails
  PROVE  OneProgram'
<1>1. /\ BufferOfTwo /\ AtItsPlace /\ OnTheirWay /\ TornLittle
      /\ at = "ioctl" /\ undrawn = {} /\ AllOf(issued, drawing) /\ AllOf(submitted, drawing)
      /\ UNCHANGED <<last, drawing, undrawn, fb, issued, ram>> /\ Before' = Before
      /\ at' \in {"ioctl", "down"}
  BY DEF OneProgram, AtItsPlace, Submit, SubmitFails, dmaVars, fifo, Before
<1>2. AllOf(submitted', drawing)
  <2>1. CASE Submit
    <3> DEFINE d == [from |-> next, upto |-> next + Chunk(next), of |-> drawing]
    <3>1. submitted' = Append(submitted, d) /\ d.of = drawing
      BY <2>1 DEF Submit
    <3> HIDE DEF d
    <3>2. submitted \in Seq(Descriptor)
      BY DEF ChainInv, StateOK
    <3>3. /\ DOMAIN submitted' = 1 .. Len(submitted) + 1 /\ DOMAIN submitted = 1 .. Len(submitted)
          /\ \A i \in 1 .. Len(submitted) : submitted'[i] = submitted[i]
          /\ submitted'[Len(submitted) + 1] = d /\ Len(submitted) \in Nat
      BY <3>1, <3>2
    <3>4. QED
      BY <1>1, <3>1, <3>3 DEF AllOf
  <2>2. CASE SubmitFails
    BY <1>1, <2>2 DEF SubmitFails, dmaVars
  <2>3. QED
    BY <2>1, <2>2
<1>3. AllOf(issued', drawing)
  BY <1>1
<1>4. BufferOfTwo' /\ TornLittle'
  BY <1>1 DEF BufferOfTwo, TornLittle, Newer
<1>5. AtItsPlace' /\ OnTheirWay'
  BY <1>1, <1>2, <1>3 DEF AtItsPlace, OnTheirWay
<1>6. QED
  BY <1>4, <1>5 DEF OneProgram

LEMMA TornIssue ==
  ASSUME ChainInv, ~stray, OneProgram, Issue \/ OthersIssue
  PROVE  OneProgram'
<1>1. BufferOfTwo /\ AtItsPlace /\ OnTheirWay /\ TornLittle
  BY DEF OneProgram
<1>2. /\ issued' = issued \o submitted /\ submitted' = <<>>
      /\ issued \in Seq(Descriptor) /\ submitted \in Seq(Descriptor)
      /\ UNCHANGED <<last, fb, ram>>
  BY DEF Issue, OthersIssue, IssuePending, progVars, fifo, ChainInv, StateOK
<1>3. ASSUME NEW v, AllOf(issued, v), AllOf(submitted, v)
      PROVE  AllOf(issued', v) /\ AllOf(submitted', v)
  BY <1>2, <1>3, AllOfBoth
<1>4. CASE Issue
  <2>1. at = "ioctl" /\ undrawn = {} /\ AllOf(issued', drawing) /\ AllOf(submitted', drawing)
    BY <1>1, <1>3, <1>4 DEF AtItsPlace, Issue
  <2>2. CASE StartDrawing("draw")
    BY <1>1, <1>2, <2>1, <2>2, DrawingBegins
  <2>3. CASE at' \in {"ending", "wait"} /\ UNCHANGED <<drawing, undrawn>>
    <3>1. Before' = Before
      BY <2>3 DEF Before
    <3>2. BufferOfTwo' /\ TornLittle'
      BY <1>1, <1>2, <2>3, <3>1 DEF BufferOfTwo, TornLittle, Newer
    <3>3. AtItsPlace' /\ OnTheirWay'
      BY <2>1, <2>3 DEF AtItsPlace, OnTheirWay
    <3>4. QED
      BY <3>2, <3>3 DEF OneProgram
  <2>4. QED
    BY <1>4, <2>2, <2>3 DEF Issue, AfterFlush
<1>5. CASE OthersIssue
  <2>1. UNCHANGED <<at, drawing, undrawn>> /\ Before' = Before /\ submitted # <<>>
    BY <1>5 DEF OthersIssue, progVars, Before
  <2>2. at = "ioctl"
    BY <2>1 DEF ChainInv, ChainInOrder
  <2>3. BufferOfTwo' /\ TornLittle'
    BY <1>1, <1>2, <2>1 DEF BufferOfTwo, TornLittle, Newer
  <2>4. AtItsPlace'
    BY <1>1, <1>3, <2>1, <2>2 DEF AtItsPlace
  <2>5. OnTheirWay'
    BY <2>1, <2>2, <2>4, <1>1 DEF OnTheirWay, AtItsPlace
  <2>6. QED
    BY <2>3, <2>4, <2>5 DEF OneProgram
<1>6. QED
  BY <1>4, <1>5

LEMMA TornDma ==
  ASSUME ChainInv, ~stray, OneProgram, DmaWord
  PROVE  OneProgram'
<1> DEFINE chunk == Head(issued)
           slot == Slot(iaddr)
           word == [slot |-> chunk.from, of |-> chunk.of,
                    drawing |-> fb[chunk.from].drawing, blank |-> fb[chunk.from].blank]
<1>1. BufferOfTwo /\ AtItsPlace /\ OnTheirWay /\ TornLittle
  BY DEF OneProgram
<1>2. /\ issued # <<>> /\ ram' = [ram EXCEPT ![slot] = word] /\ issued' = Transferred(issued)
      /\ UNCHANGED <<at, last, drawing, undrawn, fb, submitted>> /\ Before' = Before
  BY DEF DmaWord, Transferred, progVars, Before
<1>3. /\ issued \in Seq(Descriptor) /\ drawing \in Drawing
      /\ ram \in [0 .. Depth - 1 -> Word \cup {Stale}]
      /\ Contiguous(issued) /\ Final(issued, Pending) = Pending
  BY DEF ChainInv, StateOK, ChainInOrder
<1>4. chunk.from \in Slots
  <2>1. chunk \in Descriptor /\ chunk.from < FRAME_SIZE_WORDS
    BY <1>2, <1>3, TransferredRun
  <2>2. QED
    BY <2>1 DEF Descriptor, Slots
<1>5. ASSUME NEW v, AllOf(issued, v) PROVE chunk.of = v /\ AllOf(issued', v)
  BY <1>2, <1>3, <1>5, TransferredOf
<1>6. \/ chunk.of = Before /\ fb[chunk.from].drawing \in {Before, drawing}
      \/ chunk.of = drawing /\ fb[chunk.from].drawing = drawing
  BY <1>1, <1>4, <1>5 DEF OnTheirWay, BufferOfTwo
<1>7. Newer(word) <= 1
  <2>1. word.of = chunk.of /\ word.drawing = fb[chunk.from].drawing
    OBVIOUS
  <2> HIDE DEF word, chunk
  <2>2. QED
    BY <1>3, <1>6, <2>1, NewerByOne
<1> HIDE DEF word, chunk, slot
<1>8. TornLittle'
  <2>1. DOMAIN ram' = DOMAIN ram /\ \A s \in DOMAIN ram : ram'[s] \in {word, ram[s]}
    BY <1>2, <1>3
  <2>2. QED
    BY <1>1, <1>7, <2>1 DEF TornLittle, Newer
<1>9. BufferOfTwo' /\ AtItsPlace' /\ OnTheirWay'
  <2>1. BufferOfTwo'
    BY <1>1, <1>2 DEF BufferOfTwo
  <2>2. AtItsPlace'
    BY <1>1, <1>2, <1>5 DEF AtItsPlace
  <2>3. OnTheirWay'
    BY <1>1, <1>2, <1>5 DEF OnTheirWay
  <2>4. QED
    BY <2>1, <2>2, <2>3
<1>10. QED
  BY <1>8, <1>9 DEF OneProgram

LEMMA TornTake ==
  ASSUME ChainInv, OneProgram, TakeWord
  PROVE  OneProgram'
<1>1. BufferOfTwo /\ AtItsPlace /\ OnTheirWay /\ TornLittle
  BY DEF OneProgram
<1>2. /\ ram' = [ram EXCEPT ![Slot(oaddr)] = Stale] /\ drawing \in Drawing
      /\ ram \in [0 .. Depth - 1 -> Word \cup {Stale}]
      /\ UNCHANGED <<at, last, drawing, undrawn, fb, submitted, issued>> /\ Before' = Before
  BY DEF TakeWord, progVars, dmaVars, Before, ChainInv, StateOK
<1>3. Newer(Stale) <= 1
  BY <1>2, NewerByOne
<1>4. TornLittle'
  <2>1. DOMAIN ram' = DOMAIN ram /\ \A s \in DOMAIN ram : ram'[s] \in {Stale, ram[s]}
    BY <1>2
  <2>2. QED
    BY <1>1, <1>3, <2>1 DEF TornLittle, Newer
<1>5. BufferOfTwo' /\ AtItsPlace' /\ OnTheirWay'
  BY <1>1, <1>2 DEF BufferOfTwo, AtItsPlace, OnTheirWay, AllOf
<1>6. QED
  BY <1>4, <1>5 DEF OneProgram

LEMMA TornStep ==
  ASSUME ChainInv, TornInv, [Next]_vars
  PROVE  TornInv'
<1>1. CASE UNCHANGED vars
  BY <1>1 DEF vars, progVars, dmaVars, fifo, stringVars, TornInv, OneProgram, BufferOfTwo,
              AtItsPlace, OnTheirWay, TornLittle, Newer, Before, AllOf
<1>2. CASE Next /\ Restart
  BY <1>2 DEF Next, Restart, TornInv
<1>3. CASE Next /\ ~Restart
  <2>1. ~stray /\ restarts' = restarts
    BY <1>3 DEF Next, Going, Program, Engine, DrawWord, FirstPicture, Sleep, Poll, Submit, Issue, Blank,
                Leave, DmaWord, TakeWord, SubmitFails, OthersIssue, Crash, progVars
  <2>2. SUFFICES ASSUME OneProgram PROVE TornLittle' /\ (stray' \/ OneProgram')
    BY <2>1 DEF TornInv
  <2>3. CASE DrawWord \/ FirstPicture \/ Sleep \/ Poll \/ Blank \/ Leave \/ Crash
    BY <2>1, <2>2, <2>3, TornProgram
  <2>4. CASE Submit \/ SubmitFails
    BY <2>1, <2>2, <2>4, TornIoctl DEF OneProgram
  <2>5. CASE Issue \/ OthersIssue
    BY <2>1, <2>2, <2>5, TornIssue DEF OneProgram
  <2>6. CASE DmaWord
    BY <2>1, <2>2, <2>6, TornDma DEF OneProgram
  <2>7. CASE TakeWord
    BY <2>2, <2>7, TornTake DEF OneProgram
  <2>8. QED
    BY <1>3, <2>3, <2>4, <2>5, <2>6, <2>7 DEF Next, Program, Engine
<1>4. QED
  BY <1>1, <1>2, <1>3

LEMMA TornInit ==
  ASSUME Init
  PROVE  TornInv
<1>1. /\ at = "fill" /\ drawing = 1 /\ undrawn = Slots /\ issued = <<>> /\ submitted = <<>>
      /\ restarts = 0 /\ fb = [i \in Slots |-> [drawing |-> 0, blank |-> FALSE]]
      /\ ram = [s \in 0 .. Depth - 1 |-> Stale]
  BY DEF Init
<1>2. Before = 0
  BY <1>1 DEF Before
<1>3. BufferOfTwo
  BY <1>1, <1>2 DEF BufferOfTwo
<1>4. AtItsPlace /\ OnTheirWay
  BY <1>1, EmptySeq DEF AtItsPlace, OnTheirWay, AllOf
<1>5. TornLittle
  <2>1. drawing \in Drawing
    BY <1>1 DEF Drawing
  <2>2. Newer(Stale) <= 1
    BY <2>1, NewerByOne
  <2>3. \A s \in DOMAIN ram : ram[s] = Stale
    BY <1>1
  <2>4. QED
    BY <2>2, <2>3 DEF TornLittle, Newer
<1>6. QED
  BY <1>1, <1>3, <1>4, <1>5 DEF TornInv, OneProgram

\* Until the program is started again, a frame is torn by the next picture at most, also
\* when a count has misled.  The program draws while the engine still reads, but while the
\* 2 ms of flush are enough it does not flush before the engine is done, so what is on its
\* way is of the drawing in progress or of the one before, and so is every word of the
\* buffer (display.rs:173-183, mod_ctrl.rs:47,70-92).
THEOREM TornAtMostOnce == Spec => []TornByTheNextAtMost
<1> DEFINE Inv == ChainInv /\ TornInv
<1>1. Inv => TornByTheNextAtMost
  BY DEF TornInv, TornLittle, TornByTheNextAtMost
<1>2. Init => Inv
  BY RoomInit, TornInit
<1>3. Inv /\ [Next]_vars => Inv'
  BY RoomStep, TornStep
<1>4. QED
  BY <1>1, <1>2, <1>3, PTL DEF Spec
=============================================================================
