------------------------- MODULE ParallelStringsProofs -------------------------
(***************************************************************************)
(* Proofs about the color strings, for every number of strings and LEDs,   *)
(* every clock and every FIFO that holds a frame.                          *)
(*                                                                         *)
(* First the counting of words (CountInv), then that every bit on a wire   *)
(* is in its place.  The invariant for that has four layers: the words on  *)
(* their way from the FIFO keep in step with the counting (PipeInv), a     *)
(* pixel stays in the shift register until its string takes it (OfferInv), *)
(* because the strings follow one another closely enough (ConvoyInv), so   *)
(* a string has been sent the first of its pixels and no other (SendInv).  *)
(***************************************************************************)
EXTENDS ParallelStrings, StringDriverProofs, SequenceTheorems

W == TOTAL_PIXEL_FIFO_WORDS
B == BYTES_PER_COL
L == N_LEDS_PER_STRING

\* The register of bytes_remaining is wide enough for the value a frame starts with.  It is
\* not when 3 * N_STRINGS + 2 is a power of two, as with two strings; 23 strings, and the
\* three of the runs, fit.
CountsFit == /\ RegisterModulus(BYTES_PER_COL + FIFO_DATA_BYTES) \in Nat
             /\ RegisterModulus(BYTES_PER_COL + FIFO_DATA_BYTES) > BYTES_PER_COL + 3

-----------------------------------------------------------------------------
(* The invariant of the counting                                           *)

\* Bytes of the frame that the counters still wait for, and three more.
Rest == pixels_remaining * B + bytes_remaining

\* While a frame is read, the counters and the read address say the same.
Reading ==
  /\ ~flush_shift_reg
  /\ bytes_remaining \in 2 .. B + 3
  /\ pixels_remaining = 0 => bytes_remaining >= 5
  /\ \E k \in 0 .. W - 1, b \in {0, 1} : Rest + 2 * k = L * B + 3 /\ oaddr = b * W + k

\* After the last word of a frame, and between two frames.
AtFrameEnd == oaddr \in {0, W} /\ ~fifo_read

CountInv ==
  /\ reset => ~frame_active
  /\ frame_active /\ flush_timer = 0 => Reading
  /\ frame_active /\ flush_timer > 0 =>
       AtFrameEnd /\ pixels_remaining = 0 /\ bytes_remaining = 3
  /\ ~frame_active => AtFrameEnd /\ ~flush_shift_reg /\ flush_timer = 0
  /\ full_count <= known
  /\ fifo_read => known > 0

-----------------------------------------------------------------------------
(* Sizes                                                                   *)

LEMMA ModIn ==
  ASSUME NEW a \in Nat, NEW n \in Nat \ {0}
  PROVE  a % n \in 0 .. n - 1 /\ (a < n => a % n = a) /\ a % n <= a
  BY SMT

LEMMA Sizes ==
  /\ N_STRINGS \in Nat /\ N_STRINGS >= 2 /\ L \in Nat /\ L >= 1
  /\ B \in Nat /\ B = 3 * N_STRINGS /\ B >= 6
  /\ L * B \in Nat /\ L * B >= B
  /\ W \in Nat /\ W >= 3 /\ 2 * W = L * B
  /\ 2 * W = TOTAL_PIXEL_BYTES
<1>1. N_STRINGS \in Nat /\ N_STRINGS >= 2 /\ L \in Nat /\ L >= 1
  BY StringsAssumption, LedsAssumption DEF StringsAssumption, LedsAssumption, L
<1>2. B \in Nat /\ B = 3 * N_STRINGS /\ B >= 6
  BY <1>1 DEF B, BYTES_PER_COL
<1>3. L * B \in Nat /\ L * B >= B
  BY <1>1, <1>2, SMT
<1>4. PICK m \in Nat : N_STRINGS * L = 2 * m
  <2> DEFINE e == N_STRINGS * L
  <2>1. e \in Nat
    BY <1>1, SMT
  <2>2. e % 2 = 0
    BY EvenAssumption DEF EvenAssumption, L
  <2> HIDE DEF e
  <2>3. e \div 2 \in Nat /\ e = 2 * (e \div 2) + (e % 2)
    BY <2>1, Euclid
  <2>4. QED
    BY <2>1, <2>2, <2>3 DEF e
<1>5. TOTAL_PIXEL_BYTES = 2 * (3 * m) + 0
  BY <1>1, <1>4 DEF TOTAL_PIXEL_BYTES, L
<1>6. W = 3 * m
  BY <1>5, ModUnique DEF W, TOTAL_PIXEL_FIFO_WORDS, FIFO_DATA_BYTES
<1>7. L * B = 3 * (N_STRINGS * L)
  BY <1>1, <1>2, SMT
<1>8. QED
  BY <1>1, <1>2, <1>3, <1>4, <1>5, <1>6, <1>7

LEMMA CountTypes ==
  ASSUME TypeOK
  PROVE  /\ reset \in BOOLEAN /\ frame_active \in BOOLEAN /\ h_blank \in BOOLEAN
         /\ fifo_read \in BOOLEAN /\ flush_shift_reg \in BOOLEAN
         /\ fifo_shift_reg_primed \in BOOLEAN /\ must_wait_for_ready \in BOOLEAN
         /\ next_word_completes_pixel \in BOOLEAN /\ init_active \in BOOLEAN
         /\ init_data_valid \in BOOLEAN /\ ord_q \in BOOLEAN /\ fifo_data_valid \in BOOLEAN
         /\ pixels_remaining \in 0 .. L - 1 /\ pixels_remaining \in Nat
         /\ bytes_remaining \in 0 .. B + 3 /\ bytes_remaining \in Nat
         /\ flush_timer \in 0 .. 5
         /\ known \in 0 .. Capacity /\ full_count \in 0 .. Capacity
         /\ oaddr \in Nat /\ oaddr <= 2 * W - 1
<1>1. BYTES_PER_COL + FIFO_DATA_BYTES + 1 = B + 3 /\ FLUSH_TICKS - 1 = 5
  BY Sizes DEF B, FIFO_DATA_BYTES, FLUSH_TICKS
<1>2. Words = 0 .. 2 * W - 1
  BY DEF Words, W
<1>3. QED
  BY <1>1, <1>2, Sizes DEF TypeOK, L

-----------------------------------------------------------------------------
(* The first state                                                         *)

LEMMA CountInit ==
  ASSUME Init
  PROVE  TypeOK /\ CountInv
<1>1. BYTES_PER_COL + FIFO_DATA_BYTES + 1 \in Nat /\ FLUSH_TICKS - 1 = 5
  BY Sizes DEF B, FIFO_DATA_BYTES, FLUSH_TICKS
<1>2. 0 \in Words
  BY Sizes DEF Words, W
<1>3. 0 \in Strings
  BY Sizes DEF Strings
<1>4. Capacity \in Nat
  BY CapacityAssumption DEF CapacityAssumption
<1>5. {reset, frame_active, h_blank, h_blank_q, fifo_read, flush_shift_reg,
       fifo_shift_reg_primed, must_wait_for_ready, next_word_completes_pixel, init_active,
       init_data_valid, ord_q, fifo_data_valid} \subseteq BOOLEAN
  BY DEF Init
<1>6. TypeOK
  BY <1>1, <1>2, <1>3, <1>4, <1>5, Sizes DEF Init, TypeOK, L
<1>7. CountInv
  BY Sizes DEF Init, CountInv, AtFrameEnd
<1>8. QED
  BY <1>6, <1>7

-----------------------------------------------------------------------------
(* An edge                                                                 *)

\* What the read control does out of a frame, after the last word of one, and in one.
ReadsNothing ==
  /\ fifo_read' = FALSE /\ flush_shift_reg' = FALSE
  /\ fifo_shift_count' = 0 /\ fifo_shift_reg_primed' = FALSE
  /\ must_wait_for_ready' = FALSE /\ next_word_completes_pixel' = FALSE
  /\ active_string' = 0

ReadsFlush ==
  /\ fifo_read' = FALSE /\ flush_shift_reg' = (flush_timer = 3)
  /\ fifo_shift_count' = 0 /\ fifo_shift_reg_primed' = FALSE
  /\ UNCHANGED <<must_wait_for_ready, next_word_completes_pixel, active_string>>

ReadsWords ==
  /\ fifo_read' = Reads /\ flush_shift_reg' = FALSE
  /\ fifo_shift_count' = IF Reads THEN (fifo_shift_count + 1) % 3 ELSE fifo_shift_count
  /\ fifo_shift_reg_primed' = (fifo_shift_reg_primed \/ (Reads /\ fifo_shift_count = 2))
  /\ must_wait_for_ready' = IF Reads THEN next_word_completes_pixel
                            ELSE must_wait_for_ready
  /\ active_string' = IF NextString THEN (active_string + 1) % N_STRINGS
                      ELSE active_string
  /\ next_word_completes_pixel' = (\/ fifo_shift_count = 2
                                   \/ fifo_shift_count = 0 /\ fifo_shift_reg_primed)

LEMMA ReadCases ==
  ASSUME TypeOK, Tick
  PROVE  /\ (reset \/ ~frame_active) => ReadsNothing
         /\ (~reset /\ frame_active /\ flush_timer > 0) => ReadsFlush
         /\ (~reset /\ frame_active /\ flush_timer = 0) => ReadsWords
<1>1. ReadControl
  BY DEF Tick
<1>2. CASE reset \/ ~frame_active
  <2>1. ReadsNothing
    BY <1>1, <1>2 DEF ReadControl, ReadsNothing
  <2>2. QED
    BY <1>2, <2>1
<1>3. CASE ~reset /\ frame_active /\ flush_timer > 0
  <2>0. flush_timer # 0
    BY <1>3, CountTypes
  <2>1. ReadsFlush
    BY <1>1, <1>3, <2>0 DEF ReadControl, ReadsFlush
  <2>2. QED
    BY <1>3, <2>1, CountTypes
<1>4. CASE ~reset /\ frame_active /\ flush_timer = 0
  <2>1. ReadsWords
    BY <1>1, <1>4 DEF ReadControl, ReadsWords
  <2>2. QED
    BY <1>4, <2>1
<1>5. flush_timer > 0 \/ flush_timer = 0
  BY CountTypes
<1>6. QED
  BY <1>2, <1>3, <1>4, <1>5

LEMMA ShiftCases ==
  ASSUME TypeOK, Tick
  PROVE  /\ reset \/ ~frame_active => fifo_shift_reg' = Blank /\ shift_data_valid' = {}
         /\ ~reset /\ frame_active /\ (fifo_data_valid \/ flush_shift_reg) =>
              /\ fifo_shift_reg' = SubSeq(fifo_shift_reg, 3, 6) \o BytesOf(fifo_data)
              /\ shift_data_valid' = IF completes[2]
                                     THEN shift_data_valid \cup {destination[2]}
                                     ELSE shift_data_valid \ {destination[2]}
         /\ ~reset /\ frame_active /\ ~fifo_data_valid /\ ~flush_shift_reg =>
              /\ shift_data_valid' = IF Ready(destination[2]) THEN {} ELSE shift_data_valid
              /\ UNCHANGED fifo_shift_reg
<1>1. ShiftRegister
  BY DEF Tick
<1>2. CASE reset \/ ~frame_active
  BY <1>1, <1>2 DEF ShiftRegister
<1>3. CASE ~reset /\ frame_active /\ (fifo_data_valid \/ flush_shift_reg)
  BY <1>1, <1>3 DEF ShiftRegister
<1>4. CASE ~reset /\ frame_active /\ ~fifo_data_valid /\ ~flush_shift_reg
  BY <1>1, <1>4 DEF ShiftRegister
<1>5. QED
  BY <1>2, <1>3, <1>4

LEMMA TypesNext ==
  ASSUME CountsFit, TypeOK, CountInv, Tick
  PROVE  TypeOK'
<1>1. /\ reset' \in BOOLEAN /\ frame_active' \in BOOLEAN /\ h_blank' \in BOOLEAN
      /\ h_blank_q' \in BOOLEAN
  BY CountTypes DEF Tick, FrameControl, DelayBlank, StartsFrame
<1>2. /\ fifo_read' \in BOOLEAN /\ flush_shift_reg' \in BOOLEAN
      /\ fifo_shift_reg_primed' \in BOOLEAN /\ must_wait_for_ready' \in BOOLEAN
      /\ next_word_completes_pixel' \in BOOLEAN
      /\ fifo_shift_count' \in 0 .. 2 /\ active_string' \in Strings
  <2>1. fifo_shift_count \in 0 .. 2 /\ active_string \in Strings
    BY DEF TypeOK
  <2>2. (fifo_shift_count + 1) % 3 \in 0 .. 2
    BY <2>1, ModIn
  <2>3. (active_string + 1) % N_STRINGS \in Strings /\ 0 \in Strings
    BY <2>1, ModIn, Sizes DEF Strings
  <2>4. CASE reset \/ ~frame_active
    <3>1. ReadsNothing
      BY <2>4, ReadCases
    <3>2. /\ fifo_read' \in BOOLEAN /\ flush_shift_reg' \in BOOLEAN
          /\ fifo_shift_reg_primed' \in BOOLEAN /\ must_wait_for_ready' \in BOOLEAN
          /\ next_word_completes_pixel' \in BOOLEAN
      BY <3>1 DEF ReadsNothing
    <3>3. fifo_shift_count' \in 0 .. 2 /\ active_string' \in Strings
      BY <2>3, <3>1 DEF ReadsNothing
    <3>4. QED
      BY <3>2, <3>3
  <2>5. CASE ~reset /\ frame_active /\ flush_timer > 0
    <3>1. ReadsFlush
      BY <2>5, ReadCases
    <3>2. flush_shift_reg' \in BOOLEAN
      BY <3>1 DEF ReadsFlush
    <3>3. /\ fifo_read' = FALSE /\ fifo_shift_count' = 0 /\ fifo_shift_reg_primed' = FALSE
          /\ must_wait_for_ready' = must_wait_for_ready /\ active_string' = active_string
          /\ next_word_completes_pixel' = next_word_completes_pixel
      BY <3>1 DEF ReadsFlush
    <3>4. must_wait_for_ready' \in BOOLEAN /\ next_word_completes_pixel' \in BOOLEAN
      BY <3>3, CountTypes
    <3>5. fifo_read' \in BOOLEAN /\ fifo_shift_reg_primed' \in BOOLEAN
      BY <3>3
    <3>6. fifo_shift_count' \in 0 .. 2
      BY <3>3
    <3>7. QED
      BY <2>1, <3>2, <3>3, <3>4, <3>5, <3>6
  <2>6. CASE ~reset /\ frame_active /\ flush_timer = 0
    <3>1. Reads \in BOOLEAN
      BY CountTypes DEF Reads, MayRead
    <3>2. ReadsWords
      BY <2>6, ReadCases
    <3>3. fifo_read' \in BOOLEAN /\ flush_shift_reg' \in BOOLEAN
      BY <3>1, <3>2 DEF ReadsWords
    <3>4. must_wait_for_ready' \in BOOLEAN
      BY <3>2, CountTypes DEF ReadsWords
    <3>5. fifo_shift_reg_primed' \in BOOLEAN /\ next_word_completes_pixel' \in BOOLEAN
      BY <3>2 DEF ReadsWords
    <3>6. fifo_shift_count' \in 0 .. 2 /\ active_string' \in Strings
      BY <2>1, <2>2, <2>3, <3>2 DEF ReadsWords
    <3>7. QED
      BY <3>3, <3>4, <3>5, <3>6
  <2>7. flush_timer > 0 \/ flush_timer = 0
    BY CountTypes
  <2>8. QED
    BY <2>4, <2>5, <2>6, <2>7
<1>3. ord_q' \in BOOLEAN /\ fifo_data_valid' \in BOOLEAN
  BY CountTypes DEF Tick, Fifo
<1>4. init_active' \in BOOLEAN /\ init_data_valid' \in BOOLEAN
  BY CountTypes DEF Tick, InitPixels
<1>5. init_pixels_remaining' \in 0 .. N_LEDS_PER_STRING
  BY Sizes DEF Tick, InitPixels, TypeOK, L
<1>6. pixels_remaining' \in 0 .. N_LEDS_PER_STRING - 1
  BY Sizes, CountTypes DEF Tick, FrameControl, CompletesColumn, L
<1>7. bytes_remaining' \in 0 .. BYTES_PER_COL + FIFO_DATA_BYTES + 1
  <2> DEFINE M == RegisterModulus(BYTES_PER_COL + FIFO_DATA_BYTES)
             next == CASE CompletesColumn -> bytes_remaining + BYTES_PER_COL - FIFO_DATA_BYTES
                       [] Taking /\ bytes_remaining > 3 -> bytes_remaining - FIFO_DATA_BYTES
                       [] ~Taking /\ StartsFrame -> BYTES_PER_COL + FIFO_DATA_BYTES + 1
                       [] OTHER -> bytes_remaining
  <2>1. next \in Nat /\ next <= B + 3
    BY Sizes, CountTypes DEF B, FIFO_DATA_BYTES, CompletesColumn
  <2>2. M \in Nat \ {0}
    BY Sizes DEF CountsFit, B
  <2>3. bytes_remaining' = 0 \/ bytes_remaining' = next % M
    BY DEF Tick, FrameControl
  <2> HIDE DEF next, M
  <2>4. bytes_remaining' \in 0 .. B + 3
    <3>1. next % M \in 0 .. M - 1 /\ next % M <= next
      BY <2>1, <2>2, ModIn
    <3>2. QED
      BY <2>1, <2>2, <2>3, <3>1, Sizes
  <2>5. QED
    BY <2>4, Sizes DEF B, FIFO_DATA_BYTES
<1>8. flush_timer' \in 0 .. FLUSH_TICKS - 1
  BY CountTypes DEF Tick, FrameControl, FLUSH_TICKS
<1>9. shift_data_valid' \subseteq Strings /\ destination' \in Strings \X Strings
  <2>1. 0 \in Strings
    BY Sizes DEF Strings
  <2>2. shift_data_valid' \subseteq Strings
    BY <2>1, ShiftCases DEF TypeOK
  <2>3. destination' \in Strings \X Strings
    <3>1. destination' = <<0, 0>> \/ destination' = <<active_string, destination[1]>>
      BY DEF Tick, DelayControl
    <3>2. active_string \in Strings /\ destination[1] \in Strings
      BY DEF TypeOK
    <3>3. QED
      BY <2>1, <3>1, <3>2
  <2>4. QED
    BY <2>2, <2>3
<1>10. known' \in 0 .. Capacity /\ full_count' \in 0 .. Capacity
  <2>1. Capacity \in Nat
    BY CapacityAssumption DEF CapacityAssumption
  <2>2. PICK n \in Arrivals : known' = known - (IF fifo_read THEN 1 ELSE 0) + n
    BY DEF Tick, Fifo
  <2>3. n \in 0 .. Capacity - known
    BY <2>1, <2>2, CountTypes DEF Arrivals
  <2>4. fifo_read => known > 0
    BY DEF CountInv
  <2>5. full_count' = IF reset THEN 0 ELSE known - (IF fifo_read THEN 1 ELSE 0)
    BY DEF Tick, Fifo
  <2>6. QED
    BY <2>1, <2>2, <2>3, <2>4, <2>5, CountTypes
<1>11. oaddr' \in Words /\ oaddr_q' \in Words /\ fifo_data' \in Words
  <2>1. oaddr' = (oaddr + (IF fifo_read THEN 1 ELSE 0)) % (2 * W)
    BY DEF Tick, Fifo, W
  <2>2. oaddr' \in 0 .. 2 * W - 1
    <3> DEFINE a == oaddr + (IF fifo_read THEN 1 ELSE 0)
               n == 2 * W
    <3>1. a \in Nat /\ n \in Nat \ {0}
      BY Sizes, CountTypes
    <3> HIDE DEF a, n
    <3>2. a % n \in 0 .. n - 1
      BY <3>1, ModIn
    <3>3. QED
      BY <2>1, <3>2 DEF a, n
  <2>3. QED
    BY <2>2 DEF Tick, Fifo, TypeOK, Words, W
<1>12. {reset, frame_active, h_blank, h_blank_q, fifo_read, flush_shift_reg,
        fifo_shift_reg_primed, must_wait_for_ready, next_word_completes_pixel, init_active,
        init_data_valid, ord_q, fifo_data_valid}' \subseteq BOOLEAN
  BY <1>1, <1>2, <1>3, <1>4
<1>13. QED
  BY <1>2, <1>5, <1>6, <1>7, <1>8, <1>9, <1>10, <1>11, <1>12 DEF TypeOK

LEMMA OaddrNext ==
  ASSUME TypeOK, Tick
  PROVE  oaddr' = IF ~fifo_read THEN oaddr ELSE IF oaddr = 2 * W - 1 THEN 0 ELSE oaddr + 1
<1>1. oaddr' = (oaddr + (IF fifo_read THEN 1 ELSE 0)) % (2 * W)
  BY DEF Tick, Fifo, W
<1> DEFINE n == 2 * W
<1>2. n \in Nat \ {0} /\ oaddr \in Nat /\ oaddr < n
  BY Sizes, CountTypes
<1> HIDE DEF n
<1>3. oaddr % n = oaddr
  BY <1>2, ModIn
<1>4. (oaddr + 1) % n = IF oaddr = n - 1 THEN 0 ELSE oaddr + 1
  BY <1>2, <1>3, ModNext
<1>5. QED
  BY <1>1, <1>2, <1>3, <1>4 DEF n

\* The counters at an edge out of reset.
LEMMA CountersNext ==
  ASSUME CountsFit, TypeOK, Tick, ~reset
  PROVE  /\ frame_active' <=> (flush_timer # 1 /\ (frame_active \/ StartsFrame))
         /\ flush_timer' = IF LastAccess THEN 5
                           ELSE IF flush_timer > 0 THEN flush_timer - 1 ELSE 0
         /\ pixels_remaining' = IF CompletesColumn THEN pixels_remaining - 1
                                ELSE IF StartsFrame THEN L - 1 ELSE pixels_remaining
         /\ CompletesColumn => bytes_remaining' = bytes_remaining + B - 2
         /\ ~CompletesColumn /\ Taking /\ bytes_remaining > 3 =>
              bytes_remaining' = bytes_remaining - 2
         /\ ~Taking /\ StartsFrame => bytes_remaining' = B + 3
         /\ ~CompletesColumn /\ ~(Taking /\ bytes_remaining > 3) /\ ~(~Taking /\ StartsFrame)
              => bytes_remaining' = bytes_remaining
<1> DEFINE M == RegisterModulus(BYTES_PER_COL + FIFO_DATA_BYTES)
           next == CASE CompletesColumn -> bytes_remaining + BYTES_PER_COL - FIFO_DATA_BYTES
                     [] Taking /\ bytes_remaining > 3 -> bytes_remaining - FIFO_DATA_BYTES
                     [] ~Taking /\ StartsFrame -> BYTES_PER_COL + FIFO_DATA_BYTES + 1
                     [] OTHER -> bytes_remaining
<1>1. M \in Nat \ {0} /\ M > B + 3
  BY Sizes DEF CountsFit, B
<1>2. next \in Nat /\ next <= B + 3
  BY Sizes, CountTypes DEF B, FIFO_DATA_BYTES, CompletesColumn
<1>3. bytes_remaining' = next % M
  BY DEF Tick, FrameControl
<1> HIDE DEF M, next
<1>4. bytes_remaining' = next
  <2>1. next < M
    BY <1>1, <1>2, Sizes
  <2>2. QED
    BY <1>1, <1>2, <1>3, <2>1, ModIn
<1>5. CompletesColumn => Taking /\ bytes_remaining <= 3
  BY DEF CompletesColumn
<1>6. /\ CompletesColumn => next = bytes_remaining + B - 2
      /\ ~CompletesColumn /\ Taking /\ bytes_remaining > 3 => next = bytes_remaining - 2
      /\ ~Taking /\ StartsFrame => next = B + 3
      /\ ~CompletesColumn /\ ~(Taking /\ bytes_remaining > 3) /\ ~(~Taking /\ StartsFrame)
           => next = bytes_remaining
  BY <1>5, Sizes, CountTypes DEF next, B, FIFO_DATA_BYTES
<1>7. frame_active' <=> (flush_timer # 1 /\ (frame_active \/ StartsFrame))
  BY DEF Tick, FrameControl
<1>8. /\ flush_timer' = IF LastAccess THEN 5
                        ELSE IF flush_timer > 0 THEN flush_timer - 1 ELSE 0
      /\ pixels_remaining' = IF CompletesColumn THEN pixels_remaining - 1
                             ELSE IF StartsFrame THEN L - 1 ELSE pixels_remaining
  BY DEF Tick, FrameControl, L, FLUSH_TICKS
<1>9. QED
  BY <1>4, <1>6, <1>7, <1>8

LEMMA EndsAtTwo ==
  AtFrameEnd /\ TypeOK /\ Tick => oaddr' = oaddr
  BY OaddrNext DEF AtFrameEnd

LEMMA ReadingNext ==
  ASSUME CountsFit, TypeOK, CountInv, Tick, ~reset, frame_active, flush_timer = 0
  PROVE  /\ frame_active'
         /\ \/ flush_timer' = 0 /\ Reading'
            \/ /\ flush_timer' = 5 /\ AtFrameEnd'
               /\ pixels_remaining' = 0 /\ bytes_remaining' = 3
<1>1. PICK k \in 0 .. W - 1, b \in {0, 1} : Rest + 2 * k = L * B + 3 /\ oaddr = b * W + k
  BY DEF CountInv, Reading
<1>2. /\ ~flush_shift_reg /\ bytes_remaining \in 2 .. B + 3
      /\ pixels_remaining = 0 => bytes_remaining >= 5
  BY DEF CountInv, Reading
<1>3. Taking = fifo_read /\ ~StartsFrame
  BY <1>2, CountTypes DEF Taking, StartsFrame
<1>4. frame_active'
  BY <1>3, CountersNext
<1>5. ReadsWords
  BY ReadCases
<1>6. ~flush_shift_reg'
  BY <1>5 DEF ReadsWords
<1>7. Rest = pixels_remaining * B + bytes_remaining /\ pixels_remaining * B \in Nat
  BY Sizes, CountTypes, SMT DEF Rest
<1>8. pixels_remaining # 0 => pixels_remaining * B >= B
  BY Sizes, CountTypes, SMT
<1>9. CASE ~fifo_read
  <2>1. /\ ~LastAccess /\ ~CompletesColumn /\ ~Taking
    BY <1>3, <1>9 DEF LastAccess, CompletesColumn
  <2>2. /\ pixels_remaining' = pixels_remaining /\ bytes_remaining' = bytes_remaining
        /\ flush_timer' = 0
    BY <1>3, <2>1, CountersNext
  <2>3. oaddr' = oaddr
    BY <1>9, OaddrNext
  <2>4. Reading'
    BY <1>1, <1>2, <1>6, <2>2, <2>3 DEF Reading, Rest
  <2>5. QED
    BY <1>4, <2>2, <2>4
<1>10. CASE fifo_read /\ LastAccess
  <2>1. pixels_remaining = 0 /\ bytes_remaining = 5
    BY <1>10 DEF LastAccess
  <2>2. k = W - 1
    BY <1>1, <1>7, <2>1, Sizes
  <2>3. oaddr = W - 1 \/ oaddr = 2 * W - 1
    BY <1>1, <2>2, Sizes
  <2>4. oaddr' \in {0, W}
    BY <1>10, <2>3, OaddrNext, Sizes
  <2>5. fifo_read' = FALSE
    BY <1>5, <1>10 DEF ReadsWords, Reads, MayRead
  <2>6. ~CompletesColumn /\ Taking
    BY <1>3, <1>10, <2>1 DEF CompletesColumn
  <2>7. flush_timer' = 5 /\ pixels_remaining' = 0 /\ bytes_remaining' = 3
    BY <1>3, <1>10, <2>1, <2>6, CountersNext
  <2>8. QED
    BY <1>4, <2>4, <2>5, <2>7 DEF AtFrameEnd
<1>11. CASE fifo_read /\ ~LastAccess
  <2>1. flush_timer' = 0
    BY <1>11, CountersNext
  <2>2. /\ pixels_remaining' \in Nat /\ bytes_remaining' \in 2 .. B + 3
        /\ pixels_remaining' * B + bytes_remaining' = Rest - 2
        /\ pixels_remaining' * B \in Nat
        /\ pixels_remaining' # 0 => pixels_remaining' * B >= B
        /\ pixels_remaining' = 0 => bytes_remaining' >= 5
    <3>1. CASE CompletesColumn
      <4>1. bytes_remaining <= 3 /\ pixels_remaining # 0
        BY <3>1 DEF CompletesColumn
      <4>2. /\ pixels_remaining' = pixels_remaining - 1
            /\ bytes_remaining' = bytes_remaining + B - 2
        BY <3>1, CountersNext
      <4>3. (pixels_remaining - 1) * B = pixels_remaining * B - B
        BY Sizes, CountTypes, SMT
      <4>4. pixels_remaining' \in Nat
        BY <4>1, <4>2, CountTypes
      <4>5. pixels_remaining' # 0 => pixels_remaining' * B >= B
        BY <4>4, Sizes, Times
      <4>6. pixels_remaining' * B \in Nat
        BY <4>4, Sizes, Times
      <4>7. QED
        BY <1>2, <1>7, <4>1, <4>2, <4>3, <4>4, <4>5, <4>6, Sizes, CountTypes
    <3>2. CASE ~CompletesColumn
      <4>1. bytes_remaining > 3
        BY <1>2, <1>3, <1>11, <3>2, CountTypes DEF CompletesColumn
      <4>2. /\ pixels_remaining' = pixels_remaining
            /\ bytes_remaining' = bytes_remaining - 2
        BY <1>3, <1>11, <3>2, <4>1, CountersNext
      <4>3. pixels_remaining = 0 => bytes_remaining = 2 * (W - k) + 3
        <5>1. pixels_remaining = 0 => pixels_remaining * B = 0
          BY Sizes, CountTypes, Times
        <5>2. QED
          BY <1>1, <1>7, <5>1, Sizes, CountTypes
      <4>4. bytes_remaining # 5 \/ pixels_remaining # 0
        BY <1>3, <1>11 DEF LastAccess
      <4>5. pixels_remaining = 0 => bytes_remaining' >= 5
        BY <1>1, <1>2, <4>2, <4>3, <4>4, Sizes, CountTypes
      <4>6. QED
        BY <1>2, <1>7, <1>8, <4>1, <4>2, <4>5, Sizes, CountTypes
    <3>3. QED
      BY <3>1, <3>2
  <2>3. k + 1 \in 0 .. W - 1 /\ Rest - 2 + 2 * (k + 1) = L * B + 3
    BY <1>1, <1>7, <2>2, Sizes
  <2>4. oaddr' = b * W + (k + 1)
    <3>1. oaddr # 2 * W - 1
      BY <1>1, <2>3, Sizes
    <3>2. QED
      BY <1>1, <1>11, <3>1, OaddrNext, Sizes
  <2>5. Rest' = Rest - 2
    BY <2>2 DEF Rest
  <2>6. Reading'
    BY <1>1, <1>6, <2>2, <2>3, <2>4, <2>5 DEF Reading
  <2>7. QED
    BY <1>4, <2>1, <2>6
<1>12. QED
  BY <1>9, <1>10, <1>11

LEMMA FlushingNext ==
  ASSUME CountsFit, TypeOK, CountInv, Tick, ~reset, frame_active, flush_timer > 0
  PROVE  /\ AtFrameEnd' /\ pixels_remaining' = 0 /\ bytes_remaining' = 3
         /\ flush_timer' = flush_timer - 1 /\ (frame_active' <=> flush_timer # 1)
         /\ flush_shift_reg' <=> flush_timer = 3
<1>1. AtFrameEnd /\ pixels_remaining = 0 /\ bytes_remaining = 3
  BY DEF CountInv
<1>2. ~StartsFrame /\ ~LastAccess /\ ~CompletesColumn
  BY <1>1 DEF StartsFrame, LastAccess, CompletesColumn
<1>3. /\ pixels_remaining' = 0 /\ bytes_remaining' = 3
      /\ flush_timer' = flush_timer - 1 /\ (frame_active' <=> flush_timer # 1)
  BY <1>1, <1>2, CountersNext
<1>4. ReadsFlush
  BY ReadCases
<1>5. fifo_read' = FALSE /\ (flush_shift_reg' <=> flush_timer = 3)
  BY <1>4 DEF ReadsFlush
<1>6. oaddr' = oaddr
  BY <1>1, EndsAtTwo
<1>7. QED
  BY <1>1, <1>3, <1>5, <1>6 DEF AtFrameEnd

LEMMA IdleNext ==
  ASSUME CountsFit, TypeOK, CountInv, Tick, ~reset, ~frame_active
  PROVE  /\ flush_timer' = 0 /\ ~flush_shift_reg' /\ ~fifo_read'
         /\ \/ ~frame_active' /\ AtFrameEnd'
            \/ frame_active' /\ Reading'
<1>1. AtFrameEnd /\ ~flush_shift_reg /\ flush_timer = 0
  BY DEF CountInv
<1>2. ~Taking /\ ~LastAccess /\ ~CompletesColumn
  BY <1>1 DEF AtFrameEnd, Taking, LastAccess, CompletesColumn
<1>3. flush_timer' = 0 /\ (frame_active' <=> StartsFrame)
  BY <1>1, <1>2, CountersNext
<1>4. oaddr' = oaddr
  BY <1>1, EndsAtTwo
<1>5. ReadsNothing
  BY ReadCases
<1>6. fifo_read' = FALSE /\ flush_shift_reg' = FALSE
  BY <1>5 DEF ReadsNothing
<1>7. CASE StartsFrame
  <2>1. pixels_remaining' = L - 1 /\ bytes_remaining' = B + 3
    BY <1>2, <1>7, CountersNext
  <2>2. (L - 1) * B = L * B - B
    BY Sizes, SMT
  <2>3. Rest' = L * B + 3
    BY <2>1, <2>2, Sizes DEF Rest
  <2>4. 0 \in 0 .. W - 1 /\ L * B + 3 + 2 * 0 = L * B + 3
    BY Sizes
  <2>5. \E b \in {0, 1} : oaddr' = b * W + 0
    BY <1>1, <1>4, Sizes DEF AtFrameEnd
  <2>6. Reading'
    BY <1>6, <2>1, <2>3, <2>4, <2>5, Sizes DEF Reading
  <2>7. QED
    BY <1>3, <1>6, <1>7, <2>6
<1>8. CASE ~StartsFrame
  BY <1>1, <1>3, <1>4, <1>6, <1>8 DEF AtFrameEnd
<1>9. QED
  BY <1>7, <1>8

LEMMA ResetNext ==
  ASSUME CountsFit, TypeOK, CountInv, Tick, reset
  PROVE  /\ ~frame_active' /\ AtFrameEnd' /\ ~flush_shift_reg' /\ flush_timer' = 0
<1>1. AtFrameEnd
  BY DEF CountInv
<1>2. oaddr' = oaddr
  BY <1>1, EndsAtTwo
<1>3. ReadsNothing
  BY ReadCases
<1>4. fifo_read' = FALSE /\ flush_shift_reg' = FALSE
  BY <1>3 DEF ReadsNothing
<1>5. frame_active' = FALSE /\ flush_timer' = 0
  BY DEF Tick, FrameControl
<1>6. QED
  BY <1>1, <1>2, <1>4, <1>5 DEF AtFrameEnd

LEMMA CountNext ==
  ASSUME CountsFit, TypeOK, CountInv, Tick
  PROVE  CountInv'
<1>1. /\ reset' => ~frame_active'
      /\ frame_active' /\ flush_timer' = 0 => Reading'
      /\ frame_active' /\ flush_timer' > 0 =>
           AtFrameEnd' /\ pixels_remaining' = 0 /\ bytes_remaining' = 3
      /\ ~frame_active' => AtFrameEnd' /\ ~flush_shift_reg' /\ flush_timer' = 0
  <2>1. CASE reset
    BY <2>1, ResetNext
  <2>2. CASE ~reset
    <3>1. ~reset'
      BY <2>2 DEF Tick
    <3>2. CASE ~frame_active
      BY <2>2, <3>1, <3>2, IdleNext
    <3>3. CASE frame_active /\ flush_timer = 0
      BY <2>2, <3>1, <3>3, ReadingNext
    <3>4. CASE frame_active /\ flush_timer > 0
      <4>1. /\ AtFrameEnd' /\ pixels_remaining' = 0 /\ bytes_remaining' = 3
            /\ flush_timer' = flush_timer - 1 /\ (frame_active' <=> flush_timer # 1)
            /\ flush_shift_reg' <=> flush_timer = 3
        BY <2>2, <3>4, FlushingNext
      <4>2. CASE flush_timer = 1
        BY <3>1, <4>1, <4>2
      <4>3. CASE flush_timer # 1
        <5>1. flush_timer' # 0
          BY <4>1, <4>3, CountTypes
        <5>2. QED
          BY <3>1, <4>1, <4>3, <5>1
      <4>4. QED
        BY <4>2, <4>3
    <3>5. flush_timer = 0 \/ flush_timer > 0
      BY CountTypes
    <3>6. QED
      BY <3>2, <3>3, <3>4, <3>5
  <2>3. QED
    BY <2>1, <2>2
<1>2. PICK n \in Arrivals : known' = known - (IF fifo_read THEN 1 ELSE 0) + n
  BY DEF Tick, Fifo
<1>3. n \in Nat
  BY <1>2, CountTypes, CapacityAssumption DEF Arrivals, CapacityAssumption
<1>4. full_count' = IF reset THEN 0 ELSE known - (IF fifo_read THEN 1 ELSE 0)
  BY DEF Tick, Fifo
<1>5. fifo_read => known > 0
  BY DEF CountInv
<1>6. full_count' <= known'
  BY <1>2, <1>3, <1>4, <1>5, CountTypes
<1>7. ASSUME fifo_read'
      PROVE  known' > 0
  <2>1. ~reset /\ frame_active /\ flush_timer = 0
    BY <1>7, ReadCases, CountTypes DEF ReadsNothing, ReadsFlush
  <2>2. Reads
    BY <1>7, <2>1, ReadCases DEF ReadsWords
  <2>3. full_count > 0 /\ ~fifo_read
    BY <2>2 DEF Reads, MayRead
  <2>4. full_count <= known
    BY DEF CountInv
  <2>5. QED
    BY <1>2, <1>3, <2>3, <2>4, CountTypes
<1>8. QED
  BY <1>1, <1>6, <1>7 DEF CountInv

-----------------------------------------------------------------------------
(* The theorems of the counting                                            *)

LEMMA CountUnchanged ==
  ASSUME TypeOK, CountInv, UNCHANGED vars
  PROVE  TypeOK' /\ CountInv'
BY DEF vars, frameVars, readVars, delayVars, shiftVars, initVars, fifoVars,
       TypeOK, CountInv, Reading, AtFrameEnd, Rest

\* The invariant of the counting holds: while a frame is read, the two counters and the
\* read address of the FIFO agree on how much of it is left (parallel_strings.v:65-116).
THEOREM CountInvariant ==
  ASSUME CountsFit
  PROVE  Spec => [](TypeOK /\ CountInv)
<1>1. Init => TypeOK /\ CountInv
  BY CountInit
<1>2. TypeOK /\ CountInv /\ [Next]_vars => TypeOK' /\ CountInv'
  BY CountsFit, TypesNext, CountNext, CountUnchanged DEF Next
<1>3. QED
  BY <1>1, <1>2, PTL DEF Spec

\* Every register stays within its width and the FIFO is never asked for more than it
\* holds, however words arrive (parallel_strings.v:28-60).
THEOREM ColorTypes ==
  ASSUME CountsFit
  PROVE  Spec => []TypeOK
BY CountInvariant, PTL

\* Whole frames are taken out of the FIFO, whatever the number of strings and LEDs and
\* whenever words arrive or strings are ready: between two frames the read address is at
\* the start of one, so the picture never shifts by a byte (parallel_strings.v:65-70).
THEOREM WholeFrames ==
  ASSUME CountsFit
  PROVE  Spec => []WholeFramesTaken
<1>1. TypeOK /\ CountInv => WholeFramesTaken
  <2> SUFFICES ASSUME TypeOK, CountInv
               PROVE  WholeFramesTaken
    OBVIOUS
  <2>1. ASSUME ~frame_active
        PROVE  oaddr % W = 0
    <3>1. oaddr = W * 0 + 0 \/ oaddr = W * 1 + 0
      BY <2>1, Sizes DEF CountInv, AtFrameEnd
    <3>2. W \in Nat \ {0} /\ 0 \in 0 .. W - 1
      BY Sizes
    <3>3. QED
      BY <3>1, <3>2, ModUnique
  <2>2. fifo_read => known > 0
    BY DEF CountInv
  <2>3. QED
    BY <2>1, <2>2 DEF WholeFramesTaken, W
<1>2. QED
  BY <1>1, CountInvariant, PTL

-----------------------------------------------------------------------------
(* The words of a frame and its pixels                                     *)

\* Word w of a frame is the last that its pixel needs; and the pixel that the shift register
\* holds, or will hold next, once r words are in it.
Completes(w) == w >= 2 /\ w % 3 # 1
PixelAt(r)   == IF r < 2 THEN 0 ELSE (2 * (r - 2)) \div 3

One(b) == IF b THEN 1 ELSE 0

LEMMA PixelZero == PixelAt(0) = 0 /\ PixelAt(1) = 0 /\ ~Completes(0) /\ ~Completes(1)
BY SMT DEF PixelAt, Completes

LEMMA PixelNext ==
  ASSUME NEW r \in Nat
  PROVE  /\ PixelAt(r) \in Nat
         /\ PixelAt(r + 1) = PixelAt(r) + One(r >= 1 /\ Completes(r - 1))
BY SMT DEF PixelAt, Completes, One

LEMMA PixelBytes ==
  ASSUME NEW r \in Nat, r >= 1, Completes(r - 1)
  PROVE  /\ 3 * PixelAt(r) = 2 * r - 6 + One(r % 3 = 1)
         /\ r >= 3
         /\ PixelAt(r + 1) % 2 = 0 => ~Completes(r)
BY SMT DEF PixelAt, Completes, One

LEMMA NotTwice ==
  ASSUME NEW r \in Nat, PixelAt(r + 1) >= 1, ~Completes(r)
  PROVE  Completes(r + 1)
BY SMT DEF PixelAt, Completes

LEMMA LastPixel ==
  /\ W % 3 = 0 /\ Completes(W - 1) /\ ~Completes(W - 2)
  /\ L * N_STRINGS \in Nat
  /\ PixelAt(W) = L * N_STRINGS - 2
<1> DEFINE e == L * N_STRINGS
<1>1. e \in Nat /\ 2 * W = 3 * e
  <2>1. e \in Nat
    BY Sizes, Times
  <2>2. L * B = 3 * e
    BY Sizes, SMT
  <2>3. QED
    BY <2>1, <2>2, Sizes
<1> HIDE DEF e
<1>2. W \in Nat /\ W >= 3
  BY Sizes
<1>3. QED
  <2>1. W % 3 = 0 /\ Completes(W - 1) /\ ~Completes(W - 2) /\ PixelAt(W) = e - 2
    BY <1>1, <1>2, SMT DEF PixelAt, Completes
  <2>2. QED
    BY <1>1, <2>1 DEF e
-----------------------------------------------------------------------------
(* Words on their way                                                      *)

\* The frame that is read, and its words that have been read, that have been asked for,
\* that have left the FIFO but for one, and that are in the shift register.
Base  == IF flush_timer = 0 <=> oaddr >= W THEN 1 ELSE 0
Got   == IF flush_timer = 0 THEN oaddr - Base * W ELSE W
Asked == Got + One(fifo_read)
Due   == Got - One(ord_q)
In    == Due - One(fifo_data_valid)

WireTypes ==
  /\ fifo_shift_reg \in Seq(Nat) /\ Len(fifo_shift_reg) = 6
  /\ drivers \in [Strings -> Drivers(Seq(Nat))]
  /\ line \in [Strings -> Seq([pixel : Seq(Nat), shifts : 0 .. DATA_WIDTH])]

\* Whatever is late by one, two or three edges is late for the same word.
Delayed ==
  /\ completes = <<Completes(Due), Completes(In)>>
  /\ destination = <<PixelAt(Got) % N_STRINGS, PixelAt(Due) % N_STRINGS>>
  /\ shift_reg_sel = <<Got % 3 = 1, Due % 3 = 1, In % 3 = 1>>
  /\ ord_q => oaddr_q = Base * W + Due
  /\ fifo_data_valid => fifo_data = Base * W + In

\* The read control has counted the words it asked for.
Counted ==
  /\ fifo_shift_count = Asked % 3
  /\ flush_timer = 0 => (fifo_shift_reg_primed <=> Asked >= 3)
  /\ next_word_completes_pixel <=> Completes(Got)
  /\ must_wait_for_ready <=> Asked > 0 /\ Completes(Asked - 1)
  /\ active_string = PixelAt(Asked) % N_STRINGS

\* A byte of the frame, by its place; before the first there are those of no frame.
ByteAt(b, place) == IF place >= 0 THEN 2 * (b * W) + place ELSE NoByte

Held == \A j \in 1 .. 6 : fifo_shift_reg[j] = ByteAt(Base, 2 * In - 7 + j)

InStep ==
  /\ ~(fifo_read /\ ord_q) /\ ~(ord_q /\ fifo_data_valid)
  /\ In >= 0
  /\ full_count >= W - Got
  /\ Delayed /\ Counted
  /\ flush_timer = 0 => Got < W
  /\ flush_timer # 1 => Held
  /\ flush_timer = 5 => ord_q
  /\ flush_timer = 4 => fifo_data_valid
  /\ flush_timer \in 1 .. 3 => In = W
  /\ flush_shift_reg <=> flush_timer = 2

AtRest ==
  /\ ~ord_q /\ ~fifo_data_valid /\ fifo_shift_count = 0
  /\ shift_reg_sel = <<FALSE, FALSE, FALSE>>

\* The words between the FIFO and the shift register are where the counting has them.
PipeInv == IF frame_active THEN InStep ELSE AtRest

-----------------------------------------------------------------------------
(* Pixels handed over                                                      *)

T(s) == ToReady(drivers[s])

\* The pixels of the frame that the strings have taken; the string whose turn it is, and
\* how many pixels each of the strings before it, but not this one, has more.
Dealing == frame_active /\ flush_timer \notin {1, 2}
Offering == shift_data_valid # {}
Taken == IF Offering THEN PixelAt(In) ELSE PixelAt(In + 1)
Turn  == Taken % N_STRINGS
Round == Taken \div N_STRINGS

Offered ==
  /\ Offering =>
       /\ shift_data_valid = {Turn} /\ ~fifo_data_valid
       /\ In >= 1 /\ Completes(In - 1)
       /\ fifo_read \/ ord_q => T(Turn) = 0
  /\ fifo_data_valid /\ fifo_read /\ Completes(In) => T(Turn) = 0
  /\ flush_timer = 3 => Offering

\* The pixel in the shift register is for the string whose turn it is, and no word
\* replaces it before that string takes it.
OfferInv ==
  /\ \A s \in Strings : DriverSound(drivers[s]) /\ Busy(drivers[s])
  /\ Dealing => Offered
  /\ init_active => shift_data_valid = {}

\* Edges until the pixel is in the shift register
Latency ==
  IF Offering THEN 0
  ELSE IF fifo_data_valid /\ Completes(In) THEN 1
  ELSE IF ord_q /\ Completes(In) THEN 2
  ELSE IF fifo_read /\ (fifo_data_valid \/ Completes(In)) THEN 3
  ELSE IF ord_q THEN 4 ELSE IF fifo_read THEN 5 ELSE 6

Waiting == [s \in Strings |-> T(s)]

\* The string after the next is not late when a word for it is asked for.
Room ==
  IF Offering /\ ord_q THEN 4
  ELSE IF fifo_read /\ (Offering \/ (fifo_data_valid /\ Completes(In))) THEN 5
  ELSE T(Turn) + 6

\* t: edges until each string is ready; u: the string whose turn it is.
ConvoyOf(t, u, taken, lat, room) ==
  /\ \A s \in 1 .. N_STRINGS - 1 : s # u => t[s] <= t[s - 1] + 6
  /\ u >= 1 =>
       /\ t[u - 1] <= PixelTicks /\ PixelTicks - t[u - 1] + lat <= 5
       /\ t[u] > 0 => t[u] + (PixelTicks - t[u - 1]) <= 5
       /\ taken % 2 = 0 => t[u] <= lat
  /\ u + 1 < N_STRINGS => t[u + 1] <= room

Convoy == ConvoyOf(Waiting, Turn, Taken, Latency, Room)

\* That is so because a string is ready soon after the one before it: the string whose
\* turn it is when its pixel is there, or within the five edges that a word takes.
ConvoyInv == Dealing => Convoy

-----------------------------------------------------------------------------
(* Bits on the wires                                                       *)

\* Frame 2 stands for the clearing of the LEDs.
PixelFor(f, s, i) == IF f = 2 THEN InitColor ELSE PixelOf(f, s, i)

\* A driver d has sent these bits, and has n pixels of a frame.
OnWire(d, bits, f, s, n) ==
  /\ Len(bits) = (n - 1) * DATA_WIDTH + BitsSent(d)
  /\ ~d.shift_ready => n >= 1 /\ d.shift_reg.pixel = PixelFor(f, s, n - 1)
  /\ \A j \in 1 .. Len(bits) :
       bits[j] = Shifted(PixelFor(f, s, (j - 1) \div DATA_WIDTH), (j - 1) % DATA_WIDTH)

Sends(f, s, n) == OnWire(drivers[s], line[s], f, s, n)

\* The pixels that a string is sent of a frame.
Share(f, s) == IF f # 2 /\ s = N_STRINGS - 1 THEN L - 1 ELSE L
Whole == \E f \in 0 .. 2 : \A s \in Strings : Sends(f, s, Share(f, s))

AllReady == \A s \in Strings : string_ready(drivers[s])

\* The pixels that every string has taken to clear its LEDs.
Cleared == L - init_pixels_remaining - One(init_data_valid)

Clearing ==
  /\ ~frame_active /\ ~h_blank /\ ~h_blank_q /\ known = 0 /\ full_count = 0
  /\ init_data_valid => AllReady /\ ~reset /\ init_pixels_remaining < L
  /\ reset => init_pixels_remaining = L /\ ~init_data_valid
  /\ \A s \in Strings : Sends(2, s, Cleared)

Blanking ==
  /\ Got = 0 /\ ~(h_blank /\ h_blank_q) /\ (h_blank => ~fifo_read)
  /\ ~fifo_data_valid /\ ~Offering /\ ~ord_q
  /\ AllReady /\ Whole

\* In every phase every string has been sent the first so many pixels of one frame.
SendInv ==
  /\ reset => init_active
  /\ init_active => Clearing
  /\ ~init_active /\ ~frame_active =>
       ~h_blank /\ ~h_blank_q /\ Whole /\ \A s \in shift_data_valid : T(s) > 0
  /\ frame_active => ~init_active
  /\ frame_active /\ (h_blank \/ h_blank_q) => Blanking
  /\ Dealing /\ ~h_blank /\ ~h_blank_q =>
        \A s \in Strings : Sends(Base, s, IF s < Turn THEN Round + 1 ELSE Round)
  /\ frame_active /\ flush_timer \in {1, 2} =>
       /\ \A s \in Strings : Sends(Base, s, Share(Base, s))
       /\ ~h_blank /\ ~h_blank_q
       /\ flush_timer = 2 => shift_data_valid = {} /\ T(N_STRINGS - 2) > 2
       /\ flush_timer = 1 => shift_data_valid = {N_STRINGS - 2} /\ T(N_STRINGS - 2) > 1

LEMMA ShiftTwo ==
  ASSUME NEW q \in Seq(Nat), Len(q) = 6, NEW a \in Nat, NEW b \in Nat,
         NEW r, r = SubSeq(q, 3, 6) \o <<a, b>>
  PROVE  /\ r \in Seq(Nat) /\ Len(r) = 6
         /\ r[1] = q[3] /\ r[2] = q[4] /\ r[3] = q[5] /\ r[4] = q[6] /\ r[5] = a /\ r[6] = b
<1>1. PICK h : h = SubSeq(q, 3, 6)
  OBVIOUS
<1>0. \A i \in 1 .. Len(q) : q[i] \in Nat
  BY ElementOfSeq
<1>2. \A i \in 3 .. 6 : q[i] \in Nat
  BY <1>0
<1>3. h \in Seq(Nat) /\ Len(h) = 4 /\ \A i \in 1 .. 4 : h[i] = q[3 + i - 1]
  BY <1>1, <1>2, SubSeqProperties
<1>4. h[1] = q[3] /\ h[2] = q[4] /\ h[3] = q[5] /\ h[4] = q[6]
  BY <1>3
<1>5. PICK t : t = <<a, b>>
  OBVIOUS
<1>6. t \in Seq(Nat) /\ Len(t) = 2 /\ t[1] = a /\ t[2] = b
  BY <1>5
<1>7. r = h \o t
  BY <1>1, <1>5
<1>8. /\ r \in Seq(Nat) /\ Len(r) = Len(h) + Len(t)
      /\ \A i \in 1 .. Len(h) + Len(t) : r[i] = IF i <= Len(h) THEN h[i] ELSE t[i - Len(h)]
  <2>1. h \in Seq(Nat) /\ t \in Seq(Nat)
    BY <1>3, <1>6
  <2>2. /\ h \o t \in Seq(Nat) /\ Len(h \o t) = Len(h) + Len(t)
        /\ \A i \in 1 .. Len(h) + Len(t) :
             (h \o t)[i] = IF i <= Len(h) THEN h[i] ELSE t[i - Len(h)]
    BY <2>1, ConcatProperties
  <2>3. QED
    BY <1>7, <2>2, Zenon
<1>9. QED
  BY <1>4, <1>6, <1>8

LEMMA Cut ==
  ASSUME NEW S, NEW q \in Seq(S), Len(q) = 6, NEW o \in {0, 1}, NEW r,
         r = SubSeq(q, 1 + o, 3 + o)
  PROVE  r \in Seq(S) /\ r = <<q[1 + o], q[2 + o], q[3 + o]>>
<1>0. \A i \in 1 .. Len(q) : q[i] \in S
  BY ElementOfSeq
<1>1. \A i \in 1 + o .. 3 + o : q[i] \in S
  BY <1>0
<1>2. r \in Seq(S) /\ Len(r) = 3 /\ \A i \in 1 .. 3 : r[i] = q[1 + o + i - 1]
  BY <1>1, SubSeqProperties
<1>3. r[1] = q[1 + o] /\ r[2] = q[2 + o] /\ r[3] = q[3 + o]
  BY <1>2
<1>4. PICK t : t = <<q[1 + o], q[2 + o], q[3 + o]>>
  OBVIOUS
<1>5. t \in Seq(S) /\ Len(t) = 3 /\ t[1] = q[1 + o] /\ t[2] = q[2 + o] /\ t[3] = q[3 + o]
  BY <1>1, <1>4
<1>6. \A i \in 1 .. 3 : r[i] = t[i]
  BY <1>3, <1>5
<1>7. r = t
  BY <1>2, <1>5, <1>6, SeqEqual
<1>8. QED
  BY <1>2, <1>4, <1>7

-----------------------------------------------------------------------------
(* The place in the stream                                                 *)

LEMMA PlaceReading ==
  ASSUME TypeOK, CountInv, frame_active, flush_timer = 0
  PROVE  /\ Base \in {0, 1} /\ Got \in 0 .. W - 1 /\ oaddr = Base * W + Got
         /\ Base = 0 \/ Base = 1
         /\ ~flush_shift_reg /\ ~reset
         /\ Got = W - 1 <=> pixels_remaining = 0 /\ bytes_remaining = 5
<1>1. PICK k \in 0 .. W - 1, b \in {0, 1} : Rest + 2 * k = L * B + 3 /\ oaddr = b * W + k
  BY DEF CountInv, Reading
<1>2. ~flush_shift_reg /\ ~reset /\ bytes_remaining \in 2 .. B + 3
  BY DEF CountInv, Reading
<1>3. Base = b
  BY <1>1, Sizes DEF Base
<1>4. Got = k
  BY <1>1, <1>3, Sizes DEF Got
<1>5. Rest = pixels_remaining * B + bytes_remaining /\ pixels_remaining * B \in Nat
      /\ (pixels_remaining # 0 => pixels_remaining * B >= B)
      /\ (pixels_remaining = 0 => pixels_remaining * B = 0)
  BY Sizes, CountTypes, Times DEF Rest
<1>6. Got = W - 1 <=> pixels_remaining = 0 /\ bytes_remaining = 5
  BY <1>1, <1>2, <1>4, <1>5, Sizes, CountTypes
<1>7. QED
  BY <1>1, <1>2, <1>3, <1>4, <1>6

LEMMA PlaceFlushing ==
  ASSUME TypeOK, CountInv, frame_active, flush_timer # 0
  PROVE  /\ Base \in {0, 1} /\ Got = W /\ ~fifo_read /\ ~reset
         /\ oaddr = IF Base = 1 THEN 0 ELSE W
<1>1. oaddr \in {0, W} /\ ~fifo_read /\ ~reset
  BY CountTypes DEF CountInv, AtFrameEnd
<1>2. QED
  BY <1>1, Sizes DEF Base, Got

LEMMA PlaceStays ==
  ASSUME CountsFit, TypeOK, CountInv, Tick, frame_active, frame_active'
  PROVE  /\ Base' = Base /\ Got' = Asked
         /\ flush_timer' = IF flush_timer = 0 THEN IF fifo_read /\ Got = W - 1 THEN 5 ELSE 0
                           ELSE flush_timer - 1
         /\ flush_timer # 1 /\ ~reset /\ ~reset'
<1>1. ~reset /\ ~reset'
  BY DEF CountInv, Tick
<1>2. CASE flush_timer = 0
  <2>1. /\ Base \in {0, 1} /\ Got \in 0 .. W - 1 /\ oaddr = Base * W + Got
        /\ ~flush_shift_reg
        /\ Got = W - 1 <=> pixels_remaining = 0 /\ bytes_remaining = 5
    BY <1>2, PlaceReading
  <2>2. LastAccess <=> fifo_read /\ Got = W - 1
    BY <2>1 DEF LastAccess, Taking
  <2>3. flush_timer' = IF LastAccess THEN 5 ELSE 0
    BY <1>1, <1>2, CountersNext
  <2>4. Asked = IF fifo_read THEN Got + 1 ELSE Got
    BY <2>1, Sizes DEF Asked, One
  <2>5. CASE fifo_read /\ Got = W - 1
    <3>1. flush_timer' = 5
      BY <2>2, <2>3, <2>5
    <3>2. oaddr' = IF Base = 1 THEN 0 ELSE W
      BY <2>1, <2>5, OaddrNext, Sizes
    <3>3. Base' = Base
      BY <2>1, <3>1, <3>2, Sizes DEF Base
    <3>4. Got' = W
      BY <3>1 DEF Got
    <3>5. QED
      BY <1>1, <1>2, <2>4, <2>5, <3>1, <3>3, <3>4, Sizes
  <2>6. CASE ~(fifo_read /\ Got = W - 1)
    <3>1. flush_timer' = 0
      BY <2>2, <2>3, <2>6
    <3>2. oaddr' = Base * W + Asked /\ Asked \in 0 .. W - 1
      BY <2>1, <2>4, <2>6, OaddrNext, Sizes
    <3>3. Base' = Base
      BY <2>1, <3>1, <3>2, Sizes DEF Base
    <3>4. Got' = Asked
      BY <2>1, <3>1, <3>2, <3>3, Sizes DEF Got
    <3>5. QED
      BY <1>1, <1>2, <2>6, <3>1, <3>3, <3>4
  <2>7. QED
    BY <2>5, <2>6
<1>3. CASE flush_timer # 0
  <2>1. flush_timer > 0
    BY <1>3, CountTypes
  <2>2. flush_timer' = flush_timer - 1 /\ flush_timer # 1
    BY <1>1, <2>1, FlushingNext
  <2>3. oaddr' = oaddr
    BY <1>3, PlaceFlushing, OaddrNext
  <2>4. flush_timer' # 0
    BY <1>3, <2>2, CountTypes
  <2>5. Base' = Base /\ Got' = Got
    BY <1>3, <2>3, <2>4 DEF Base, Got
  <2>6. Asked = Got
    BY <1>3, PlaceFlushing, Sizes DEF Asked, One
  <2>7. QED
    BY <1>1, <1>3, <2>2, <2>5, <2>6
<1>4. QED
  BY <1>2, <1>3

LEMMA PlaceStarts ==
  ASSUME CountsFit, TypeOK, CountInv, Tick, ~frame_active, frame_active'
  PROVE  /\ StartsFrame /\ flush_timer' = 0 /\ ~reset
         /\ Base' \in {0, 1} /\ Got' = 0 /\ ~fifo_read'
<1>1. ~reset
  BY ResetNext
<1>2. flush_timer' = 0 /\ ~fifo_read'
  BY <1>1, IdleNext
<1>3. StartsFrame
  BY <1>1, CountersNext
<1>4. oaddr' \in {0, W}
  BY EndsAtTwo DEF CountInv, AtFrameEnd
<1>5. (Base' = 0 /\ oaddr' = 0) \/ (Base' = 1 /\ oaddr' = W)
  BY <1>2, <1>4, Sizes DEF Base
<1>6. Got' = 0
  BY <1>2, <1>5, Sizes DEF Got
<1>7. QED
  BY <1>1, <1>2, <1>3, <1>5, <1>6 DEF Base

-----------------------------------------------------------------------------
(* The words that are on their way keep in step                            *)

LEMMA StagesNext ==
  ASSUME CountsFit, TypeOK, CountInv, PipeInv, Tick, frame_active, frame_active'
  PROVE  /\ Base' = Base /\ Base \in {0, 1} /\ Got' = Asked /\ Due' = Got /\ In' = Due
         /\ Asked \in Nat /\ Got \in Nat /\ Due \in Nat /\ In \in Nat
         /\ Asked' = Asked + One(fifo_read')
         /\ Asked = Got + One(fifo_read) /\ Due = Got - One(ord_q)
         /\ In = Due - One(fifo_data_valid)
         /\ Asked <= W
         /\ ord_q' = fifo_read /\ fifo_data_valid' = ord_q
<1>1. Base' = Base /\ Got' = Asked
  BY PlaceStays
<1>2. Base \in {0, 1} /\ Got \in Nat /\ Got <= W /\ (fifo_read => Got < W)
  BY PlaceReading, PlaceFlushing, Sizes
<1>3. ord_q' = fifo_read /\ fifo_data_valid' = ord_q
  BY DEF Tick, Fifo
<1>4. /\ fifo_read \in BOOLEAN /\ ord_q \in BOOLEAN /\ fifo_data_valid \in BOOLEAN
  BY CountTypes
<1>5. In >= 0
  BY DEF PipeInv, InStep
<1>6. Asked = Got + One(fifo_read) /\ Due = Got - One(ord_q) /\ In = Due - One(fifo_data_valid)
  BY DEF Asked, Due, In
<1>7. /\ Asked' = Got' + One(fifo_read') /\ Due' = Got' - One(ord_q')
      /\ In' = Due' - One(fifo_data_valid')
  BY DEF Asked, Due, In
<1>8. One(fifo_read) \in {0, 1} /\ One(ord_q) \in {0, 1} /\ One(fifo_data_valid) \in {0, 1}
      /\ (One(fifo_read) = 1 => fifo_read)
  BY <1>4 DEF One
<1>9. Due' = Got
  BY <1>1, <1>2, <1>3, <1>6, <1>7, <1>8
<1>10. In' = Due
  BY <1>3, <1>6, <1>7, <1>9
<1>11. Asked \in Nat /\ Due \in Nat /\ In \in Nat /\ Asked <= W
  BY <1>2, <1>5, <1>6, <1>8, Sizes
<1>12. QED
  BY <1>1, <1>2, <1>3, <1>6, <1>7, <1>9, <1>10, <1>11

LEMMA DelayedNext ==
  ASSUME CountsFit, TypeOK, CountInv, PipeInv, Tick, frame_active, frame_active'
  PROVE  Delayed'
<1> USE StagesNext
<1>1. Delayed /\ Counted
  BY DEF PipeInv, InStep
<1>2. ~reset
  BY PlaceStays
<1>3. completes' = <<next_word_completes_pixel, completes[1]>>
  BY <1>2 DEF Tick, DelayControl
<1>4. completes[1] = Completes(Due)
  BY <1>1 DEF Delayed
<1>5. next_word_completes_pixel = Completes(Got)
  BY <1>1, CountTypes DEF Counted, Completes
<1>6. completes' = <<Completes(Due'), Completes(In')>>
  BY <1>3, <1>4, <1>5
<1>7. destination' = <<active_string, destination[1]>>
  BY <1>2 DEF Tick, DelayControl
<1>8. destination' = <<PixelAt(Got') % N_STRINGS, PixelAt(Due') % N_STRINGS>>
  BY <1>1, <1>7 DEF Delayed, Counted
<1>9. shift_reg_sel' = <<fifo_shift_count = 1, shift_reg_sel[1], shift_reg_sel[2]>>
  BY DEF Tick, DelayControl
<1>10. shift_reg_sel' = <<Got' % 3 = 1, Due' % 3 = 1, In' % 3 = 1>>
  BY <1>1, <1>9 DEF Delayed, Counted
<1>11. fifo_read => oaddr = Base * W + Got
  BY PlaceReading, PlaceFlushing
<1>12. oaddr_q' = oaddr /\ fifo_data' = oaddr_q
  BY DEF Tick, Fifo
<1>13. ord_q' => oaddr_q' = Base' * W + Due'
  BY <1>11, <1>12
<1>14. fifo_data_valid' => fifo_data' = Base' * W + In'
  BY <1>1, <1>12 DEF Delayed
<1>15. QED
  BY <1>6, <1>8, <1>10, <1>13, <1>14 DEF Delayed

\* What Completes and PixelAt say of the counter modulo 3.
LEMMA CompletesBy ==
  ASSUME NEW a \in Nat
  PROVE  /\ a % 3 \in 0 .. 2
         /\ (a + 1) % 3 = ((a % 3) + 1) % 3
         /\ Completes(a) <=> a % 3 = 2 \/ (a % 3 = 0 /\ a >= 3)
         /\ (a + 1 >= 3 <=> a >= 3 \/ a % 3 = 2) 
BY SMT DEF Completes

LEMMA CountedReading ==
  ASSUME CountsFit, TypeOK, CountInv, PipeInv, Tick, frame_active, frame_active',
         flush_timer = 0
  PROVE  Counted'
<1> USE StagesNext
<1>1. Counted
  BY DEF PipeInv, InStep
<1>2. ReadsWords
  BY PlaceStays, ReadCases
<1>3. Reads \in BOOLEAN /\ (Reads => ~fifo_read)
  BY CountTypes DEF Reads, MayRead
<1>4. Asked' = Asked + One(Reads)
  BY <1>2 DEF ReadsWords
<1>5. Reads => Got = Asked
  BY <1>3 DEF One
<1>6. One(Reads) = IF Reads THEN 1 ELSE 0
  BY DEF One
<1> DEFINE a == Asked
<1>7. a \in Nat
  OBVIOUS
<1>8. /\ fifo_shift_count = a % 3 /\ (fifo_shift_reg_primed <=> a >= 3)
      /\ (must_wait_for_ready <=> a > 0 /\ Completes(a - 1))
      /\ active_string = PixelAt(a) % N_STRINGS
      /\ next_word_completes_pixel <=> Completes(Got)
  BY <1>1 DEF Counted
<1> HIDE DEF a
<1>9. fifo_shift_count' = Asked' % 3
  BY <1>2, <1>3, <1>4, <1>6, <1>7, <1>8, CompletesBy DEF ReadsWords, a
<1>10. fifo_shift_reg_primed' <=> Asked' >= 3
  <2>1. fifo_shift_reg_primed' <=> fifo_shift_reg_primed \/ (Reads /\ fifo_shift_count = 2)
    BY <1>2 DEF ReadsWords
  <2>2. CASE Reads
    BY <1>4, <1>6, <1>7, <1>8, <2>1, <2>2, CompletesBy DEF a
  <2>3. CASE ~Reads
    BY <1>4, <1>6, <1>7, <1>8, <2>1, <2>3 DEF a
  <2>4. QED
    BY <2>2, <2>3
<1>11. next_word_completes_pixel' <=> Completes(Got')
  <2>1. next_word_completes_pixel'
          <=> fifo_shift_count = 2 \/ (fifo_shift_count = 0 /\ fifo_shift_reg_primed)
    BY <1>2 DEF ReadsWords
  <2>2. QED
    BY <1>7, <1>8, <2>1, CompletesBy DEF a
<1>12. must_wait_for_ready' <=> Asked' > 0 /\ Completes(Asked' - 1)
  <2>1. CASE Reads
    <3>1. must_wait_for_ready' <=> next_word_completes_pixel
      BY <1>2, <2>1 DEF ReadsWords
    <3>2. Asked' = a + 1 /\ Asked' - 1 = a
      BY <1>4, <1>6, <1>7, <2>1 DEF a
    <3>3. QED
      BY <1>5, <1>7, <1>8, <2>1, <3>1, <3>2 DEF a
  <2>2. CASE ~Reads
    <3>1. must_wait_for_ready' <=> must_wait_for_ready
      BY <1>2, <2>2 DEF ReadsWords
    <3>2. Asked' = a
      BY <1>4, <1>6, <1>7, <2>2 DEF a
    <3>3. QED
      BY <1>8, <3>1, <3>2
  <2>3. QED
    BY <1>3, <2>1, <2>2
<1>13. active_string' = PixelAt(Asked') % N_STRINGS
  <2>1. active_string' = IF NextString THEN (active_string + 1) % N_STRINGS ELSE active_string
    BY <1>2 DEF ReadsWords
  <2>2. NextString <=> Reads /\ must_wait_for_ready
    BY DEF NextString, Reads
  <2>3. CASE NextString
    <3>1. Asked' = a + 1 /\ PixelAt(a) \in Nat
      BY <1>4, <1>6, <1>7, <2>2, <2>3, PixelNext DEF a
    <3>2. a >= 1 /\ Completes(a - 1)
      BY <1>7, <1>8, <2>2, <2>3
    <3>3. PixelAt(a + 1) = PixelAt(a) + 1
      BY <1>7, <3>2, PixelNext DEF One
    <3>4. (PixelAt(a) + 1) % N_STRINGS = ((PixelAt(a) % N_STRINGS) + 1) % N_STRINGS
      <4> DEFINE x == PixelAt(a)
      <4>1. x \in Nat
        BY <3>1
      <4> HIDE DEF x
      <4>2. N_STRINGS \in Nat \ {0} /\ x % N_STRINGS \in 0 .. N_STRINGS - 1
        BY <4>1, Sizes, ModIn
      <4>3. (x + 1) % N_STRINGS = IF x % N_STRINGS = N_STRINGS - 1 THEN 0 ELSE (x % N_STRINGS) + 1
        BY <4>1, <4>2, ModNext
      <4> DEFINE y == x % N_STRINGS
      <4>4. y \in Nat /\ y < N_STRINGS
        BY <4>2
      <4> HIDE DEF y
      <4>5. y % N_STRINGS = y
        BY <4>2, <4>4, ModIn
      <4>6. (y + 1) % N_STRINGS = IF y % N_STRINGS = N_STRINGS - 1 THEN 0 ELSE (y % N_STRINGS) + 1
        BY <4>2, <4>4, <4>5, ModNext
      <4>7. QED
        BY <4>3, <4>5, <4>6 DEF x, y
    <3>5. QED
      BY <1>8, <2>1, <2>3, <3>1, <3>3, <3>4
  <2>4. CASE ~NextString
    <3>1. CASE ~Reads
      BY <1>4, <1>6, <1>7, <1>8, <2>1, <2>4, <3>1 DEF a
    <3>2. CASE Reads
      <4>1. ~(a >= 1 /\ Completes(a - 1))
        BY <1>7, <1>8, <2>2, <2>4, <3>2
      <4>2. PixelAt(a + 1) = PixelAt(a) + 0 /\ PixelAt(a) \in Nat
        BY <1>7, <4>1, PixelNext DEF One
      <4>3. Asked' = a + 1
        BY <1>4, <1>6, <3>2 DEF a
      <4>4. QED
        BY <1>8, <2>1, <2>4, <4>2, <4>3
    <3>3. QED
      BY <1>3, <3>1, <3>2
  <2>5. QED
    BY <2>3, <2>4
<1>14. QED
  BY <1>9, <1>10, <1>11, <1>12, <1>13 DEF Counted

LEMMA CountedFlushing ==
  ASSUME CountsFit, TypeOK, CountInv, PipeInv, Tick, frame_active, frame_active',
         flush_timer # 0
  PROVE  Counted'
<1> USE StagesNext
<1>1. Counted
  BY DEF PipeInv, InStep
<1>2. Got = W /\ ~fifo_read /\ ~reset
  BY PlaceFlushing
<1>3. flush_timer > 0 /\ flush_timer' = flush_timer - 1 /\ flush_timer # 1
  BY PlaceStays, CountTypes
<1>4. ReadsFlush
  BY <1>2, <1>3, ReadCases
<1>5. /\ fifo_read' = FALSE /\ fifo_shift_count' = 0
      /\ must_wait_for_ready' = must_wait_for_ready /\ active_string' = active_string
      /\ next_word_completes_pixel' = next_word_completes_pixel
  BY <1>4 DEF ReadsFlush
<1>6. Asked = W /\ Asked' = W /\ Got' = W
  BY <1>2, <1>5, Sizes DEF One
<1>7. flush_timer' # 0
  BY <1>3, CountTypes
<1>8. QED
  BY <1>1, <1>2, <1>5, <1>6, <1>7, LastPixel DEF Counted

LEMMA HeldNext ==
  ASSUME CountsFit, TypeOK, CountInv, WireTypes, PipeInv, Tick, frame_active, frame_active',
         flush_timer' # 1
  PROVE  Held'
<1> USE StagesNext
<1>1. ~reset /\ flush_timer # 1
  BY PlaceStays
<1>2. flush_timer \in 0 .. 5 /\ fifo_data_valid \in BOOLEAN
  BY CountTypes
<1>3. flush_timer # 2
  BY <1>1, <1>2, PlaceStays
<1>4. ~flush_shift_reg /\ Held /\ Delayed
  BY <1>1, <1>3 DEF PipeInv, InStep
<1>5. CASE fifo_data_valid
  <2>1. fifo_shift_reg' = SubSeq(fifo_shift_reg, 3, 6) \o <<2 * fifo_data, 2 * fifo_data + 1>>
    BY <1>1, <1>5, ShiftCases DEF BytesOf
  <2>2. fifo_data = Base * W + In /\ Base * W \in Nat
    BY <1>4, <1>5, Sizes, Times DEF Delayed
  <2>3. 2 * fifo_data \in Nat /\ 2 * fifo_data + 1 \in Nat
    BY <2>2
  <2>4. /\ fifo_shift_reg'[1] = fifo_shift_reg[3] /\ fifo_shift_reg'[2] = fifo_shift_reg[4]
        /\ fifo_shift_reg'[3] = fifo_shift_reg[5] /\ fifo_shift_reg'[4] = fifo_shift_reg[6]
        /\ fifo_shift_reg'[5] = 2 * fifo_data /\ fifo_shift_reg'[6] = 2 * fifo_data + 1
    BY <2>1, <2>3, ShiftTwo DEF WireTypes
  <2>5. In' = In + 1
    BY <1>5 DEF One
  <2>6. /\ fifo_shift_reg[3] = ByteAt(Base, 2 * In - 4)
        /\ fifo_shift_reg[4] = ByteAt(Base, 2 * In - 3)
        /\ fifo_shift_reg[5] = ByteAt(Base, 2 * In - 2)
        /\ fifo_shift_reg[6] = ByteAt(Base, 2 * In - 1)
    BY <1>4 DEF Held
  <2>7. /\ 2 * fifo_data = ByteAt(Base, 2 * In)
        /\ 2 * fifo_data + 1 = ByteAt(Base, 2 * In + 1)
    BY <2>2 DEF ByteAt
  <2>8. /\ fifo_shift_reg'[1] = ByteAt(Base', 2 * In' - 7 + 1)
        /\ fifo_shift_reg'[2] = ByteAt(Base', 2 * In' - 7 + 2)
        /\ fifo_shift_reg'[3] = ByteAt(Base', 2 * In' - 7 + 3)
        /\ fifo_shift_reg'[4] = ByteAt(Base', 2 * In' - 7 + 4)
        /\ fifo_shift_reg'[5] = ByteAt(Base', 2 * In' - 7 + 5)
        /\ fifo_shift_reg'[6] = ByteAt(Base', 2 * In' - 7 + 6)
    BY <2>4, <2>5, <2>6, <2>7
  <2>9. QED
    BY <2>8 DEF Held
<1>6. CASE ~fifo_data_valid
  <2>1. fifo_shift_reg' = fifo_shift_reg
    BY <1>1, <1>4, <1>6, ShiftCases
  <2>2. In' = In
    BY <1>6 DEF One
  <2>3. QED
    BY <1>4, <2>1, <2>2 DEF Held, ByteAt
<1>7. QED
  BY <1>2, <1>5, <1>6

LEMMA BlankIs ==
  /\ NoByte \in Nat /\ InitColor \in Seq(Nat)
  /\ Blank \in Seq(Nat) /\ Len(Blank) = 6 /\ \A j \in 1 .. 6 : Blank[j] = NoByte
<1>1. NoByte \in Nat
  BY Sizes DEF NoByte
<1>2. PICK c : c = InitColor
  OBVIOUS
<1>3. c \in Seq(Nat) /\ Len(c) = 3 /\ c[1] = NoByte /\ c[2] = NoByte /\ c[3] = NoByte
  BY <1>1, <1>2 DEF InitColor
<1>4. /\ c \o c \in Seq(Nat) /\ Len(c \o c) = Len(c) + Len(c)
      /\ \A i \in 1 .. Len(c) + Len(c) :
           (c \o c)[i] = IF i <= Len(c) THEN c[i] ELSE c[i - Len(c)]
  BY <1>3, ConcatProperties
<1>5. Blank = c \o c
  BY <1>2 DEF Blank
<1>6. \A j \in 1 .. 6 : (c \o c)[j] = NoByte
  BY <1>3, <1>4
<1>7. InitColor \in Seq(Nat)
  BY <1>2, <1>3
<1>8. Len(c \o c) = 6
  BY <1>3, <1>4
<1>9. Blank \in Seq(Nat) /\ Len(Blank) = 6
  BY <1>4, <1>5, <1>8
<1>10. \A j \in 1 .. 6 : Blank[j] = NoByte
  BY <1>5, <1>6
<1>11. QED
  BY <1>1, <1>7, <1>9, <1>10

LEMMA StartsInStep ==
  ASSUME CountsFit, TypeOK, CountInv, PipeInv, Tick, ~frame_active, frame_active'
  PROVE  InStep'
<1>1. /\ StartsFrame /\ flush_timer' = 0 /\ ~reset
      /\ Base' \in {0, 1} /\ Got' = 0 /\ ~fifo_read'
  BY PlaceStarts
<1>2. AtRest /\ ~fifo_read
  BY DEF PipeInv, CountInv, AtFrameEnd
<1>3. ~ord_q' /\ ~fifo_data_valid'
  BY <1>2 DEF Tick, Fifo, AtRest
<1>4. Asked' = 0 /\ Due' = 0 /\ In' = 0
  <2>1. /\ Asked' = Got' + One(fifo_read') /\ Due' = Got' - One(ord_q')
        /\ In' = Due' - One(fifo_data_valid')
    BY DEF Asked, Due, In
  <2>2. One(fifo_read') = 0 /\ One(ord_q') = 0 /\ One(fifo_data_valid') = 0
    BY <1>1, <1>3 DEF One
  <2>3. QED
    BY <1>1, <2>1, <2>2
<1>5. ReadsNothing
  BY ReadCases
<1>6. full_count' >= W - Got'
  <2>1. full_count' = known - 0
    BY <1>1, <1>2 DEF Tick, Fifo
  <2>2. full_count >= W /\ full_count <= known
    BY <1>1 DEF StartsFrame, W, CountInv
  <2>3. QED
    BY <1>1, <2>1, <2>2, CountTypes, Sizes
<1>7. Delayed'
  <2>1. completes' = <<FALSE, FALSE>> /\ destination' = <<0, 0>>
    BY DEF Tick, DelayControl
  <2>2. shift_reg_sel' = <<FALSE, FALSE, FALSE>>
    <3>1. (fifo_shift_count = 1) = FALSE /\ shift_reg_sel[1] = FALSE /\ shift_reg_sel[2] = FALSE
      BY <1>2 DEF AtRest
    <3>2. shift_reg_sel' = <<fifo_shift_count = 1, shift_reg_sel[1], shift_reg_sel[2]>>
      BY DEF Tick, DelayControl
    <3>3. QED
      BY <3>1, <3>2
  <2>3. completes' = <<Completes(Due'), Completes(In')>>
    <3>1. Completes(Due') = FALSE /\ Completes(In') = FALSE
      BY <1>4, PixelZero DEF Completes
    <3>2. QED
      BY <2>1, <3>1
  <2>4. destination' = <<PixelAt(Got') % N_STRINGS, PixelAt(Due') % N_STRINGS>>
    BY <1>1, <1>4, <2>1, PixelZero, Sizes, ModIn
  <2>5. shift_reg_sel' = <<Got' % 3 = 1, Due' % 3 = 1, In' % 3 = 1>>
    <3>1. (Got' % 3 = 1) = FALSE /\ (Due' % 3 = 1) = FALSE /\ (In' % 3 = 1) = FALSE
      BY <1>1, <1>4
    <3>2. QED
      BY <2>2, <3>1
  <2>6. QED
    BY <1>3, <2>3, <2>4, <2>5 DEF Delayed
<1>8. Counted'
  <2>1. /\ fifo_shift_count' = Asked' % 3
        /\ fifo_shift_reg_primed' <=> Asked' >= 3
    BY <1>4, <1>5 DEF ReadsNothing
  <2>2. next_word_completes_pixel' <=> Completes(Got')
    BY <1>1, <1>5, PixelZero DEF ReadsNothing
  <2>3. must_wait_for_ready' <=> Asked' > 0 /\ Completes(Asked' - 1)
    BY <1>4, <1>5 DEF ReadsNothing
  <2>4. active_string' = PixelAt(Asked') % N_STRINGS
    BY <1>4, <1>5, PixelZero, Sizes, ModIn DEF ReadsNothing
  <2>5. QED
    BY <2>1, <2>2, <2>3, <2>4 DEF Counted
<1>9. Held'
  <2>1. fifo_shift_reg' = Blank
    BY ShiftCases
  <2>2. \A j \in 1 .. 6 : ~(2 * In' - 7 + j >= 0)
    BY <1>4
  <2>3. QED
    BY <2>1, <2>2, BlankIs DEF Held, ByteAt
<1>10. ~flush_shift_reg'
  BY <1>5 DEF ReadsNothing
<1>11. QED
  BY <1>1, <1>3, <1>4, <1>6, <1>7, <1>8, <1>9, <1>10, Sizes DEF InStep

LEMMA StaysInStep ==
  ASSUME CountsFit, TypeOK, CountInv, WireTypes, PipeInv, Tick, frame_active, frame_active'
  PROVE  InStep'
<1> USE StagesNext
<1>1. /\ ~(fifo_read /\ ord_q) /\ ~(ord_q /\ fifo_data_valid) /\ full_count >= W - Got
      /\ flush_timer = 5 => ord_q
      /\ flush_timer = 4 => fifo_data_valid
      /\ flush_timer \in 1 .. 3 => In = W
  BY DEF PipeInv, InStep
<1>2. /\ flush_timer' = IF flush_timer = 0 THEN IF fifo_read /\ Got = W - 1 THEN 5 ELSE 0
                        ELSE flush_timer - 1
      /\ flush_timer # 1 /\ ~reset /\ flush_timer \in 0 .. 5
  BY PlaceStays, CountTypes
<1>3. /\ fifo_read' => ~fifo_read
      /\ flush_shift_reg' <=> flush_timer' = 2
  <2>1. CASE flush_timer = 0
    <3>1. ReadsWords
      BY <1>2, <2>1, ReadCases
    <3>2. /\ fifo_read' => ~fifo_read
          /\ ~flush_shift_reg'
      BY <3>1 DEF ReadsWords, Reads, MayRead
    <3>3. flush_timer' # 2
      BY <1>2, <2>1
    <3>4. QED
      BY <3>2, <3>3
  <2>2. CASE flush_timer # 0
    <3>1. flush_timer > 0
      BY <1>2, <2>2
    <3>2. ~fifo_read' /\ (flush_shift_reg' <=> flush_timer = 3)
      BY <1>2, <3>1, FlushingNext DEF AtFrameEnd
    <3>3. QED
      BY <1>2, <2>2, <3>2
  <2>3. QED
    BY <2>1, <2>2
<1>4. ~(fifo_read' /\ ord_q') /\ ~(ord_q' /\ fifo_data_valid')
  BY <1>1, <1>3
<1>5. full_count' >= W - Got'
  <2>1. full_count' = known - One(fifo_read)
    BY <1>2 DEF Tick, Fifo, One
  <2>2. full_count <= known
    BY DEF CountInv
  <2>3. One(fifo_read) \in {0, 1}
    BY DEF One
  <2>4. QED
    BY <1>1, <2>1, <2>2, <2>3, CountTypes, Sizes
<1>6. flush_timer' = 0 => Got' < W
  BY <1>2, PlaceReading, Sizes DEF One
<1>7. flush_timer' = 5 => ord_q'
  BY <1>2
<1>8. flush_timer' = 4 => fifo_data_valid'
  BY <1>1, <1>2
<1>9. ASSUME flush_timer' \in 1 .. 3
      PROVE  In' = W
  <2>1. flush_timer \in 2 .. 4 /\ Got = W
    BY <1>2, <1>9, PlaceFlushing
  <2>2. One(ord_q) \in {0, 1} /\ One(fifo_data_valid) \in {0, 1}
    BY DEF One
  <2>3. CASE flush_timer = 4
    BY <1>1, <2>1, <2>3, Sizes DEF One
  <2>4. CASE flush_timer # 4
    BY <1>1, <2>1, <2>2, <2>4, Sizes
  <2>5. QED
    BY <2>3, <2>4
<1>10. flush_timer' # 1 => Held'
  BY HeldNext
<1>11. Delayed' /\ Counted'
  BY DelayedNext, CountedReading, CountedFlushing
<1>12. In' >= 0
  OBVIOUS
<1>13. QED
  BY <1>3, <1>4, <1>5, <1>6, <1>7, <1>8, <1>9, <1>10, <1>11, <1>12 DEF InStep

LEMMA RestsNext ==
  ASSUME CountsFit, TypeOK, CountInv, PipeInv, Tick, ~frame_active'
  PROVE  AtRest'
<1>1. shift_reg_sel' = <<fifo_shift_count = 1, shift_reg_sel[1], shift_reg_sel[2]>>
      /\ ord_q' = fifo_read /\ fifo_data_valid' = ord_q
  BY DEF Tick, DelayControl, Fifo
<1>2. CASE ~frame_active
  <2>1. AtRest /\ ~fifo_read
    BY <1>2 DEF PipeInv, CountInv, AtFrameEnd
  <2>2. ReadsNothing
    BY <1>2, ReadCases
  <2>3. shift_reg_sel' = <<FALSE, FALSE, FALSE>>
    <3>1. (fifo_shift_count = 1) = FALSE /\ shift_reg_sel[1] = FALSE /\ shift_reg_sel[2] = FALSE
      BY <2>1 DEF AtRest
    <3>2. QED
      BY <1>1, <3>1
  <2>4. QED
    BY <1>1, <2>1, <2>2, <2>3 DEF AtRest, ReadsNothing
<1>3. CASE frame_active
  <2>1. ~reset
    BY <1>3 DEF CountInv
  <2>2. flush_timer = 1
    <3>1. flush_timer # 0
      BY <1>3, <2>1, ReadingNext
    <3>2. flush_timer > 0
      BY <3>1, CountTypes
    <3>3. QED
      BY <1>3, <2>1, <3>2, FlushingNext
  <2>3. InStep
    BY <1>3 DEF PipeInv
  <2>4. ~fifo_read /\ Got = W
    BY <1>3, <2>2, PlaceFlushing
  <2>5. In = W /\ Delayed /\ Counted
    BY <2>2, <2>3 DEF InStep
  <2>6. Due = W /\ ~ord_q /\ Asked = W
    <3>1. Asked = Got + One(fifo_read) /\ Due = Got - One(ord_q) /\ In = Due - One(fifo_data_valid)
      BY DEF Asked, Due, In
    <3>2. One(ord_q) \in {0, 1} /\ One(fifo_data_valid) \in {0, 1}
      BY DEF One
    <3>3. One(fifo_read) = 0
      BY <2>4 DEF One
    <3>4. Due = W /\ Asked = W /\ One(ord_q) = 0
      BY <2>4, <2>5, <3>1, <3>2, <3>3, Sizes
    <3>5. QED
      BY <3>4, CountTypes DEF One
  <2>7. fifo_shift_count = 0
    BY <2>5, <2>6, LastPixel DEF Counted
  <2>8. ~shift_reg_sel[1] /\ ~shift_reg_sel[2]
    <3>1. W % 3 # 1
      BY LastPixel
    <3>2. shift_reg_sel[1] = (W % 3 = 1) /\ shift_reg_sel[2] = (W % 3 = 1)
      BY <2>4, <2>5, <2>6 DEF Delayed
    <3>3. QED
      BY <3>1, <3>2
  <2>9. shift_reg_sel' = <<FALSE, FALSE, FALSE>>
    <3>1. (W % 3 = 1) = FALSE /\ (fifo_shift_count = 1) = FALSE
      BY <2>7, LastPixel
    <3>2. shift_reg_sel[1] = (W % 3 = 1) /\ shift_reg_sel[2] = (W % 3 = 1)
      BY <2>4, <2>5, <2>6 DEF Delayed
    <3>3. QED
      BY <1>1, <3>1, <3>2
  <2>10. ReadsFlush
    BY <1>3, <2>1, <2>2, ReadCases
  <2>11. fifo_shift_count' = 0
    BY <2>10 DEF ReadsFlush
  <2>12. QED
    BY <1>1, <2>4, <2>6, <2>9, <2>11 DEF AtRest
<1>4. QED
  BY <1>2, <1>3, CountTypes

LEMMA PipeNext ==
  ASSUME CountsFit, TypeOK, CountInv, WireTypes, PipeInv, Tick
  PROVE  PipeInv'
BY StartsInStep, StaysInStep, RestsNext DEF PipeInv

-----------------------------------------------------------------------------
(* The drivers                                                             *)

LEMMA ShiftData ==
  ASSUME WireTypes
  PROVE  /\ shift_data \in Seq(Nat)
         /\ shift_data = IF shift_reg_sel[3]
                         THEN <<fifo_shift_reg[2], fifo_shift_reg[3], fifo_shift_reg[4]>>
                         ELSE <<fifo_shift_reg[1], fifo_shift_reg[2], fifo_shift_reg[3]>>
<1>1. fifo_shift_reg \in Seq(Nat) /\ Len(fifo_shift_reg) = 6
  BY DEF WireTypes
<1>2. CASE shift_reg_sel[3]
  <2>1. PICK o, r : o \in {0, 1} /\ o = 1 /\ r = SubSeq(fifo_shift_reg, 1 + o, 3 + o)
    OBVIOUS
  <2>2. /\ r \in Seq(Nat)
        /\ r = <<fifo_shift_reg[1 + o], fifo_shift_reg[2 + o], fifo_shift_reg[3 + o]>>
    BY <1>1, <2>1, Cut
  <2>3. r = shift_data
    BY <1>2, <2>1 DEF shift_data
  <2>4. 1 + o = 2 /\ 2 + o = 3 /\ 3 + o = 4
    BY <2>1
  <2>5. r = <<fifo_shift_reg[2], fifo_shift_reg[3], fifo_shift_reg[4]>>
    BY <2>2, <2>4
  <2>6. QED
    BY <1>2, <2>2, <2>3, <2>5
<1>3. CASE ~shift_reg_sel[3]
  <2>1. PICK o, r : o \in {0, 1} /\ o = 0 /\ r = SubSeq(fifo_shift_reg, 1 + o, 3 + o)
    OBVIOUS
  <2>2. /\ r \in Seq(Nat)
        /\ r = <<fifo_shift_reg[1 + o], fifo_shift_reg[2 + o], fifo_shift_reg[3 + o]>>
    BY <1>1, <2>1, Cut
  <2>3. r = shift_data
    BY <1>3, <2>1 DEF shift_data
  <2>4. 1 + o = 1 /\ 2 + o = 2 /\ 3 + o = 3
    BY <2>1
  <2>5. r = <<fifo_shift_reg[1], fifo_shift_reg[2], fifo_shift_reg[3]>>
    BY <2>2, <2>4
  <2>6. QED
    BY <1>3, <2>2, <2>3, <2>5
<1>4. QED
  BY <1>2, <1>3

\* An edge of the clock for the string s, that loads the pixel p or not.
Edge(s, load, p, one) ==
  /\ load <=> pxl_data_valid(s) /\ Ready(s)
  /\ p = pxl_data /\ p \in Seq(Nat)
  /\ ShiftFieldsAre(drivers[s], load, p, drivers'[s])
  /\ PulseFieldsAre(drivers[s], h_blank_q, one, drivers'[s], drivers'[s])
  /\ drivers'[s] \in Drivers(Seq(Nat))
  /\ line'[s] = IF StartsBlank(drivers[s], h_blank_q) THEN <<>>
                ELSE IF StartsBit(drivers[s], h_blank_q)
                     THEN Append(line[s], drivers[s].shift_reg)
                ELSE line[s]

LEMMA EdgeHolds ==
  ASSUME TypeOK, WireTypes, Tick
  PROVE  /\ \A s \in Strings :
              \E load \in BOOLEAN, p \in Seq(Nat), one \in BOOLEAN : Edge(s, load, p, one)
         /\ drivers' \in [Strings -> Drivers(Seq(Nat))]
         /\ line' \in [Strings -> Seq([pixel : Seq(Nat), shifts : 0 .. DATA_WIDTH])]
<1>1. PICK ones \in SUBSET {s \in Strings : StartsBit(drivers[s], h_blank_q)} :
        /\ drivers' = [s \in Strings |->
             DriverStep(drivers[s], pxl_data_valid(s), pxl_data, h_blank_q, s \in ones)]
        /\ line' = [s \in Strings |->
             IF StartsBlank(drivers[s], h_blank_q) THEN <<>>
             ELSE IF StartsBit(drivers[s], h_blank_q)
                  THEN Append(line[s], drivers[s].shift_reg)
             ELSE line[s]]
  BY DEF Tick, StringDrivers
<1>2. PICK p : p = pxl_data
  OBVIOUS
<1>3. p \in Seq(Nat)
  BY <1>2, ShiftData, BlankIs DEF pxl_data
<1>4. ASSUME NEW s \in Strings
      PROVE  \E load \in BOOLEAN, pp \in Seq(Nat), one \in BOOLEAN : Edge(s, load, pp, one)
  <2>1. drivers[s] \in Drivers(Seq(Nat))
    BY DEF WireTypes
  <2>2. PICK one \in BOOLEAN : one = (s \in ones)
    <3>1. (s \in ones) \in BOOLEAN
      OBVIOUS
    <3>2. QED
      BY <3>1
  <2>3. PICK v \in BOOLEAN : v = pxl_data_valid(s)
    <3>1. pxl_data_valid(s) \in BOOLEAN
      <4>1. (s \in shift_data_valid) \in BOOLEAN /\ init_data_valid \in BOOLEAN
        BY CountTypes
      <4>2. QED
        BY <4>1 DEF pxl_data_valid
    <3>2. QED
      BY <3>1
  <2>4. PICK n : n = drivers'[s]
    OBVIOUS
  <2>5. n = DriverStep(drivers[s], v, p, h_blank_q, one)
    BY <1>1, <1>2, <2>2, <2>3, <2>4
  <2>6. PICK load \in BOOLEAN : load = (v /\ string_ready(drivers[s]))
    <3>1. (v /\ string_ready(drivers[s])) \in BOOLEAN
      OBVIOUS
    <3>2. QED
      BY <3>1
  <2>7. h_blank_q \in BOOLEAN
    BY DEF TypeOK
  <2>8. ShiftFieldsAre(drivers[s], load, p, n) /\ PulseFieldsAre(drivers[s], h_blank_q, one, n, n)
        /\ n \in Drivers(Seq(Nat))
    BY <1>3, <2>1, <2>5, <2>6, <2>7, DriverFields
  <2>9. load <=> pxl_data_valid(s) /\ Ready(s)
    BY <2>3, <2>6 DEF Ready
  <2>10. Edge(s, load, p, one)
    BY <1>1, <1>2, <1>3, <2>4, <2>8, <2>9 DEF Edge
  <2>11. QED
    BY <1>3, <2>10
<1>5. drivers' \in [Strings -> Drivers(Seq(Nat))]
  <2>1. \A s \in Strings : drivers'[s] \in Drivers(Seq(Nat))
    BY <1>4 DEF Edge
  <2>2. DOMAIN drivers' = Strings /\ drivers' = [s \in Strings |-> drivers'[s]]
    BY <1>1
  <2>3. QED
    BY <2>1, <2>2
<1>6. line' \in [Strings -> Seq([pixel : Seq(Nat), shifts : 0 .. DATA_WIDTH])]
  <2> DEFINE S == [pixel : Seq(Nat), shifts : 0 .. DATA_WIDTH]
  <2>1. ASSUME NEW s \in Strings
        PROVE  line'[s] \in Seq(S)
    <3>1. line[s] \in Seq(S) /\ drivers[s].shift_reg \in S
      BY DEF WireTypes, Drivers
    <3> HIDE DEF S
    <3>2. Append(line[s], drivers[s].shift_reg) \in Seq(S) /\ <<>> \in Seq(S)
      BY <3>1
    <3>3. QED
      BY <1>1, <3>1, <3>2
  <2>2. DOMAIN line' = Strings /\ line' = [s \in Strings |-> line'[s]]
    BY <1>1
  <2>3. QED
    BY <2>1, <2>2
<1>7. QED
  BY <1>4, <1>5, <1>6

LEMMA WireTypesNext ==
  ASSUME TypeOK, WireTypes, Tick
  PROVE  WireTypes'
<1>1. fifo_shift_reg' \in Seq(Nat) /\ Len(fifo_shift_reg') = 6
  <2>1. \/ fifo_shift_reg' = Blank
        \/ fifo_shift_reg' = SubSeq(fifo_shift_reg, 3, 6) \o <<2 * fifo_data, 2 * fifo_data + 1>>
        \/ fifo_shift_reg' = fifo_shift_reg
    BY ShiftCases DEF BytesOf
  <2>2. fifo_data \in Nat
    BY Sizes DEF TypeOK, Words, W
  <2>3. 2 * fifo_data \in Nat /\ 2 * fifo_data + 1 \in Nat
    BY <2>2
  <2>4. CASE fifo_shift_reg' = SubSeq(fifo_shift_reg, 3, 6) \o <<2 * fifo_data, 2 * fifo_data + 1>>
    <3>1. PICK q \in Seq(Nat) : q = fifo_shift_reg /\ Len(q) = 6
      BY DEF WireTypes
    <3>2. PICK r, a, b : r = fifo_shift_reg' /\ a = 2 * fifo_data /\ b = 2 * fifo_data + 1
      OBVIOUS
    <3>3. r = SubSeq(q, 3, 6) \o <<a, b>>
      BY <2>4, <3>1, <3>2
    <3>4. r \in Seq(Nat) /\ Len(r) = 6
      <4>1. a \in Nat /\ b \in Nat
        BY <2>3, <3>2
      <4>2. r \in Seq(Nat)
        BY <3>1, <3>3, <4>1, ShiftTwo
      <4>3. Len(r) = 6
        BY <3>1, <3>3, <4>1, ShiftTwo
      <4>4. QED
        BY <4>2, <4>3
    <3>5. QED
      BY <3>2, <3>4
  <2>5. CASE fifo_shift_reg' = Blank
    BY <2>5, BlankIs
  <2>6. CASE fifo_shift_reg' = fifo_shift_reg
    BY <2>6 DEF WireTypes
  <2>7. QED
    BY <2>1, <2>4, <2>5, <2>6
<1>2. QED
  BY <1>1, EdgeHolds DEF WireTypes

\* What an edge without a blanking pulse does to the string s.
Moves(s, load, p) ==
  /\ load <=> pxl_data_valid(s) /\ T(s) = 0
  /\ load => drivers[s].shift_ready
  /\ p = pxl_data
  /\ T(s) \in Nat
  /\ T(s)' = IF load THEN PixelTicks ELSE IF T(s) = 0 THEN 0 ELSE T(s) - 1
  /\ Advances(drivers[s], load, p, drivers'[s])
  /\ DriverSound(drivers'[s])
  /\ line'[s] = IF StartsNext(drivers[s]) THEN Append(line[s], drivers[s].shift_reg)
                ELSE line[s]

LEMMA StringMoves ==
  ASSUME SamePulses, TypeOK, WireTypes, Tick, ~h_blank_q, NEW s \in Strings,
         DriverSound(drivers[s]), Busy(drivers[s])
  PROVE  \E load \in BOOLEAN, p \in Seq(Nat) : Moves(s, load, p)
<1>1. PICK load \in BOOLEAN, p \in Seq(Nat), one \in BOOLEAN : Edge(s, load, p, one)
  BY EdgeHolds
<1>2. PICK d \in Drivers(Seq(Nat)) : d = drivers[s]
  BY DEF WireTypes
<1>3. PICK n \in Drivers(Seq(Nat)) : n = drivers'[s]
  BY <1>1 DEF Edge
<1>4. PICK h \in BOOLEAN : h = FALSE
  OBVIOUS
<1>5. h_blank_q = h
  BY <1>4 DEF TypeOK
<1>6. ShiftFieldsAre(d, load, p, n) /\ PulseFieldsAre(d, h, one, n, n)
  BY <1>1, <1>2, <1>3, <1>5 DEF Edge
<1>7. DriverSound(d) /\ Busy(d) /\ (load => string_ready(d)) /\ ~h
  BY <1>1, <1>2, <1>4 DEF Edge, Ready
<1>8. DriverSound(n)
  BY <1>6, <1>7, DriverStaysSound
<1>9. PulseFieldsAre(d, FALSE, one, n, n)
  BY <1>4, <1>6
<1>10. Advances(d, load, p, n)
  BY <1>6, <1>7, <1>9, DriverAdvances
<1>11. T(s) = ToReady(d) /\ T(s)' = ToReady(n)
  BY <1>2, <1>3 DEF T
<1>12. T(s) \in Nat /\ (T(s) = 0 <=> Ready(s))
  BY <1>2, <1>7, <1>11, ReadyIsZero DEF Ready
<1>13. load <=> pxl_data_valid(s) /\ T(s) = 0
  BY <1>1, <1>12 DEF Edge
<1>14. T(s)' = IF load THEN PixelTicks ELSE IF T(s) = 0 THEN 0 ELSE T(s) - 1
  BY <1>10, <1>11 DEF Advances
<1>15. line'[s] = IF StartsNext(d) THEN Append(line[s], d.shift_reg) ELSE line[s]
  BY <1>1, <1>2, <1>4, <1>5 DEF Edge, StartsBlank, StartsBit, StartsNext
<1>16. p = pxl_data
  BY <1>1 DEF Edge
<1>17. load => drivers[s].shift_ready
  BY <1>2, <1>7 DEF string_ready
<1>18. QED
  BY <1>2, <1>3, <1>8, <1>10, <1>12, <1>13, <1>14, <1>15, <1>16, <1>17 DEF Moves

\* And one with a blanking pulse, when the string is ready for it.
Blanks(s) ==
  /\ T(s)' = kHBlankCount + 1
  /\ DriverSound(drivers'[s]) /\ Busy(drivers'[s])
  /\ drivers'[s].shift_ready /\ BitsSent(drivers'[s]) = DATA_WIDTH
  /\ line'[s] = <<>>

LEMMA StringBlanks ==
  ASSUME TypeOK, WireTypes, Tick, h_blank_q, NEW s \in Strings,
         DriverSound(drivers[s]), Ready(s), ~pxl_data_valid(s)
  PROVE  Blanks(s)
<1>1. PICK load \in BOOLEAN, p \in Seq(Nat), one \in BOOLEAN : Edge(s, load, p, one)
  BY EdgeHolds
<1>2. PICK d \in Drivers(Seq(Nat)) : d = drivers[s]
  BY DEF WireTypes
<1>3. PICK n \in Drivers(Seq(Nat)) : n = drivers'[s]
  BY <1>1 DEF Edge
<1>4. PICK h \in BOOLEAN : h = TRUE
  OBVIOUS
<1>5. h_blank_q = h
  BY <1>4 DEF TypeOK
<1>6. ShiftFieldsAre(d, load, p, n) /\ PulseFieldsAre(d, h, one, n, n)
  BY <1>1, <1>2, <1>3, <1>5 DEF Edge
<1>7. DriverSound(d) /\ string_ready(d) /\ load = FALSE
  BY <1>1, <1>2 DEF Edge, Ready
<1>8. DriverSound(n)
  BY <1>6, <1>7, DriverStaysSound DEF string_ready
<1>9. PulseFieldsAre(d, TRUE, one, n, n) /\ ShiftFieldsAre(d, FALSE, p, n)
  BY <1>4, <1>6, <1>7
<1>10. /\ n.shift_ready /\ Busy(n) /\ ToReady(n) = kHBlankCount + 1
       /\ BitsSent(n) = DATA_WIDTH /\ StartsBlank(d, TRUE)
  BY <1>7, <1>9, DriverBlanks
<1>11. StartsBlank(d, h)
  BY <1>4, <1>10
<1>12. line'[s] = <<>>
  BY <1>1, <1>2, <1>5, <1>11 DEF Edge
<1>13. QED
  BY <1>3, <1>8, <1>10, <1>12 DEF Blanks, T

-----------------------------------------------------------------------------
(* The bits that a string has been sent                                    *)

LEMMA BitsSentIn ==
  ASSUME NEW d \in Drivers(Seq(Nat)), DriverSound(d), Busy(d)
  PROVE  /\ BitsSent(d) \in Nat
         /\ StartsNext(d) /\ ~d.shift_ready => d.shift_reg.shifts \in 0 .. DATA_WIDTH - 1
<1>1. /\ d.shift_reg.shifts \in 0 .. DATA_WIDTH /\ d.bit_count \in 0 .. DATA_WIDTH - 1
      /\ d.shift_start \in BOOLEAN /\ d.shift_ready \in BOOLEAN
      /\ DATA_WIDTH \in Nat
  BY WidthAssumption DEF Drivers, WidthAssumption
<1>2. BitsSent(d) \in Nat
  BY <1>1 DEF BitsSent
<1>3. StartsNext(d) /\ ~d.shift_ready => d.bit_count + d.shift_reg.shifts = DATA_WIDTH - 1
  BY <1>1 DEF StartsNext, DriverSound
<1>4. QED
  BY <1>1, <1>2, <1>3

LEMMA OnWireNext ==
  ASSUME NEW d \in Drivers(Seq(Nat)), NEW e \in Drivers(Seq(Nat)),
         NEW S, NEW bits \in Seq(S), d.shift_reg \in S,
         NEW f, NEW s, NEW n \in Nat, NEW load \in BOOLEAN, NEW p, NEW more,
         DriverSound(d), Busy(d), OnWire(d, bits, f, s, n),
         load => d.shift_ready /\ p = PixelFor(f, s, n),
         Advances(d, load, p, e),
         more = IF StartsNext(d) THEN Append(bits, d.shift_reg) ELSE bits
  PROVE  OnWire(e, more, f, s, n + One(load))
<1>1. DATA_WIDTH \in Nat \ {0}
  BY WidthAssumption DEF WidthAssumption
<1>2. BitsSent(d) \in Nat
  BY BitsSentIn
<1>3. /\ Len(bits) = (n - 1) * DATA_WIDTH + BitsSent(d)
      /\ ~d.shift_ready => n >= 1 /\ d.shift_reg.pixel = PixelFor(f, s, n - 1)
      /\ \A j \in 1 .. Len(bits) :
           bits[j] = Shifted(PixelFor(f, s, (j - 1) \div DATA_WIDTH), (j - 1) % DATA_WIDTH)
  BY DEF OnWire
<1>4. CASE load
  <2>1. BitsSent(d) = DATA_WIDTH /\ BitsSent(e) = 0 /\ more = bits
    BY <1>4 DEF BitsSent, Advances
  <2>2. (n - 1) * DATA_WIDTH + DATA_WIDTH = n * DATA_WIDTH + 0 /\ (n + 1) - 1 = n
    BY <1>1, SMT
  <2>3. e.shift_reg.pixel = PixelFor(f, s, n)
    BY <1>4 DEF Advances
  <2>4. n + One(load) = n + 1
    BY <1>4 DEF One
  <2>5. OnWire(e, more, f, s, n + 1)
    BY <1>3, <2>1, <2>2, <2>3 DEF OnWire
  <2>6. QED
    BY <2>4, <2>5
<1>5. CASE ~load
  <2>1. n + One(load) = n
    BY <1>5 DEF One
  <2>2. ~e.shift_ready => n >= 1 /\ e.shift_reg.pixel = PixelFor(f, s, n - 1)
    BY <1>3, <1>5 DEF Advances
  <2>3. CASE ~StartsNext(d)
    <3>1. BitsSent(e) = BitsSent(d) /\ more = bits
      BY <1>2, <1>5, <2>3 DEF Advances
    <3>2. OnWire(e, more, f, s, n)
      BY <1>3, <2>2, <3>1 DEF OnWire
    <3>3. QED
      BY <2>1, <3>2
  <2>4. CASE StartsNext(d)
    <3>1. /\ BitsSent(e) = BitsSent(d) + 1 /\ ~d.shift_ready
          /\ d.shift_reg.shifts = BitsSent(d)
          /\ d.shift_reg.shifts \in 0 .. DATA_WIDTH - 1
      BY <1>5, <2>4, BitsSentIn DEF Advances
    <3>2. more = Append(bits, d.shift_reg)
      BY <2>4
    <3>3. /\ Len(more) = Len(bits) + 1 /\ more[Len(bits) + 1] = d.shift_reg
          /\ \A j \in 1 .. Len(bits) : more[j] = bits[j]
          /\ Len(bits) \in Nat
      BY <3>2, AppendProperties
    <3>4. n >= 1 /\ d.shift_reg.pixel = PixelFor(f, s, n - 1)
      BY <1>3, <3>1
    <3> DEFINE k == d.shift_reg.shifts
    <3>5. d.shift_reg = Shifted(PixelFor(f, s, n - 1), k)
      BY <1>1, <3>1, <3>4 DEF Drivers, Shifted
    <3>6. Len(bits) = DATA_WIDTH * (n - 1) + k /\ n - 1 \in Nat
      BY <1>1, <1>3, <3>1, <3>4, SMT
    <3>7. Len(bits) % DATA_WIDTH = k /\ Len(bits) \div DATA_WIDTH = n - 1
      BY <1>1, <3>1, <3>6, ModUnique
    <3>8. ASSUME NEW j \in 1 .. Len(more)
          PROVE  more[j] = Shifted(PixelFor(f, s, (j - 1) \div DATA_WIDTH), (j - 1) % DATA_WIDTH)
      <4>1. CASE j = Len(bits) + 1
        <5>1. j - 1 = Len(bits)
          BY <3>3, <4>1
        <5>2. QED
          BY <3>3, <3>5, <3>7, <4>1, <5>1
      <4>2. CASE j # Len(bits) + 1
        <5>1. j \in 1 .. Len(bits)
          BY <3>3, <4>2
        <5>2. QED
          BY <1>3, <3>3, <5>1
      <4>3. QED
        BY <4>1, <4>2
    <3>9. Len(more) = (n - 1) * DATA_WIDTH + BitsSent(e)
      <4> DEFINE w == (n - 1) * DATA_WIDTH
      <4>1. w \in Nat
        BY <1>1, <3>6, Times
      <4> HIDE DEF w
      <4>2. Len(bits) = w + BitsSent(d)
        BY <1>3 DEF w
      <4>3. Len(more) = w + BitsSent(e)
        BY <1>2, <3>1, <3>3, <4>1, <4>2
      <4>4. QED
        BY <4>3 DEF w
    <3>10. OnWire(e, more, f, s, n)
      BY <2>2, <3>8, <3>9 DEF OnWire
    <3>11. QED
      BY <2>1, <3>10
  <2>5. QED
    BY <2>3, <2>4
<1>6. QED
  BY <1>4, <1>5

LEMMA OnWireBlanked ==
  ASSUME NEW d, d.shift_ready, NEW f, NEW s
  PROVE  OnWire(d, <<>>, f, s, 0)
<1>1. DATA_WIDTH \in Nat \ {0}
  BY WidthAssumption DEF WidthAssumption
<1>2. BitsSent(d) = DATA_WIDTH
  BY DEF BitsSent
<1>3. (0 - 1) * DATA_WIDTH + DATA_WIDTH = 0
  BY <1>1, SMT
<1>4. QED
  BY <1>2, <1>3 DEF OnWire

\* A string that moves has one pixel more, or as many as before.
LEMMA SendsNext ==
  ASSUME WireTypes, NEW s \in Strings, NEW f, NEW n \in Nat, NEW load \in BOOLEAN, NEW p,
         DriverSound(drivers[s]), Busy(drivers[s]), Moves(s, load, p),
         drivers'[s] \in Drivers(Seq(Nat)),
         Sends(f, s, n), load => p = PixelFor(f, s, n)
  PROVE  OnWire(drivers'[s], line'[s], f, s, n + One(load))
<1> DEFINE S == [pixel : Seq(Nat), shifts : 0 .. DATA_WIDTH]
<1>1. PICK d \in Drivers(Seq(Nat)) : d = drivers[s]
  BY DEF WireTypes
<1>2. PICK e \in Drivers(Seq(Nat)) : e = drivers'[s]
  OBVIOUS
<1>3. PICK bits \in Seq(S) : bits = line[s]
  BY DEF WireTypes
<1>4. PICK more : more = line'[s]
  OBVIOUS
<1>5. d.shift_reg \in S
  BY DEF Drivers
<1> HIDE DEF S
<1>6. /\ more = IF StartsNext(d) THEN Append(bits, d.shift_reg) ELSE bits
      /\ Advances(d, load, p, e)
      /\ load => d.shift_ready
  BY <1>1, <1>2, <1>3, <1>4 DEF Moves
<1>7. OnWire(d, bits, f, s, n) /\ DriverSound(d) /\ Busy(d)
  BY <1>1, <1>3 DEF Sends
<1>8. OnWire(e, more, f, s, n + One(load))
  BY <1>5, <1>6, <1>7, OnWireNext
<1>9. QED
  BY <1>2, <1>4, <1>8

-----------------------------------------------------------------------------
(* One pixel after another                                                 *)

\* What the proofs about the order of the pixels assume: three strings or more (two do not
\* fit the counter), pixels of two bits or more and a clock at which ones and zeros take
\* the same time, as with 23 strings, 24 bits and 50 ns.  QuietStart is a condition on the
\* host without which the property is false.
Design == CountsFit /\ QuietStart /\ N_STRINGS >= 3 /\ DATA_WIDTH >= 2 /\ SamePulses

LEMMA TurnIn ==
  ASSUME NEW t \in Nat
  PROVE  /\ t % N_STRINGS \in Strings /\ t % N_STRINGS \in Nat
         /\ (t + 1) % N_STRINGS = IF t % N_STRINGS = N_STRINGS - 1 THEN 0
                                  ELSE (t % N_STRINGS) + 1
         /\ (t + 1) % N_STRINGS # t % N_STRINGS
<1>1. N_STRINGS \in Nat \ {0} /\ N_STRINGS >= 2
  BY Sizes
<1>2. PICK r : r = t % N_STRINGS
  OBVIOUS
<1>3. r \in 0 .. N_STRINGS - 1
  BY <1>1, <1>2, ModIn
<1>4. PICK q : q = (t + 1) % N_STRINGS
  OBVIOUS
<1>5. q = IF r = N_STRINGS - 1 THEN 0 ELSE r + 1
  BY <1>1, <1>2, <1>4, ModNext
<1>6. r \in Nat /\ r \in Strings /\ q # r
  BY <1>1, <1>3, <1>5 DEF Strings
<1>7. QED
  BY <1>2, <1>4, <1>5, <1>6

\* In a frame, while no blanking pulse starts.
Stepping ==
  \A s \in Strings :
    /\ T(s) \in Nat /\ (Ready(s) <=> T(s) = 0)
    /\ T(s)' = IF s \in shift_data_valid /\ T(s) = 0 THEN PixelTicks
               ELSE IF T(s) = 0 THEN 0 ELSE T(s) - 1

LEMMA Steps ==
  ASSUME Design, TypeOK, WireTypes, OfferInv, Tick, ~init_active, ~h_blank_q
  PROVE  Stepping
<1> SUFFICES ASSUME NEW s \in Strings
             PROVE  /\ T(s) \in Nat /\ (Ready(s) <=> T(s) = 0)
                    /\ T(s)' = IF s \in shift_data_valid /\ T(s) = 0 THEN PixelTicks
                               ELSE IF T(s) = 0 THEN 0 ELSE T(s) - 1
  BY DEF Stepping
<1>1. DriverSound(drivers[s]) /\ Busy(drivers[s]) /\ SamePulses
  BY DEF OfferInv, Design
<1>2. PICK load \in BOOLEAN, p \in Seq(Nat) : Moves(s, load, p)
  BY <1>1, StringMoves
<1>3. PICK d \in Drivers(Seq(Nat)) : d = drivers[s]
  BY DEF WireTypes
<1>4. Ready(s) <=> T(s) = 0
  BY <1>1, <1>3, ReadyIsZero DEF T, Ready
<1>5. load <=> s \in shift_data_valid /\ T(s) = 0
  BY <1>2 DEF Moves, pxl_data_valid
<1>6. QED
  BY <1>2, <1>4, <1>5 DEF Moves

\* What is offered to the strings after an edge of a frame.
LEMMA OfferingNext ==
  ASSUME Design, TypeOK, CountInv, WireTypes, PipeInv, OfferInv, Tick, Stepping,
         Dealing, frame_active', flush_timer # 3
  PROVE  /\ Turn \in Strings /\ Taken \in Nat
         /\ Offering' <=> IF fifo_data_valid THEN Completes(In) ELSE Offering /\ T(Turn) # 0
         /\ Offering' => shift_data_valid' = {Turn'}
         /\ Taken' = Taken + One(Offering /\ T(Turn) = 0)
<1> USE StagesNext
<1>1. frame_active /\ Offered /\ InStep /\ Delayed
  BY DEF Dealing, OfferInv, PipeInv, InStep
<1>2. ~reset /\ CountsFit /\ flush_timer # 1 /\ flush_timer # 2 /\ ~flush_shift_reg
  BY <1>1 DEF CountInv, Design, Dealing, InStep
<1>3. In' = Due /\ In \in Nat /\ Due \in Nat /\ In = Due - One(fifo_data_valid)
  BY <1>1, <1>2
<1>4. completes[2] = Completes(In) /\ destination[2] = PixelAt(Due) % N_STRINGS
  BY <1>1 DEF Delayed
<1>5. PixelAt(In) \in Nat /\ PixelAt(In + 1) \in Nat /\ PixelAt(In + 2) \in Nat
  BY <1>3, PixelNext
<1>6. Taken \in Nat /\ Turn \in Strings
  BY <1>5, TurnIn DEF Taken, Turn
<1>7. CASE fifo_data_valid
  <2>1. ~Offering
    BY <1>1, <1>7 DEF Offered
  <2>2. shift_data_valid = {} /\ Turn = destination[2] /\ Due = In + 1
    BY <1>3, <1>4, <1>7, <2>1 DEF Offering, Turn, Taken, One
  <2>3. shift_data_valid' = IF Completes(In) THEN {Turn} ELSE {}
    BY <1>1, <1>2, <1>4, <1>7, <2>2, ShiftCases
  <2>4. Offering' <=> Completes(In)
    BY <2>3 DEF Offering
  <2>5. Taken' = Taken
    <3>1. CASE Completes(In)
      BY <1>3, <2>1, <2>2, <2>4, <3>1 DEF Taken
    <3>2. CASE ~Completes(In)
      <4>1. PixelAt(In + 2) = PixelAt(In + 1) + 0
        <5>1. PICK r \in Nat : r = In + 1
          BY <1>3
        <5>2. PixelAt(r + 1) = PixelAt(r) + One(r >= 1 /\ Completes(r - 1)) /\ r - 1 = In
              /\ r + 1 = In + 2
          BY <1>3, <5>1, PixelNext
        <5>3. QED
          BY <3>2, <5>1, <5>2 DEF One
      <4>2. In' + 1 = In + 2
        BY <1>3, <2>2
      <4>3. QED
        BY <1>5, <2>1, <2>4, <3>2, <4>1, <4>2 DEF Taken
    <3>3. QED
      BY <3>1, <3>2
  <2>6. One(Offering /\ T(Turn) = 0) = 0
    BY <2>1 DEF One
  <2>7. Turn' = Turn
    BY <2>5 DEF Turn
  <2>8. QED
    BY <1>6, <1>7, <2>3, <2>4, <2>5, <2>6, <2>7
<1>8. CASE ~fifo_data_valid
  <2>1. In' = In /\ destination[2] = PixelAt(In) % N_STRINGS
    BY <1>3, <1>4, <1>8 DEF One
  <2>2. shift_data_valid' = IF Ready(destination[2]) THEN {} ELSE shift_data_valid
    BY <1>1, <1>2, <1>8, ShiftCases
  <2>3. CASE Offering
    <3>1. Taken = PixelAt(In) /\ Turn = destination[2] /\ shift_data_valid = {Turn}
          /\ In >= 1 /\ Completes(In - 1)
      BY <1>1, <2>1, <2>3 DEF Offered, Taken, Turn
    <3>2. Ready(Turn) <=> T(Turn) = 0
      BY <1>6 DEF Stepping
    <3>3. Offering' <=> T(Turn) # 0
      BY <2>2, <3>1, <3>2 DEF Offering
    <3>4. Taken' = IF T(Turn) = 0 THEN PixelAt(In + 1) ELSE PixelAt(In)
      BY <2>1, <3>3 DEF Taken
    <3>5. PixelAt(In + 1) = PixelAt(In) + 1
      BY <1>3, <3>1, PixelNext DEF One
    <3>6. Taken' = Taken + One(Offering /\ T(Turn) = 0)
      BY <1>5, <2>3, <3>1, <3>4, <3>5 DEF One
    <3>7. T(Turn) # 0 => Turn' = Turn /\ shift_data_valid' = {Turn}
      BY <2>2, <3>1, <3>2, <3>4 DEF Turn
    <3>8. QED
      BY <1>6, <1>8, <2>3, <3>3, <3>6, <3>7
  <2>4. CASE ~Offering
    <3>1. ~Offering'
      BY <2>2, <2>4 DEF Offering
    <3>2. Taken' = Taken
      BY <2>1, <2>4, <3>1 DEF Taken
    <3>3. One(Offering /\ T(Turn) = 0) = 0
      BY <2>4 DEF One
    <3>4. QED
      BY <1>6, <1>8, <2>4, <3>1, <3>2, <3>3
  <2>5. QED
    BY <2>3, <2>4
<1>9. QED
  BY <1>7, <1>8, CountTypes

\* A word is asked for only when the pixel before it finds its string ready.
LEMMA AskedInTime ==
  ASSUME Design, TypeOK, CountInv, WireTypes, PipeInv, OfferInv, Tick, Stepping,
         Dealing, frame_active', fifo_read'
  PROVE  /\ ~fifo_read /\ flush_timer = 0 /\ Asked \in Nat
         /\ Asked > 0 /\ Completes(Asked - 1) => T(PixelAt(Asked) % N_STRINGS) = 0
<1> USE StagesNext
<1>1. frame_active /\ InStep /\ Counted
  BY DEF Dealing, PipeInv, InStep
<1>2. ~reset /\ CountsFit
  BY <1>1 DEF CountInv, Design
<1>3. flush_timer = 0
  BY <1>1, <1>2, ReadCases, CountTypes DEF ReadsFlush
<1>4. ReadsWords
  BY <1>1, <1>2, <1>3, ReadCases
<1>5. Reads
  BY <1>4 DEF ReadsWords
<1>6. ~fifo_read /\ (must_wait_for_ready => Ready(active_string))
  BY <1>5 DEF Reads, MayRead
<1>7. Asked \in Nat
  BY <1>1, <1>2
<1>8. PixelAt(Asked) % N_STRINGS \in Strings
  BY <1>7, PixelNext, TurnIn
<1>9. QED
  BY <1>1, <1>3, <1>6, <1>7, <1>8 DEF Counted, Stepping

LEMMA OfferedNext ==
  ASSUME Design, TypeOK, CountInv, WireTypes, PipeInv, OfferInv, Tick, Stepping,
         Dealing, Dealing', frame_active, frame_active'
  PROVE  Offered'
<1> USE StagesNext
<1>1. Offered /\ InStep
  BY DEF OfferInv, PipeInv
<1>2. CountsFit /\ flush_timer \notin {1, 2} /\ flush_timer' \notin {1, 2}
  BY DEF Design, Dealing
<1>3. flush_timer # 3 /\ (flush_timer' = 3 => flush_timer = 4)
  BY <1>2, PlaceStays, CountTypes
<1>4. /\ Turn \in Strings /\ Taken \in Nat
      /\ Offering' <=> IF fifo_data_valid THEN Completes(In) ELSE Offering /\ T(Turn) # 0
      /\ Offering' => shift_data_valid' = {Turn'}
      /\ Taken' = Taken + One(Offering /\ T(Turn) = 0)
  BY <1>3, OfferingNext
<1>5. /\ In' = Due /\ In \in Nat /\ Due \in Nat /\ In = Due - One(fifo_data_valid)
      /\ Asked = Got + One(fifo_read) /\ Due = Got - One(ord_q) /\ Got \in Nat
      /\ ord_q' = fifo_read /\ fifo_data_valid' = ord_q
  BY <1>2
<1>6. ~(fifo_read /\ ord_q) /\ ~(ord_q /\ fifo_data_valid)
  BY <1>1 DEF InStep
<1>7. \A s \in Strings : s \notin shift_data_valid /\ T(s) = 0 => T(s)' = 0
  BY DEF Stepping
<1>8. ASSUME Offering'
      PROVE  /\ shift_data_valid' = {Turn'} /\ ~fifo_data_valid'
             /\ In' >= 1 /\ Completes(In' - 1)
             /\ fifo_read' \/ ord_q' => T(Turn)' = 0
  <2>1. Taken' = Taken /\ Turn' = Turn
    <3>1. ~(Offering /\ T(Turn) = 0)
      BY <1>1, <1>4, <1>8 DEF Offered
    <3>2. One(Offering /\ T(Turn) = 0) = 0
      BY <3>1 DEF One
    <3>3. QED
      BY <1>4, <3>2 DEF Turn
  <2>2. CASE fifo_data_valid
    <3>1. Completes(In) /\ In' = In + 1 /\ ~fifo_data_valid' /\ ~Offering
      BY <1>1, <1>4, <1>5, <1>6, <1>8, <2>2 DEF One, Offered
    <3>2. Taken = PixelAt(In + 1) /\ Turn \notin shift_data_valid
      BY <3>1 DEF Taken, Offering
    <3>3. fifo_read => T(Turn) = 0
      BY <1>1, <2>2, <3>1 DEF Offered
    <3>4. fifo_read' => T(Turn) = 0
      <4>1. SUFFICES ASSUME fifo_read'
                     PROVE  T(Turn) = 0
        OBVIOUS
      <4>2. ~fifo_read /\ (Asked > 0 /\ Completes(Asked - 1) => T(PixelAt(Asked) % N_STRINGS) = 0)
        BY <4>1, AskedInTime
      <4>3. Asked = In + 1
        BY <1>5, <1>6, <2>2, <4>2 DEF One
      <4>4. Asked > 0 /\ Asked - 1 = In
        BY <1>5, <4>3
      <4>5. QED
        BY <3>1, <3>2, <4>2, <4>3, <4>4 DEF Turn
    <3>5. fifo_read' \/ ord_q' => T(Turn)' = 0
      BY <1>4, <1>5, <1>7, <2>1, <3>2, <3>3, <3>4 DEF T
    <3>6. QED
      BY <1>4, <1>5, <1>8, <3>1, <3>5
  <2>3. CASE ~fifo_data_valid
    <3>1. Offering /\ T(Turn) # 0 /\ In' = In
      BY <1>4, <1>5, <1>8, <2>3 DEF One
    <3>2. ~fifo_read /\ ~ord_q /\ In >= 1 /\ Completes(In - 1)
      BY <1>1, <3>1 DEF Offered
    <3>3. ~fifo_read'
      <4>1. SUFFICES ASSUME fifo_read'
                     PROVE  FALSE
        OBVIOUS
      <4>2. Asked > 0 /\ Completes(Asked - 1) => T(PixelAt(Asked) % N_STRINGS) = 0
        BY <4>1, AskedInTime
      <4>3. Asked = In
        BY <1>5, <2>3, <3>2 DEF One
      <4>4. QED
        BY <1>5, <3>1, <3>2, <4>2, <4>3 DEF Turn, Taken
    <3>4. QED
      BY <1>4, <1>5, <1>8, <3>1, <3>2, <3>3
  <2>4. QED
    BY <2>2, <2>3, CountTypes
<1>9. ASSUME fifo_data_valid', fifo_read', Completes(In')
      PROVE  T(Turn)' = 0
  <2>1. ord_q /\ ~fifo_data_valid /\ In' = In
    BY <1>5, <1>6, <1>9 DEF One
  <2>2. ~fifo_read /\ (Asked > 0 /\ Completes(Asked - 1) => T(PixelAt(Asked) % N_STRINGS) = 0)
    BY <1>9, AskedInTime
  <2>3. Asked = In + 1 /\ Asked > 0 /\ Asked - 1 = In
    BY <1>5, <2>1, <2>2 DEF One
  <2>4. T(PixelAt(In + 1) % N_STRINGS) = 0
    BY <1>9, <2>1, <2>2, <2>3
  <2>5. PixelAt(In) \in Nat /\ PixelAt(In + 1) \in Nat
    BY <1>5, PixelNext
  <2>6. CASE Offering
    <3>1. T(Turn) = 0 /\ shift_data_valid = {Turn} /\ In >= 1 /\ Completes(In - 1)
      BY <1>1, <2>1, <2>6 DEF Offered
    <3>2. ~Offering'
      BY <1>4, <2>1, <3>1
    <3>3. Turn' = PixelAt(In + 1) % N_STRINGS /\ Turn = PixelAt(In) % N_STRINGS
      BY <2>1, <2>6, <3>2 DEF Turn, Taken
    <3>4. PixelAt(In + 1) = PixelAt(In) + 1
      BY <1>5, <3>1, PixelNext DEF One
    <3>5. Turn' # Turn /\ Turn' \in Strings
      BY <2>5, <3>3, <3>4, TurnIn
    <3>6. QED
      BY <1>7, <2>4, <3>1, <3>3, <3>5 DEF T
  <2>7. CASE ~Offering
    <3>1. ~Offering' /\ shift_data_valid = {}
      BY <1>4, <2>1, <2>7 DEF Offering
    <3>2. Turn' = PixelAt(In + 1) % N_STRINGS
      BY <2>1, <3>1 DEF Turn, Taken
    <3>3. Turn' \in Strings
      BY <2>5, <3>2, TurnIn
    <3>4. QED
      BY <1>7, <2>4, <3>1, <3>2, <3>3 DEF T
  <2>8. QED
    BY <2>6, <2>7
<1>10. ASSUME flush_timer' = 3
       PROVE  Offering'
  <2>1. flush_timer = 4 /\ fifo_data_valid
    BY <1>1, <1>3, <1>10 DEF InStep
  <2>2. In' = W
    <3>1. InStep'
      BY <1>2, StaysInStep
    <3>2. QED
      BY <1>10, <3>1 DEF InStep
  <2>3. In = W - 1
    BY <1>5, <2>1, <2>2, Sizes DEF One
  <2>4. QED
    BY <1>4, <2>1, <2>3, LastPixel
<1>11. QED
  BY <1>8, <1>9, <1>10 DEF Offered

-----------------------------------------------------------------------------
(* How close the strings follow one another                                *)

Less(t, t2, s) == t2[s] = IF t[s] = 0 THEN 0 ELSE t[s] - 1

LEMMA ConvoyWaits ==
  ASSUME NEW t \in [Strings -> Nat], NEW t2 \in [Strings -> Nat], NEW u \in Strings,
         NEW taken, NEW lat \in Nat, NEW lat2 \in Nat, NEW room \in Nat, NEW room2 \in Nat,
         PixelTicks >= 9, \A s \in Strings : Less(t, t2, s),
         ConvoyOf(t, u, taken, lat, room),
         u >= 1 => IF lat = 0 THEN lat2 = 0 /\ t[u] > 0 ELSE lat2 = lat - 1,
         room2 >= 5 \/ room2 >= room - 1 \/ room2 >= t2[u] + 6,
         room2 >= room - 1 \/ room2 >= t2[u] + 6 \/ t[u] = 0
  PROVE  ConvoyOf(t2, u, taken, lat2, room2)
<1>1. N_STRINGS \in Nat /\ PixelTicks \in Nat
  BY Sizes, PulseNumbers
<1>2. u \in Nat /\ u < N_STRINGS
  BY <1>1 DEF Strings
<1>3. \A s \in 0 .. N_STRINGS - 1 : /\ t[s] \in Nat /\ t2[s] \in Nat
                                    /\ t2[s] = IF t[s] = 0 THEN 0 ELSE t[s] - 1
  BY <1>1 DEF Strings, Less
<1>4. ASSUME NEW s \in 1 .. N_STRINGS - 1, s # u
      PROVE  t2[s] <= t2[s - 1] + 6
  <2>1. t[s] <= t[s - 1] + 6
    BY <1>4 DEF ConvoyOf
  <2>2. s \in 0 .. N_STRINGS - 1 /\ s - 1 \in 0 .. N_STRINGS - 1
    BY <1>1
  <2>3. QED
    BY <1>3, <2>1, <2>2
<1>5. ASSUME u >= 1
      PROVE  /\ t2[u - 1] <= PixelTicks /\ PixelTicks - t2[u - 1] + lat2 <= 5
             /\ t2[u] > 0 => t2[u] + (PixelTicks - t2[u - 1]) <= 5
             /\ taken % 2 = 0 => t2[u] <= lat2
  <2>1. /\ t[u - 1] <= PixelTicks /\ PixelTicks - t[u - 1] + lat <= 5
        /\ t[u] > 0 => t[u] + (PixelTicks - t[u - 1]) <= 5
        /\ taken % 2 = 0 => t[u] <= lat
        /\ IF lat = 0 THEN lat2 = 0 /\ t[u] > 0 ELSE lat2 = lat - 1
    BY <1>5 DEF ConvoyOf
  <2>2. u \in 0 .. N_STRINGS - 1 /\ u - 1 \in 0 .. N_STRINGS - 1
    BY <1>1, <1>2, <1>5
  <2>3. t[u] \in Nat /\ t2[u] \in Nat /\ t2[u] = IF t[u] = 0 THEN 0 ELSE t[u] - 1
    BY <1>3, <2>2
  <2>4. /\ t[u - 1] \in Nat /\ t2[u - 1] \in Nat
        /\ t2[u - 1] = IF t[u - 1] = 0 THEN 0 ELSE t[u - 1] - 1
    BY <1>3, <2>2
  <2>5. QED
    BY <1>1, <2>1, <2>3, <2>4
<1>6. ASSUME u + 1 < N_STRINGS
      PROVE  t2[u + 1] <= room2
  <2>1. t[u + 1] <= room
    BY <1>6 DEF ConvoyOf
  <2>2. u \in 0 .. N_STRINGS - 1 /\ u + 1 \in 0 .. N_STRINGS - 1 /\ u + 1 # u
        /\ u + 1 \in 1 .. N_STRINGS - 1 /\ (u + 1) - 1 = u
    BY <1>1, <1>2, <1>6
  <2>3. t[u + 1] <= t[u] + 6
    BY <2>2 DEF ConvoyOf
  <2>4. QED
    BY <1>3, <2>1, <2>2, <2>3
<1>7. QED
  BY <1>4, <1>5, <1>6 DEF ConvoyOf

LEMMA ConvoyLoads ==
  ASSUME NEW t \in [Strings -> Nat], NEW t2 \in [Strings -> Nat], NEW u \in Strings,
         NEW u2 \in Strings, u2 = IF u = N_STRINGS - 1 THEN 0 ELSE u + 1, N_STRINGS >= 3,
         NEW taken, NEW taken2, NEW lat2 \in Nat, NEW room \in Nat, NEW room2 \in Nat,
         t[u] = 0, t2[u] = PixelTicks, PixelTicks >= 9,
         \A s \in Strings : s # u => Less(t, t2, s),
         ConvoyOf(t, u, taken, 0, room),
         u2 >= 1 => lat2 <= 5 /\ room <= 6 /\ (taken2 % 2 = 0 => room - 1 <= lat2),
         (t[u2] = 0 /\ room2 >= 5) \/ room2 >= t2[u2] + 6
  PROVE  ConvoyOf(t2, u2, taken2, lat2, room2)
<1>1. N_STRINGS \in Nat /\ PixelTicks \in Nat
  BY Sizes, PulseNumbers
<1>2. u \in Nat /\ u < N_STRINGS /\ u2 \in Nat /\ u2 < N_STRINGS /\ u2 # u
  BY <1>1 DEF Strings
<1>3. \A s \in 0 .. N_STRINGS - 1 : /\ t[s] \in Nat /\ t2[s] \in Nat
                                    /\ s # u => t2[s] = IF t[s] = 0 THEN 0 ELSE t[s] - 1
  BY <1>1 DEF Strings, Less
<1>4. ASSUME NEW s \in 1 .. N_STRINGS - 1, s # u2
      PROVE  t2[s] <= t2[s - 1] + 6
  <2>1. s \in 0 .. N_STRINGS - 1 /\ s - 1 \in 0 .. N_STRINGS - 1
    BY <1>1
  <2>2. CASE s = u
    <3>1. t[u - 1] <= PixelTicks /\ PixelTicks - t[u - 1] + 0 <= 5
      BY <2>2 DEF ConvoyOf
    <3>2. t[u - 1] \in Nat /\ t2[u - 1] = IF t[u - 1] = 0 THEN 0 ELSE t[u - 1] - 1
      BY <1>2, <1>3, <2>1, <2>2
    <3>3. QED
      BY <1>1, <2>2, <3>1, <3>2
  <2>3. CASE s # u
    <3>1. t[s] <= t[s - 1] + 6
      BY <2>3 DEF ConvoyOf
    <3>2. s - 1 # u
      BY <1>1, <1>2, <1>4
    <3>3. QED
      BY <1>3, <2>1, <2>3, <3>1, <3>2
  <2>4. QED
    BY <2>2, <2>3
<1>5. ASSUME u2 >= 1
      PROVE  /\ t2[u2 - 1] <= PixelTicks /\ PixelTicks - t2[u2 - 1] + lat2 <= 5
             /\ t2[u2] > 0 => t2[u2] + (PixelTicks - t2[u2 - 1]) <= 5
             /\ taken2 % 2 = 0 => t2[u2] <= lat2
  <2>1. u2 = u + 1 /\ u2 - 1 = u /\ u + 1 < N_STRINGS
    BY <1>1, <1>2, <1>5
  <2>2. t[u2] <= room
    BY <2>1 DEF ConvoyOf
  <2>3. u2 \in 0 .. N_STRINGS - 1
    BY <1>1, <1>2
  <2>4. t[u2] \in Nat /\ t2[u2] = IF t[u2] = 0 THEN 0 ELSE t[u2] - 1
    BY <1>2, <1>3, <2>3
  <2>5. QED
    BY <1>1, <1>5, <2>1, <2>2, <2>4
<1>6. ASSUME u2 + 1 < N_STRINGS
      PROVE  t2[u2 + 1] <= room2
  <2>1. /\ u2 \in 0 .. N_STRINGS - 1 /\ u2 + 1 \in 0 .. N_STRINGS - 1 /\ u2 + 1 # u
        /\ u2 + 1 \in 1 .. N_STRINGS - 1 /\ (u2 + 1) - 1 = u2
    BY <1>1, <1>2, <1>6
  <2>2. t[u2 + 1] <= t[u2] + 6
    BY <2>1 DEF ConvoyOf
  <2>3. /\ t[u2 + 1] \in Nat /\ t[u2] \in Nat /\ t2[u2] \in Nat
        /\ t2[u2 + 1] = IF t[u2 + 1] = 0 THEN 0 ELSE t[u2 + 1] - 1
        /\ t2[u2] = IF t[u2] = 0 THEN 0 ELSE t[u2] - 1
    BY <1>2, <1>3, <2>1
  <2>4. QED
    BY <2>2, <2>3
<1>7. QED
  BY <1>4, <1>5, <1>6 DEF ConvoyOf

\* An edge in the middle of a frame at which no blanking pulse starts.
Middle ==
  /\ Design /\ TypeOK /\ CountInv /\ WireTypes /\ PipeInv /\ OfferInv /\ Tick /\ Stepping
  /\ Dealing /\ Dealing' /\ frame_active /\ frame_active'

LEMMA MiddleFacts ==
  ASSUME Middle
  PROVE  /\ Offered /\ InStep /\ Offered'
         /\ flush_timer \in {0, 4, 5} /\ CountsFit
         /\ Turn \in Strings /\ Turn \in Nat /\ Taken \in Nat
         /\ Offering' <=> IF fifo_data_valid THEN Completes(In) ELSE Offering /\ T(Turn) # 0
         /\ Taken' = Taken + One(Offering /\ T(Turn) = 0)
         /\ In' = In + One(fifo_data_valid) /\ In \in Nat
         /\ Asked = In + One(fifo_data_valid) + One(ord_q) + One(fifo_read)
         /\ ord_q' = fifo_read /\ fifo_data_valid' = ord_q
         /\ ~(fifo_read /\ ord_q) /\ ~(ord_q /\ fifo_data_valid)
<1>1. Offered /\ InStep
  BY DEF Middle, OfferInv, PipeInv
<1>2. CountsFit /\ flush_timer \notin {1, 2} /\ flush_timer' \notin {1, 2}
  BY DEF Middle, Design, Dealing
<1>3. flush_timer \in {0, 4, 5}
  BY <1>2, PlaceStays, CountTypes DEF Middle
<1>4. /\ Turn \in Strings /\ Taken \in Nat
      /\ Offering' <=> IF fifo_data_valid THEN Completes(In) ELSE Offering /\ T(Turn) # 0
      /\ Taken' = Taken + One(Offering /\ T(Turn) = 0)
  BY <1>3, OfferingNext DEF Middle
<1>5. /\ In' = Due /\ In \in Nat /\ Due \in Nat /\ In = Due - One(fifo_data_valid)
      /\ Asked = Got + One(fifo_read) /\ Due = Got - One(ord_q) /\ Got \in Nat
      /\ ord_q' = fifo_read /\ fifo_data_valid' = ord_q
  BY <1>2, StagesNext DEF Middle
<1>6. One(fifo_read) \in {0, 1} /\ One(ord_q) \in {0, 1} /\ One(fifo_data_valid) \in {0, 1}
  BY DEF One
<1>7. In' = In + One(fifo_data_valid)
      /\ Asked = In + One(fifo_data_valid) + One(ord_q) + One(fifo_read)
  BY <1>5, <1>6
<1>8. Offered'
  BY OfferedNext DEF Middle
<1>9. ~(fifo_read /\ ord_q) /\ ~(ord_q /\ fifo_data_valid)
  BY <1>1 DEF InStep
<1>10. Turn \in Nat
  BY <1>4, Sizes DEF Strings
<1>11. QED
  BY <1>1, <1>2, <1>3, <1>4, <1>5, <1>7, <1>8, <1>9, <1>10

\* A word is asked for as soon as the pixel before it finds its string ready: there is
\* always one in the FIFO.
LEMMA AskedAtOnce ==
  ASSUME Middle, ~fifo_read, flush_timer = 0,
         Asked > 0 /\ Completes(Asked - 1) => T(PixelAt(Asked) % N_STRINGS) = 0
  PROVE  fifo_read'
<1>1. InStep /\ Counted /\ TypeOK /\ Tick /\ ~reset /\ frame_active
  BY MiddleFacts DEF InStep, Middle, CountInv
<1>2. ReadsWords
  BY <1>1, ReadCases
<1>3. Asked \in Nat
  BY MiddleFacts DEF One
<1>4. PixelAt(Asked) % N_STRINGS \in Strings
  BY <1>3, PixelNext, TurnIn
<1>5. full_count > 0
  <2>1. Got < W /\ full_count >= W - Got /\ Got \in Nat
    BY <1>1, StagesNext, MiddleFacts DEF InStep, Middle
  <2>2. full_count \in Nat
    BY <1>1, CountTypes, CapacityAssumption DEF CapacityAssumption
  <2>3. QED
    BY <2>1, <2>2, Sizes
<1>6. must_wait_for_ready => Ready(active_string)
  BY <1>1, <1>4 DEF Counted, Middle, Stepping
<1>7. Reads = TRUE
  BY <1>5, <1>6 DEF Reads, MayRead
<1>8. QED
  BY <1>2, <1>7 DEF ReadsWords

\* Of the last word of a frame nothing is left out.
LEMMA NotLast ==
  ASSUME Middle, ~Completes(In), ord_q
  PROVE  flush_timer = 0
<1>1. /\ flush_timer \in {0, 4, 5} /\ InStep /\ In \in Nat /\ ~fifo_data_valid
      /\ Asked = In + One(fifo_data_valid) + One(ord_q) + One(fifo_read)
      /\ ~fifo_read
  BY MiddleFacts
<1>2. flush_timer # 4
  BY <1>1 DEF InStep
<1>3. flush_timer # 5
  <2>1. SUFFICES ASSUME flush_timer = 5
                 PROVE  FALSE
    OBVIOUS
  <2>2. Got = W
    BY <2>1, PlaceFlushing DEF Middle
  <2>3. Asked = W
    BY <1>1, <2>2, Sizes DEF Asked, One
  <2>4. In = W - 1
    BY <1>1, <2>3, Sizes DEF One
  <2>5. QED
    BY <2>4, LastPixel
<1>4. QED
  BY <1>1, <1>2, <1>3

LEMMA LatencyWaits ==
  ASSUME Middle, ~(Offering /\ T(Turn) = 0), Taken >= 1, Latency # 6
  PROVE  IF Latency = 0 THEN Latency' = 0 /\ T(Turn) > 0 ELSE Latency' = Latency - 1
<1> USE MiddleFacts
<1>1. /\ fifo_read \in BOOLEAN /\ ord_q \in BOOLEAN /\ fifo_data_valid \in BOOLEAN
  BY CountTypes DEF Middle
<1>2. CASE Offering
  <2>1. T(Turn) # 0 /\ ~fifo_data_valid /\ T(Turn) \in Nat
    BY <1>2 DEF Offered, Middle, Stepping
  <2>2. Offering'
    BY <1>2, <2>1
  <2>3. QED
    BY <1>2, <2>1, <2>2 DEF Latency
<1>3. CASE ~Offering /\ fifo_data_valid /\ Completes(In)
  <2>1. Offering'
    BY <1>3
  <2>2. QED
    BY <1>3, <2>1 DEF Latency
<1>4. CASE ~Offering /\ ~(fifo_data_valid /\ Completes(In)) /\ ord_q /\ Completes(In)
  <2>1. Latency = 2 /\ ~fifo_data_valid
    BY <1>4 DEF Latency
  <2>2. ~Offering' /\ fifo_data_valid' /\ In' = In
    BY <1>4, <2>1 DEF One
  <2>3. Latency' = 1
    BY <1>4, <2>2 DEF Latency
  <2>4. QED
    BY <2>1, <2>3
<1>5. CASE /\ ~Offering /\ ~(fifo_data_valid /\ Completes(In)) /\ ~(ord_q /\ Completes(In))
           /\ fifo_read /\ (fifo_data_valid \/ Completes(In))
  <2>1. Latency = 3 /\ ~ord_q
    BY <1>5 DEF Latency
  <2>2. ~Offering' /\ ~fifo_data_valid' /\ ord_q'
    BY <1>5, <2>1
  <2>3. Completes(In')
    <3>1. CASE fifo_data_valid
      <4>1. ~Completes(In) /\ In' = In + 1
        BY <1>5, <3>1 DEF One
      <4>2. PixelAt(In + 1) >= 1
        BY <1>5 DEF Taken
      <4>3. QED
        BY <4>1, <4>2, NotTwice
    <3>2. CASE ~fifo_data_valid
      BY <1>5, <3>2 DEF One
    <3>3. QED
      BY <1>1, <3>1, <3>2
  <2>4. Latency' = 2
    BY <2>2, <2>3 DEF Latency
  <2>5. QED
    BY <2>1, <2>4
<1>6. CASE ~Offering /\ ord_q /\ ~Completes(In)
  <2>1. ~fifo_data_valid /\ ~fifo_read
    BY <1>6
  <2>2. Latency = 4
    BY <1>6, <2>1 DEF Latency
  <2>3. ~Offering' /\ fifo_data_valid' /\ In' = In /\ ~ord_q'
    BY <1>6, <2>1 DEF One
  <2>4. fifo_read'
    <3>1. flush_timer = 0
      BY <1>6, NotLast
    <3>2. Asked = In + 1
      BY <1>6, <2>1 DEF One
    <3>3. ~Completes(Asked - 1)
      BY <1>6, <3>2
    <3>4. QED
      BY <2>1, <3>1, <3>3, AskedAtOnce
  <2>5. Latency' = 3
    BY <1>6, <2>3, <2>4 DEF Latency
  <2>6. QED
    BY <2>2, <2>5
<1>7. CASE /\ ~Offering /\ ~(fifo_data_valid /\ Completes(In)) /\ ~ord_q
           /\ ~(fifo_read /\ (fifo_data_valid \/ Completes(In)))
  <2>1. fifo_read /\ ~fifo_data_valid /\ ~Completes(In) /\ Latency = 5
    BY <1>7 DEF Latency
  <2>2. ~Offering' /\ ~fifo_data_valid' /\ ord_q' /\ In' = In
    BY <1>7, <2>1 DEF One
  <2>3. ~fifo_read'
    BY <2>1, AskedInTime DEF Middle
  <2>4. Latency' = 4
    BY <2>1, <2>2, <2>3 DEF Latency
  <2>5. QED
    BY <2>1, <2>4
<1>8. QED
  BY <1>1, <1>2, <1>3, <1>4, <1>5, <1>6, <1>7

LEMMA LatencyLoads ==
  ASSUME Middle, Offering, T(Turn) = 0
  PROVE  /\ Latency' \in 1 .. 5
         /\ Taken' % 2 = 0 => Latency' = IF ord_q THEN 3 ELSE IF fifo_read THEN 4 ELSE 5
<1> USE MiddleFacts
<1>1. ~fifo_data_valid /\ In >= 1 /\ Completes(In - 1)
  BY DEF Offered
<1>2. ~Offering' /\ In' = In
  BY <1>1 DEF One
<1>3. Taken' = PixelAt(In + 1)
  BY <1>2 DEF Taken
<1>4. Taken' % 2 = 0 => ~Completes(In)
  BY <1>1, <1>3, PixelBytes
<1>5. CASE ord_q
  <2>1. fifo_data_valid' /\ ~ord_q' /\ ~fifo_read
    BY <1>5
  <2>2. CASE Completes(In)
    <3>1. Latency' = 1
      BY <1>2, <2>1, <2>2 DEF Latency
    <3>2. QED
      BY <1>4, <2>2, <3>1
  <2>3. CASE ~Completes(In)
    <3>1. flush_timer = 0
      BY <1>5, <2>3, NotLast
    <3>2. Asked = In + 1
      BY <1>1, <1>5, <2>1 DEF One
    <3>3. fifo_read'
      BY <2>1, <2>3, <3>1, <3>2, AskedAtOnce
    <3>4. Latency' = 3
      BY <1>2, <2>1, <2>3, <3>3 DEF Latency
    <3>5. QED
      BY <1>5, <3>4
  <2>4. QED
    BY <2>2, <2>3
<1>6. CASE ~ord_q /\ fifo_read
  <2>1. ~fifo_data_valid' /\ ord_q'
    BY <1>6
  <2>2. ~fifo_read'
    BY <1>6, AskedInTime DEF Middle
  <2>3. Latency' = IF Completes(In) THEN 2 ELSE 4
    BY <1>2, <2>1, <2>2 DEF Latency
  <2>4. QED
    BY <1>4, <1>6, <2>3
<1>7. CASE ~ord_q /\ ~fifo_read
  <2>1. ~fifo_data_valid' /\ ~ord_q'
    BY <1>7, CountTypes DEF Middle
  <2>2. Asked = In
    BY <1>1, <1>7 DEF One
  <2>3. flush_timer = 0
    BY <1>1, <1>7 DEF InStep
  <2>4. Turn = PixelAt(Asked) % N_STRINGS
    BY <2>2 DEF Turn, Taken
  <2>5. fifo_read'
    BY <1>7, <2>3, <2>4, AskedAtOnce
  <2>6. Latency' = IF Completes(In) THEN 3 ELSE 5
    BY <1>2, <2>1, <2>5 DEF Latency
  <2>7. QED
    BY <1>4, <1>7, <2>6
<1>8. QED
  BY <1>5, <1>6, <1>7, CountTypes DEF Middle

\* When a word is asked for that must wait for a pixel, that pixel's string is ready.
LEMMA RoomWaits ==
  ASSUME Middle, ~(Offering /\ T(Turn) = 0), Room \in Nat, Room' \in Nat,
         Room' # T(Turn)' + 6
  PROVE  /\ Room' >= 5 \/ Room' >= Room - 1
         /\ Room' >= Room - 1 \/ T(Turn) = 0
<1> USE MiddleFacts
<1>1. /\ fifo_read \in BOOLEAN /\ ord_q \in BOOLEAN /\ fifo_data_valid \in BOOLEAN
  BY CountTypes DEF Middle
<1>2. Turn' = Turn
  <2>1. One(Offering /\ T(Turn) = 0) = 0
    BY DEF One
  <2>2. QED
    BY <2>1 DEF Turn
<1>3. Turn' = Turn /\ T(Turn)' = ToReady(drivers'[Turn])
  BY <1>2 DEF T
<1>4. CASE Offering' /\ ord_q'
  <2>1. Room' = 4 /\ fifo_read
    BY <1>4 DEF Room
  <2>2. fifo_data_valid /\ Completes(In)
    <3>1. SUFFICES ASSUME ~fifo_data_valid
                   PROVE  FALSE
      BY <1>4
    <3>2. Offering /\ T(Turn) # 0
      BY <1>4, <3>1
    <3>3. QED
      BY <2>1, <3>2 DEF Offered
  <2>3. ~Offering /\ ~ord_q
    BY <2>2 DEF Offered
  <2>4. Room = 5
    BY <2>1, <2>2, <2>3 DEF Room
  <2>5. QED
    BY <2>1, <2>4
<1>5. CASE ~(Offering' /\ ord_q')
  <2>1. Room' = 5 /\ fifo_read' /\ (Offering' \/ (fifo_data_valid' /\ Completes(In')))
    BY <1>2, <1>5 DEF Room
  <2>2. ~fifo_read /\ (Asked > 0 /\ Completes(Asked - 1) => T(PixelAt(Asked) % N_STRINGS) = 0)
    BY <2>1, AskedInTime DEF Middle
  <2>3. T(Turn) = 0
    <3>1. CASE Offering'
      <4>1. CASE fifo_data_valid
        <5>1. Completes(In) /\ ~Offering /\ ~ord_q
          BY <3>1, <4>1 DEF Offered
        <5>2. Asked = In + 1
          BY <2>2, <4>1, <5>1 DEF One
        <5>3. Turn = PixelAt(Asked) % N_STRINGS
          BY <5>1, <5>2 DEF Turn, Taken
        <5>4. QED
          BY <2>2, <5>1, <5>2, <5>3
      <4>2. CASE ~fifo_data_valid
        <5>1. Offering /\ T(Turn) # 0
          BY <3>1, <4>2
        <5>2. ~fifo_read /\ ~ord_q /\ In >= 1 /\ Completes(In - 1)
          BY <5>1 DEF Offered
        <5>3. Asked = In
          BY <4>2, <5>2 DEF One
        <5>4. Turn = PixelAt(Asked) % N_STRINGS
          BY <5>1, <5>3 DEF Turn, Taken
        <5>5. QED
          BY <2>2, <5>2, <5>3, <5>4
      <4>3. QED
        BY <1>1, <4>1, <4>2
    <3>2. CASE ~Offering'
      <4>1. fifo_data_valid' /\ Completes(In') /\ ord_q /\ ~fifo_data_valid
        BY <2>1, <3>2
      <4>2. ~Offering /\ In' = In
        <5>1. Offering => T(Turn) = 0
          BY <3>2, <4>1
        <5>2. QED
          BY <4>1, <5>1 DEF One
      <4>3. Asked = In + 1
        BY <2>2, <4>1 DEF One
      <4>4. Turn = PixelAt(Asked) % N_STRINGS
        BY <4>2, <4>3 DEF Turn, Taken
      <4>5. QED
        BY <2>2, <4>1, <4>2, <4>3, <4>4
    <3>3. QED
      BY <3>1, <3>2
  <2>4. QED
    BY <2>1, <2>3
<1>6. QED
  BY <1>4, <1>5

LEMMA RoomLoads ==
  ASSUME Middle, Offering, T(Turn) = 0, Room' # T(Turn)' + 6
  PROVE  Room' = 5 /\ T(Turn') = 0
<1> USE MiddleFacts
<1>1. ~fifo_data_valid /\ In >= 1 /\ Completes(In - 1)
  BY DEF Offered
<1>2. ~Offering' /\ In' = In
  BY <1>1 DEF One
<1>3. Room' = 5 /\ fifo_read' /\ fifo_data_valid' /\ Completes(In)
  BY <1>2 DEF Room
<1>4. ~fifo_read /\ (Asked > 0 /\ Completes(Asked - 1) => T(PixelAt(Asked) % N_STRINGS) = 0)
  BY <1>3, AskedInTime DEF Middle
<1>5. Asked = In + 1
  <2>1. One(fifo_read) = 0 /\ One(ord_q) = 1 /\ One(fifo_data_valid) = 0
    BY <1>1, <1>3, <1>4 DEF One
  <2>2. Asked = In + One(fifo_data_valid) + One(ord_q) + One(fifo_read) /\ In \in Nat
    OBVIOUS
  <2>3. QED
    BY <2>1, <2>2
<1>6. Turn' = PixelAt(Asked) % N_STRINGS
  BY <1>2, <1>5 DEF Turn, Taken
<1>7. Asked > 0 /\ Asked - 1 = In
  BY <1>5
<1>8. QED
  BY <1>3, <1>4, <1>6, <1>7

LEMMA RoomTypes ==
  ASSUME NEW t \in Nat, t = T(Turn)
  PROVE  Room \in Nat /\ Room = IF Offering /\ ord_q THEN 4
                                ELSE IF fifo_read
                                        /\ (Offering \/ (fifo_data_valid /\ Completes(In)))
                                THEN 5 ELSE t + 6
BY DEF Room

LEMMA ConvoyMiddle ==
  ASSUME Middle, Convoy
  PROVE  Convoy'
<1> USE MiddleFacts
<1>1. PICK t : t = Waiting
  OBVIOUS
<1>2. PICK t2 : t2 = Waiting'
  OBVIOUS
<1>3. /\ \A s \in Strings : T(s) \in Nat
      /\ \A s \in Strings : T(s)' = IF s \in shift_data_valid /\ T(s) = 0 THEN PixelTicks
                                    ELSE IF T(s) = 0 THEN 0 ELSE T(s) - 1
  BY DEF Middle, Stepping
<1>4. PixelTicks \in Nat /\ PixelTicks >= 9 /\ N_STRINGS >= 3 /\ N_STRINGS \in Nat
  BY PulseNumbers, Sizes DEF Middle, Design
<1>5. \A s \in Strings : T(s)' \in Nat
  BY <1>3, <1>4
<1>6. /\ t \in [Strings -> Nat] /\ \A s \in Strings : t[s] = T(s)
      /\ t2 \in [Strings -> Nat] /\ \A s \in Strings : t2[s] = T(s)'
  BY <1>1, <1>2, <1>3, <1>5 DEF Waiting
<1>7. PICK u \in Strings : u = Turn
  OBVIOUS
<1>8. PICK u2 : u2 = Turn'
  OBVIOUS
<1>9. PICK taken \in Nat : taken = Taken
  OBVIOUS
<1>10. PICK lat \in 0 .. 6 : lat = Latency
  BY DEF Latency
<1>11. PICK lat2 \in 0 .. 6 : lat2 = Latency'
  BY DEF Latency
<1>12. t[u] = T(Turn) /\ t[u] \in Nat
  BY <1>6, <1>7
<1>13. PICK room \in Nat : room = Room
  BY <1>12, RoomTypes
<1>14. ConvoyOf(t, u, taken, lat, room)
  BY <1>1, <1>7, <1>9, <1>10, <1>13 DEF Convoy
<1>15. /\ shift_data_valid = IF Offering THEN {u} ELSE {}
  BY <1>7 DEF Offered, Offering
<1>16. u2 \in Strings
  BY <1>8, TurnIn DEF Turn, One
<1>17. t2[u2] = T(Turn)' /\ t2[u2] \in Nat
  BY <1>6, <1>8, <1>16 DEF T
<1>18. PICK room2 \in Nat : room2 = Room'
  BY <1>17 DEF Room
<1>19. PICK taken2 : taken2 = Taken'
  OBVIOUS
<1>20. ConvoyOf(t2, u2, taken2, lat2, room2) => Convoy'
  BY <1>2, <1>8, <1>11, <1>18, <1>19 DEF Convoy
<1>21. CASE ~(Offering /\ T(Turn) = 0)
  <2>1. taken2 = taken /\ u2 = u
    <3>1. One(Offering /\ T(Turn) = 0) = 0
      BY <1>21 DEF One
    <3>2. Taken' = Taken
      BY <3>1
    <3>3. QED
      BY <1>7, <1>8, <1>9, <1>19, <3>2 DEF Turn
  <2>2. \A s \in Strings : Less(t, t2, s)
    BY <1>3, <1>6, <1>7, <1>15, <1>21 DEF Less
  <2>3. u >= 1 => IF lat = 0 THEN lat2 = 0 /\ t[u] > 0 ELSE lat2 = lat - 1
    <3>1. SUFFICES ASSUME u >= 1
                   PROVE  IF lat = 0 THEN lat2 = 0 /\ t[u] > 0 ELSE lat2 = lat - 1
      OBVIOUS
    <3>2. t[u - 1] <= PixelTicks /\ PixelTicks - t[u - 1] + lat <= 5
      BY <1>14, <3>1 DEF ConvoyOf
    <3>3. u - 1 \in Strings
      BY <1>4, <3>1 DEF Strings
    <3>4. lat # 6
      BY <1>4, <1>6, <3>2, <3>3
    <3>5. Taken >= 1
      <4>1. SUFFICES ASSUME Taken = 0
                     PROVE  FALSE
        OBVIOUS
      <4>2. Turn = 0
        BY <1>4, <4>1, ModIn DEF Turn
      <4>3. QED
        BY <1>7, <3>1, <4>2
    <3>6. QED
      BY <1>10, <1>11, <1>12, <1>21, <3>4, <3>5, LatencyWaits
  <2>4. room2 = t2[u] + 6 \/ /\ room2 >= 5 \/ room2 >= room - 1
                             /\ room2 >= room - 1 \/ t[u] = 0
    BY <1>12, <1>13, <1>17, <1>18, <1>21, <2>1, RoomWaits
  <2>5. (room2 >= 5 \/ room2 >= room - 1 \/ room2 >= t2[u] + 6)
        /\ (room2 >= room - 1 \/ room2 >= t2[u] + 6 \/ t[u] = 0)
    BY <1>6, <1>7, <2>4
  <2>6. lat \in Nat /\ lat2 \in Nat
    OBVIOUS
  <2>7. ConvoyOf(t2, u, taken, lat2, room2)
    BY <1>4, <1>6, <1>14, <2>2, <2>3, <2>5, <2>6, ConvoyWaits
  <2>8. QED
    BY <1>20, <2>1, <2>7
<1>22. CASE Offering /\ T(Turn) = 0
  <2>1. Taken' = Taken + 1
    BY <1>22 DEF One
  <2>2. u2 = IF u = N_STRINGS - 1 THEN 0 ELSE u + 1
    BY <1>7, <1>8, <2>1, TurnIn DEF Turn
  <2>3. t[u] = 0 /\ t2[u] = PixelTicks
    BY <1>3, <1>6, <1>7, <1>12, <1>15, <1>22
  <2>4. \A s \in Strings : s # u => Less(t, t2, s)
    BY <1>3, <1>6, <1>15 DEF Less
  <2>5. Latency = 0
    BY <1>22 DEF Latency
  <2>6. ConvoyOf(t, u, taken, 0, room)
    BY <1>10, <1>14, <2>5
  <2>7. /\ lat2 <= 5
        /\ taken2 % 2 = 0 => lat2 = IF ord_q THEN 3 ELSE IF fifo_read THEN 4 ELSE 5
    BY <1>11, <1>19, <1>22, LatencyLoads
  <2>8. room = IF ord_q THEN 4 ELSE IF fifo_read THEN 5 ELSE 6
    BY <1>12, <1>13, <1>22 DEF Room
  <2>9. room <= 6 /\ (taken2 % 2 = 0 => room - 1 <= lat2)
    BY <2>7, <2>8
  <2>10. (t[u2] = 0 /\ room2 >= 5) \/ room2 >= t2[u2] + 6
    <3>1. room2 = t2[u2] + 6 \/ (room2 = 5 /\ T(Turn') = 0)
      BY <1>17, <1>18, <1>22, RoomLoads
    <3>2. t[u2] = T(Turn')
      BY <1>6, <1>8, <1>16 DEF T
    <3>3. QED
      BY <1>17, <3>1, <3>2
  <2>11. lat2 \in Nat
    OBVIOUS
  <2>12. ConvoyOf(t2, u2, taken2, lat2, room2)
    BY <1>4, <1>6, <1>16, <2>2, <2>3, <2>4, <2>6, <2>7, <2>9, <2>10, <2>11, ConvoyLoads
  <2>13. QED
    BY <1>20, <2>12
<1>23. QED
  BY <1>21, <1>22

-----------------------------------------------------------------------------
(* The pixel that is offered                                               *)

LEMMA TurnAndRound ==
  ASSUME NEW t \in Nat
  PROVE  /\ t % N_STRINGS \in Strings /\ t % N_STRINGS \in 0 .. N_STRINGS - 1
         /\ t \div N_STRINGS \in Nat
         /\ t = N_STRINGS * (t \div N_STRINGS) + (t % N_STRINGS)
         /\ t + 1 = N_STRINGS * ((t + 1) \div N_STRINGS) + ((t + 1) % N_STRINGS)
         /\ (t + 1) \div N_STRINGS = IF t % N_STRINGS = N_STRINGS - 1
                                     THEN (t \div N_STRINGS) + 1 ELSE t \div N_STRINGS
<1>1. N_STRINGS \in Nat \ {0} /\ N_STRINGS >= 2
  BY Sizes
<1>2. PICK r, q : r = t % N_STRINGS /\ q = t \div N_STRINGS
  OBVIOUS
<1>3. r \in 0 .. N_STRINGS - 1 /\ q \in Nat /\ t = N_STRINGS * q + r
  BY <1>1, <1>2, Euclid
<1>4. r \in Strings
  BY <1>3 DEF Strings
<1>5. t + 1 \in Nat
  OBVIOUS
<1>6. t + 1 = N_STRINGS * ((t + 1) \div N_STRINGS) + ((t + 1) % N_STRINGS)
  BY <1>1, <1>5, Euclid
<1>7. (t + 1) \div N_STRINGS = IF r = N_STRINGS - 1 THEN q + 1 ELSE q
  <2>1. CASE r = N_STRINGS - 1
    <3>1. t + 1 = N_STRINGS * (q + 1) + 0
      BY <1>1, <1>3, <2>1, SMT
    <3>2. q + 1 \in Nat /\ 0 \in 0 .. N_STRINGS - 1
      BY <1>1, <1>3
    <3>3. QED
      BY <1>1, <2>1, <3>1, <3>2, ModUnique
  <2>2. CASE r # N_STRINGS - 1
    <3>1. t + 1 = N_STRINGS * q + (r + 1) /\ r + 1 \in 0 .. N_STRINGS - 1
      BY <1>1, <1>3, <2>2, SMT
    <3>2. QED
      BY <1>1, <1>3, <2>2, <3>1, ModUnique
  <2>3. QED
    BY <2>1, <2>2
<1>8. QED
  BY <1>2, <1>3, <1>4, <1>6, <1>7

LEMMA PixelHeld ==
  ASSUME TypeOK, CountInv, WireTypes, PipeInv, OfferInv, Dealing, Offering
  PROVE  shift_data = PixelFor(Base, Turn, Round)
<1>1. frame_active /\ flush_timer # 1
  BY DEF Dealing
<1>2. /\ In >= 1 /\ Completes(In - 1) /\ Held /\ In >= 0
      /\ shift_reg_sel[3] = (In % 3 = 1)
  BY <1>1 DEF OfferInv, Offered, PipeInv, InStep, Delayed
<1>3. In \in Nat /\ Base \in {0, 1}
  <2>1. Got \in Nat /\ Base \in {0, 1}
    BY <1>1, PlaceReading, PlaceFlushing, Sizes
  <2>2. One(ord_q) \in {0, 1} /\ One(fifo_data_valid) \in {0, 1}
    BY DEF One
  <2>3. QED
    BY <1>2, <2>1, <2>2 DEF In, Due
<1>4. /\ 3 * PixelAt(In) = 2 * In - 6 + One(In % 3 = 1) /\ In >= 3
      /\ PixelAt(In) \in Nat
  BY <1>2, <1>3, PixelBytes, PixelNext
<1>5. Taken = PixelAt(In) /\ Taken = N_STRINGS * Round + Turn
  <2>1. Taken = PixelAt(In)
    BY DEF Taken
  <2>2. QED
    BY <1>4, <2>1, TurnAndRound DEF Round, Turn
<1>6. Base * TOTAL_PIXEL_BYTES = 2 * (Base * W) /\ Base * W \in Nat
  BY <1>3, Sizes
<1>7. Round * N_STRINGS + Turn = Taken
  <2>1. Round \in Nat /\ N_STRINGS \in Nat /\ Turn \in Nat
    <3>1. Taken \in Nat
      BY <1>4, <1>5
    <3>2. Round \in Nat
      BY <3>1, TurnAndRound DEF Round
    <3>3. Turn \in 0 .. N_STRINGS - 1
      BY <3>1, TurnAndRound DEF Turn
    <3>4. QED
      BY <3>2, <3>3, Sizes
  <2>2. Round * N_STRINGS = N_STRINGS * Round
    BY <2>1, SMT
  <2>3. QED
    BY <1>5, <2>1, <2>2
<1> DEFINE first == Base * TOTAL_PIXEL_BYTES + 3 * (Round * N_STRINGS + Turn)
<1>8. first = 2 * (Base * W) + 3 * PixelAt(In)
  BY <1>5, <1>6, <1>7
<1>9. PixelFor(Base, Turn, Round) = <<first, first + 1, first + 2>>
  BY <1>3 DEF PixelFor, PixelOf
<1> HIDE DEF first
<1>10. shift_data = <<first, first + 1, first + 2>>
  <2>1. \A j \in 1 .. 6 : fifo_shift_reg[j] = ByteAt(Base, 2 * In - 7 + j)
    BY <1>2 DEF Held
  <2>2. \A place \in Nat : ByteAt(Base, place) = 2 * (Base * W) + place
    BY DEF ByteAt
  <2>3. CASE In % 3 = 1
    <3>1. 3 * PixelAt(In) = 2 * In - 5
      BY <1>3, <1>4, <2>3 DEF One
    <3>2. /\ fifo_shift_reg[2] = first /\ fifo_shift_reg[3] = first + 1
          /\ fifo_shift_reg[4] = first + 2
      <4>1. /\ fifo_shift_reg[2] = ByteAt(Base, 2 * In - 5)
            /\ fifo_shift_reg[3] = ByteAt(Base, 2 * In - 4)
            /\ fifo_shift_reg[4] = ByteAt(Base, 2 * In - 3)
        BY <1>3, <2>1
      <4>2. 2 * In - 5 \in Nat /\ 2 * In - 4 \in Nat /\ 2 * In - 3 \in Nat
        BY <1>3, <1>4
      <4>3. QED
        BY <1>3, <1>6, <1>8, <2>2, <3>1, <4>1, <4>2
    <3>3. shift_reg_sel[3]
      BY <1>2, <2>3
    <3>4. QED
      BY <3>2, <3>3, ShiftData
  <2>4. CASE In % 3 # 1
    <3>1. 3 * PixelAt(In) = 2 * In - 6
      BY <1>3, <1>4, <2>4 DEF One
    <3>2. /\ fifo_shift_reg[1] = first /\ fifo_shift_reg[2] = first + 1
          /\ fifo_shift_reg[3] = first + 2
      <4>1. /\ fifo_shift_reg[1] = ByteAt(Base, 2 * In - 6)
            /\ fifo_shift_reg[2] = ByteAt(Base, 2 * In - 5)
            /\ fifo_shift_reg[3] = ByteAt(Base, 2 * In - 4)
        BY <1>3, <2>1
      <4>2. 2 * In - 6 \in Nat /\ 2 * In - 5 \in Nat /\ 2 * In - 4 \in Nat
        BY <1>3, <1>4
      <4>3. QED
        BY <1>3, <1>6, <1>8, <2>2, <3>1, <4>1, <4>2
    <3>3. ~shift_reg_sel[3]
      BY <1>2, <2>4
    <3>4. QED
      BY <3>2, <3>3, ShiftData
  <2>5. QED
    BY <2>3, <2>4
<1>11. QED
  BY <1>9, <1>10

-----------------------------------------------------------------------------
(* All strings at an edge                                                  *)

Loads(s) == pxl_data_valid(s) /\ T(s) = 0

LEMMA StringNext ==
  ASSUME Design, TypeOK, WireTypes, OfferInv, Tick, ~h_blank_q, NEW s \in Strings
  PROVE  /\ T(s) \in Nat /\ (Ready(s) <=> T(s) = 0)
         /\ T(s)' = IF Loads(s) THEN PixelTicks ELSE IF T(s) = 0 THEN 0 ELSE T(s) - 1
         /\ DriverSound(drivers'[s]) /\ Busy(drivers'[s])
         /\ string_ready(drivers'[s]) <=> T(s)' = 0
         /\ \A f \in 0 .. 2, n \in Nat :
              Sends(f, s, n) /\ (Loads(s) => pxl_data = PixelFor(f, s, n))
                => OnWire(drivers'[s], line'[s], f, s, n + One(Loads(s)))
<1>1. DriverSound(drivers[s]) /\ Busy(drivers[s]) /\ SamePulses
  BY DEF OfferInv, Design
<1>2. PICK load \in BOOLEAN, p \in Seq(Nat) : Moves(s, load, p)
  BY <1>1, StringMoves
<1>3. PICK d \in Drivers(Seq(Nat)) : d = drivers[s]
  BY DEF WireTypes
<1>4. PICK e \in Drivers(Seq(Nat)) : e = drivers'[s]
  <2>1. drivers'[s] \in Drivers(Seq(Nat))
    BY EdgeHolds
  <2>2. QED
    BY <2>1
<1>5. Ready(s) <=> T(s) = 0
  BY <1>1, <1>3, ReadyIsZero DEF T, Ready
<1>6. load <=> Loads(s)
  BY <1>2 DEF Moves, Loads
<1>7. /\ T(s) \in Nat /\ p = pxl_data
      /\ T(s)' = IF load THEN PixelTicks ELSE IF T(s) = 0 THEN 0 ELSE T(s) - 1
      /\ DriverSound(e) /\ Busy(e)
  BY <1>2, <1>4 DEF Moves, Advances
<1>8. string_ready(e) <=> T(s)' = 0
  BY <1>4, <1>7, ReadyIsZero DEF T
<1>9. ASSUME NEW f \in 0 .. 2, NEW n \in Nat, Sends(f, s, n),
             Loads(s) => pxl_data = PixelFor(f, s, n)
      PROVE  OnWire(drivers'[s], line'[s], f, s, n + One(Loads(s)))
  <2>1. OnWire(drivers'[s], line'[s], f, s, n + One(load))
    BY <1>1, <1>2, <1>4, <1>6, <1>7, <1>9, SendsNext
  <2>2. One(load) = One(Loads(s))
    BY <1>6 DEF One
  <2>3. QED
    BY <2>1, <2>2
<1>10. QED
  BY <1>4, <1>5, <1>6, <1>7, <1>8, <1>9

-----------------------------------------------------------------------------
(* A frame starts                                                          *)

StringsInv ==
  TypeOK /\ CountInv /\ WireTypes /\ PipeInv /\ OfferInv /\ ConvoyInv /\ SendInv

\* Nothing of the frame has left the FIFO.
Empty == frame_active /\ flush_timer = 0 /\ In = 0 /\ ~Offering /\ ~fifo_data_valid

LEMMA EmptyDeals ==
  Empty => Dealing /\ Taken = 0 /\ Turn = 0 /\ Round = 0 /\ Offered
<1> SUFFICES ASSUME Empty
             PROVE  Dealing /\ Taken = 0 /\ Turn = 0 /\ Round = 0 /\ Offered
  OBVIOUS
<1>1. Dealing /\ Offered
  BY DEF Empty, Dealing, Offered
<1>2. Taken = 0
  <2>1. Taken = PixelAt(1)
    BY DEF Empty, Taken
  <2>2. QED
    BY <2>1, PixelZero
<1>3. Turn = 0 /\ Round = 0
  BY <1>2, Sizes, SMT DEF Turn, Round
<1>4. QED
  BY <1>1, <1>2, <1>3

LEMMA EmptyConvoy ==
  Empty /\ (\E c \in Nat : \A s \in Strings : T(s) = c) => Convoy
<1> SUFFICES ASSUME Empty, NEW c \in Nat, \A s \in Strings : T(s) = c
             PROVE  Convoy
  OBVIOUS
<1>1. Turn = 0
  BY EmptyDeals
<1>2. 0 \in Strings /\ 1 \in Strings
  BY Sizes DEF Strings
<1>3. c = T(Turn)
  BY <1>1, <1>2
<1>4. Room = c + 6
  BY <1>3, RoomTypes DEF Empty
<1>5. \A s \in Strings : Waiting[s] = c
  BY DEF Waiting
<1>6. \A s \in 1 .. N_STRINGS - 1 : Waiting[s] <= Waiting[s - 1] + 6
  <2>1. TAKE s \in 1 .. N_STRINGS - 1
  <2>2. s \in Strings /\ s - 1 \in Strings
    BY Sizes DEF Strings
  <2>3. QED
    BY <1>5, <2>2
<1>7. Waiting[Turn + 1] <= Room
  BY <1>1, <1>2, <1>4, <1>5
<1>8. QED
  BY <1>1, <1>6, <1>7 DEF Convoy, ConvoyOf

LEMMA FrameStarts ==
  ASSUME Design, StringsInv, Tick, ~frame_active, frame_active'
  PROVE  /\ ~init_active /\ ~init_active' /\ ~reset /\ ~reset'
         /\ Empty' /\ Got' = 0 /\ ~ord_q' /\ ~fifo_read' /\ h_blank' /\ ~h_blank_q'
         /\ ~h_blank_q /\ Whole /\ \A s \in Strings : ~Loads(s) /\ T(s)' = 0
<1> USE DEF StringsInv
<1>1. CountsFit
  BY DEF Design
<1>2. /\ StartsFrame /\ flush_timer' = 0 /\ ~reset
      /\ Base' \in {0, 1} /\ Got' = 0 /\ ~fifo_read'
  BY <1>1, PlaceStarts
<1>3. full_count >= W /\ ~string_active
  BY <1>2 DEF StartsFrame, W
<1>4. ~init_active
  BY <1>3, Sizes DEF SendInv, Clearing
<1>5. ~h_blank /\ ~h_blank_q /\ Whole /\ \A s \in shift_data_valid : T(s) > 0
  BY <1>4 DEF SendInv
<1>6. \A s \in Strings : Ready(s)
  BY <1>3 DEF string_active, Ready
<1>7. \A s \in Strings : ~Loads(s) /\ T(s)' = 0
  <2> TAKE s \in Strings
  <2>1. T(s) = 0 /\ T(s)' = IF Loads(s) THEN PixelTicks ELSE IF T(s) = 0 THEN 0 ELSE T(s) - 1
    BY <1>5, <1>6, StringNext
  <2>2. ~Loads(s)
    BY <1>4, <1>5, <2>1 DEF Loads, pxl_data_valid
  <2>3. QED
    BY <2>1, <2>2
<1>8. h_blank' /\ ~h_blank_q'
  BY <1>2, <1>5 DEF Tick, FrameControl, DelayBlank
<1>9. ~fifo_read /\ ~ord_q /\ ~fifo_data_valid
  BY DEF CountInv, AtFrameEnd, PipeInv, AtRest
<1>10. ~ord_q' /\ ~fifo_data_valid'
  BY <1>9 DEF Tick, Fifo
<1>11. ~Offering'
  BY ShiftCases DEF Offering
<1>12. In' = 0
  <2>1. One(ord_q') = 0 /\ One(fifo_data_valid') = 0
    BY <1>10 DEF One
  <2>2. In' = (Got' - One(ord_q')) - One(fifo_data_valid')
    BY DEF In, Due
  <2>3. QED
    BY <1>2, <2>1, <2>2
<1>13. ~init_active' /\ ~reset'
  BY <1>2, <1>4 DEF Tick, InitPixels
<1>14. QED
  BY <1>2, <1>4, <1>5, <1>7, <1>8, <1>10, <1>11, <1>12, <1>13 DEF Empty

LEMMA BlankingNext ==
  ASSUME Design, StringsInv, Tick, frame_active, h_blank \/ h_blank_q
  PROVE  /\ ~init_active /\ ~init_active' /\ ~reset /\ ~reset'
         /\ Empty' /\ Got' = Asked /\ Asked = IF fifo_read THEN 1 ELSE 0
         /\ ~h_blank' /\ (h_blank_q' <=> h_blank) /\ (ord_q' <=> fifo_read)
         /\ \A s \in Strings : T(s) = 0 /\ Ready(s) /\ ~pxl_data_valid(s) /\ ~Loads(s)
         /\ h_blank_q => \A s \in Strings : Blanks(s)
         /\ ~h_blank_q => \A s \in Strings : T(s)' = 0
<1> USE DEF StringsInv
<1>1. CountsFit
  BY DEF Design
<1>2. ~init_active /\ ~reset
  BY DEF SendInv
<1>3. /\ Got = 0 /\ ~(h_blank /\ h_blank_q) /\ (h_blank => ~fifo_read)
      /\ ~fifo_data_valid /\ ~Offering /\ ~ord_q /\ AllReady /\ Whole
  BY DEF SendInv, Blanking
<1>4. flush_timer = 0 /\ frame_active'
  <2>1. flush_timer = 0
    BY <1>3, PlaceFlushing, Sizes
  <2>2. QED
    BY <1>1, <1>2, <2>1, ReadingNext
<1>5. Got' = Asked /\ flush_timer' = 0 /\ ~reset'
  BY <1>1, <1>3, <1>4, PlaceStays, Sizes
<1>6. Asked = IF fifo_read THEN 1 ELSE 0
  BY <1>3 DEF Asked, One
<1>7. \A s \in Strings : T(s) = 0 /\ Ready(s) /\ ~pxl_data_valid(s) /\ ~Loads(s)
  <2> TAKE s \in Strings
  <2>1. Ready(s)
    BY <1>3 DEF AllReady, Ready
  <2>2. ~pxl_data_valid(s)
    BY <1>2, <1>3 DEF pxl_data_valid, Offering
  <2>3. T(s) = 0
    <3>1. PICK d \in Drivers(Seq(Nat)) : d = drivers[s]
      BY DEF WireTypes
    <3>2. DriverSound(d) /\ Busy(d)
      BY <3>1 DEF OfferInv
    <3>3. QED
      BY <2>1, <3>1, <3>2, ReadyIsZero DEF T, Ready
  <2>4. QED
    BY <2>1, <2>2, <2>3 DEF Loads
<1>8. ASSUME h_blank_q, NEW s \in Strings
      PROVE  Blanks(s)
  BY <1>7, <1>8, StringBlanks DEF OfferInv
<1>9. ASSUME ~h_blank_q, NEW s \in Strings
      PROVE  T(s)' = 0
  BY <1>7, <1>9, StringNext
<1>10. ~h_blank' /\ (h_blank_q' <=> h_blank)
  BY <1>2 DEF Tick, FrameControl, StartsFrame, DelayBlank, TypeOK
<1>11. (ord_q' <=> fifo_read) /\ ~fifo_data_valid'
  BY <1>3 DEF Tick, Fifo, TypeOK
<1>12. ~Offering'
  <2>1. ~flush_shift_reg
    BY <1>4, PlaceReading
  <2>2. QED
    BY <1>2, <1>3, <2>1, ShiftCases DEF Offering
<1>13. In' = 0
  BY <1>5, <1>6, <1>11, SMT DEF In, Due, One
<1>14. ~init_active'
  BY <1>2 DEF Tick, InitPixels
<1>15. QED
  BY <1>2, <1>4, <1>5, <1>6, <1>7, <1>8, <1>9, <1>10, <1>11, <1>12, <1>13, <1>14 DEF Empty

-----------------------------------------------------------------------------
(* OfferInv and ConvoyInv at an edge                                       *)

LEMMA NotBlanking ==
  ASSUME SendInv, ~(frame_active /\ (h_blank \/ h_blank_q))
  PROVE  ~h_blank_q /\ (~init_active => ~h_blank)
BY DEF SendInv, Clearing

\* In the middle of a frame every pixel before this edge was on its way already.
LEMMA DealingOn ==
  ASSUME Design, StringsInv, Tick, frame_active, ~h_blank_q, Dealing'
  PROVE  frame_active' => Middle
<1> USE DEF StringsInv
<1> SUFFICES ASSUME frame_active'
             PROVE  Middle
  OBVIOUS
<1>1. CountsFit /\ ~init_active
  BY DEF Design, SendInv
<1>2. flush_timer' = IF flush_timer = 0 THEN IF fifo_read /\ Got = W - 1 THEN 5 ELSE 0
                     ELSE flush_timer - 1
  BY <1>1, PlaceStays
<1>3. flush_timer \in 0 .. 5 /\ flush_timer # 1
  BY <1>1, CountTypes, PlaceStays
<1>4. flush_timer # 2
  BY <1>2 DEF Dealing
<1>5. Dealing
  BY <1>3, <1>4 DEF Dealing
<1>6. Stepping
  BY <1>1, Steps
<1>7. QED
  BY <1>5, <1>6 DEF Middle

LEMMA OfferNext ==
  ASSUME Design, StringsInv, Tick
  PROVE  OfferInv'
<1> USE DEF StringsInv
<1>1. \A s \in Strings : DriverSound(drivers'[s]) /\ Busy(drivers'[s])
  <2>1. CASE h_blank_q
    <3>1. frame_active
      BY <2>1, NotBlanking
    <3>2. \A s \in Strings : Blanks(s)
      BY <2>1, <3>1, BlankingNext
    <3>3. QED
      BY <3>2 DEF Blanks
  <2>2. CASE ~h_blank_q
    BY <2>2, StringNext
  <2>3. QED
    BY <2>1, <2>2
<1>2. Dealing' => Offered'
  <2> SUFFICES ASSUME Dealing'
               PROVE  Offered'
    OBVIOUS
  <2>1. frame_active'
    BY DEF Dealing
  <2>2. (Empty => Offered)'
    BY EmptyDeals, PTL
  <2>3. CASE ~frame_active
    BY <2>1, <2>2, <2>3, FrameStarts
  <2>4. CASE frame_active /\ h_blank_q
    BY <2>2, <2>4, BlankingNext
  <2>5. CASE frame_active /\ ~h_blank_q
    <3>1. Middle
      BY <2>1, <2>5, DealingOn
    <3>2. QED
      BY <3>1, MiddleFacts
  <2>6. QED
    BY <2>3, <2>4, <2>5 DEF TypeOK
<1>3. init_active' => shift_data_valid' = {}
  <2>1. init_active' => ~frame_active
    BY DEF Tick, InitPixels, SendInv, CountInv
  <2>2. QED
    BY <2>1, ShiftCases
<1>4. QED
  BY <1>1, <1>2, <1>3 DEF OfferInv

LEMMA ConvoyNext ==
  ASSUME Design, StringsInv, Tick
  PROVE  ConvoyInv'
<1> USE DEF StringsInv
<1> SUFFICES ASSUME Dealing'
             PROVE  Convoy'
  BY DEF ConvoyInv
<1>1. frame_active'
  BY DEF Dealing
<1>2. (Empty /\ (\E c \in Nat : \A s \in Strings : T(s) = c) => Convoy)'
  BY EmptyConvoy, PTL
<1>3. CASE ~frame_active
  <2>1. Empty' /\ \A s \in Strings : T(s)' = 0
    BY <1>1, <1>3, FrameStarts
  <2>2. QED
    BY <1>2, <2>1
<1>4. CASE frame_active /\ h_blank_q
  <2>1. Empty' /\ \A s \in Strings : T(s)' = kHBlankCount + 1
    BY <1>4, BlankingNext DEF Blanks
  <2>2. kHBlankCount + 1 \in Nat
    BY Counts
  <2>3. QED
    BY <1>2, <2>1, <2>2
<1>5. CASE frame_active /\ ~h_blank_q
  <2>1. Middle
    BY <1>1, <1>5, DealingOn
  <2>2. Convoy
    BY <2>1 DEF Middle, ConvoyInv
  <2>3. QED
    BY <2>1, <2>2, ConvoyMiddle
<1>6. QED
  BY <1>3, <1>4, <1>5 DEF TypeOK

-----------------------------------------------------------------------------
(* What the strings have been sent, phase by phase                         *)

Sent(f, s, n) == OnWire(drivers'[s], line'[s], f, s, n)

LEMMA ShareIs ==
  ASSUME NEW f, NEW s
  PROVE  Share(f, s) \in Nat
BY Sizes DEF Share

LEMMA Quiet ==
  ASSUME Design, TypeOK, WireTypes, OfferInv, Tick, ~h_blank_q,
         \A s \in Strings : ~Loads(s)
  PROVE  /\ \A f \in 0 .. 2, s \in Strings, n \in Nat : Sends(f, s, n) => Sent(f, s, n)
         /\ Whole => Whole'
         /\ AllReady => AllReady'
<1>1. ASSUME NEW f \in 0 .. 2, NEW s \in Strings, NEW n \in Nat, Sends(f, s, n)
      PROVE  Sent(f, s, n)
  <2>1. OnWire(drivers'[s], line'[s], f, s, n + One(Loads(s)))
    BY <1>1, StringNext
  <2>2. One(Loads(s)) = 0
    BY DEF One
  <2>3. QED
    BY <2>1, <2>2 DEF Sent
<1>2. ASSUME Whole
      PROVE  Whole'
  <2>1. PICK f \in 0 .. 2 : \A s \in Strings : Sends(f, s, Share(f, s))
    BY <1>2 DEF Whole
  <2>2. \A s \in Strings : Sent(f, s, Share(f, s))
    BY <1>1, <2>1, ShareIs
  <2>3. QED
    BY <2>2 DEF Whole, Sends, Sent
<1>3. ASSUME AllReady
      PROVE  AllReady'
  <2>1. ASSUME NEW s \in Strings
        PROVE  string_ready(drivers'[s])
    <3>1. T(s) = 0
      BY <1>3, StringNext DEF AllReady, Ready
    <3>2. T(s)' = 0
      BY <3>1, StringNext
    <3>3. QED
      BY <3>2, StringNext
  <2>2. QED
    BY <2>1 DEF AllReady
<1>4. QED
  BY <1>1, <1>2, <1>3

LEMMA ClearingNext ==
  ASSUME Design, StringsInv, Tick, init_active
  PROVE  SendInv'
<1> USE DEF StringsInv
<1>1. Clearing /\ QuietStart
  BY DEF SendInv, Design
<1>2. ~frame_active /\ ~h_blank /\ ~h_blank_q /\ known = 0 /\ full_count = 0
  BY <1>1 DEF Clearing
<1>3. ~fifo_read
  BY <1>2 DEF CountInv, AtFrameEnd
<1>4. ~StartsFrame
  BY <1>2, Sizes DEF StartsFrame, W
<1>5. ~frame_active' /\ ~h_blank' /\ ~h_blank_q'
  BY <1>2, <1>4 DEF Tick, FrameControl, DelayBlank
<1>6. known' = 0 /\ full_count' = 0
  <2>1. Arrivals = {0}
    BY <1>1 DEF Arrivals
  <2>2. Fifo
    BY DEF Tick
  <2>3. known' = 0
    BY <1>2, <1>3, <2>1, <2>2 DEF Fifo
  <2>4. full_count' = 0
    <3>1. full_count' = IF reset THEN 0 ELSE known - (IF fifo_read THEN 1 ELSE 0)
      BY <2>2 DEF Fifo
    <3>2. CASE reset
      BY <3>1, <3>2
    <3>3. CASE ~reset
      <4>1. full_count' = known - 0
        BY <1>3, <3>1, <3>3
      <4>2. known = 0
        BY <1>2
      <4>3. QED
        BY <4>1, <4>2, SMT
    <3>4. QED
      BY <3>2, <3>3
  <2>5. QED
    BY <2>3, <2>4
<1>7. shift_data_valid' = {}
  BY <1>2, ShiftCases
<1>8. init_pixels_remaining \in 0 .. L
  BY DEF TypeOK, L
<1>9. \A s \in Strings : Sent(2, s, L - init_pixels_remaining)
  <2> TAKE s \in Strings
  <2>1. Loads(s) <=> init_data_valid
    <3>1. Loads(s) <=> init_data_valid /\ T(s) = 0
      BY DEF Loads, pxl_data_valid
    <3>2. init_data_valid => T(s) = 0
      BY <1>1, <1>2, StringNext DEF Clearing, AllReady, Ready
    <3>3. QED
      BY <3>1, <3>2
  <2> DEFINE n == Cleared
  <2>2. n \in Nat /\ n + One(Loads(s)) = L - init_pixels_remaining
    <3>1. CASE init_data_valid
      <4>1. One(init_data_valid) = 1 /\ One(Loads(s)) = 1
        BY <2>1, <3>1 DEF One
      <4>2. init_pixels_remaining < L
        BY <1>1, <3>1 DEF Clearing
      <4>3. QED
        BY <1>8, <4>1, <4>2, Sizes DEF Cleared
    <3>2. CASE ~init_data_valid
      <4>1. One(init_data_valid) = 0 /\ One(Loads(s)) = 0
        BY <2>1, <3>2 DEF One
      <4>2. QED
        BY <1>8, <4>1, Sizes DEF Cleared
    <3>3. QED
      BY <3>1, <3>2
  <2>3. Sends(2, s, n)
    BY <1>1 DEF Clearing
  <2> HIDE DEF n
  <2>4. pxl_data = PixelFor(2, s, n)
    BY DEF pxl_data, PixelFor
  <2>5. OnWire(drivers'[s], line'[s], 2, s, n + One(Loads(s)))
    BY <1>2, <2>2, <2>3, <2>4, StringNext
  <2>6. QED
    BY <2>2, <2>5 DEF Sent
<1>10. (reset' => reset) /\ (reset => init_active')
  BY DEF Tick, InitPixels
<1>11. init_active' => Clearing'
  <2> SUFFICES ASSUME init_active'
               PROVE  Clearing'
    OBVIOUS
  <2>1. CASE reset
    <3>1. init_pixels_remaining' = L /\ init_data_valid' = FALSE
      BY <2>1 DEF Tick, InitPixels, L
    <3>2. init_pixels_remaining = L
      BY <1>1, <2>1 DEF Clearing
    <3>3. Cleared' = L - init_pixels_remaining
      <4>1. Cleared' = L - init_pixels_remaining' - 0
        BY <3>1 DEF Cleared, One
      <4>2. QED
        BY <3>1, <3>2, <4>1, Sizes
    <3>4. \A s \in Strings : Sent(2, s, Cleared')
      BY <1>9, <3>3
    <3>5. QED
      BY <1>5, <1>6, <3>1, <3>4 DEF Clearing, Sends, Sent
  <2>2. CASE ~reset /\ ~string_active /\ ~init_data_valid
    <3>1. /\ init_pixels_remaining > 0 /\ init_data_valid' = TRUE
          /\ init_pixels_remaining' = init_pixels_remaining - 1
      BY <2>2 DEF Tick, InitPixels
    <3>2. Cleared' = L - init_pixels_remaining
      <4>1. Cleared' = L - init_pixels_remaining' - 1
        BY <3>1 DEF Cleared, One
      <4>2. QED
        BY <1>8, <3>1, <4>1, Sizes
    <3>3. \A s \in Strings : Sent(2, s, Cleared')
      BY <1>9, <3>2
    <3>4. \A s \in Strings : ~Loads(s)
      BY <2>2 DEF Loads, pxl_data_valid
    <3>5. AllReady'
      BY <1>2, <2>2, <3>4, Quiet DEF AllReady, string_active
    <3>6. init_pixels_remaining' < L
      BY <1>8, <3>1, Sizes
    <3>7. QED
      BY <1>5, <1>6, <1>10, <2>2, <3>3, <3>5, <3>6 DEF Clearing, Sends, Sent
  <2>3. CASE ~reset /\ (string_active \/ init_data_valid)
    <3>1. init_data_valid' = FALSE /\ init_pixels_remaining' = init_pixels_remaining
      BY <1>8, <2>3, Sizes DEF Tick, InitPixels
    <3>2. Cleared' = L - init_pixels_remaining
      BY <1>8, <3>1, Sizes DEF Cleared, One
    <3>3. \A s \in Strings : Sent(2, s, Cleared')
      BY <1>9, <3>2
    <3>4. QED
      BY <1>5, <1>6, <1>10, <2>3, <3>1, <3>3 DEF Clearing, Sends, Sent
  <2>4. QED
    BY <2>1, <2>2, <2>3
<1>12. ~init_active' => Whole'
  <2> SUFFICES ASSUME ~init_active'
               PROVE  Whole'
    OBVIOUS
  <2>1. init_pixels_remaining = 0
    <3>1. ~(init_pixels_remaining > 0)
      BY <1>10 DEF Tick, InitPixels
    <3>2. QED
      BY <1>8, <3>1, Sizes
  <2>2. L - init_pixels_remaining = L /\ \A s \in Strings : Share(2, s) = L
    BY <2>1, Sizes DEF Share
  <2>3. \A s \in Strings : Sent(2, s, Share(2, s))
    BY <1>9, <2>2
  <2>4. QED
    BY <2>3 DEF Whole, Sends, Sent
<1>13. QED
  BY <1>5, <1>7, <1>10, <1>11, <1>12 DEF SendInv, Dealing

LEMMA IdleSends ==
  ASSUME Design, StringsInv, Tick, ~init_active, ~frame_active
  PROVE  SendInv'
<1> USE DEF StringsInv
<1>1. /\ ~reset /\ ~h_blank /\ ~h_blank_q /\ Whole
      /\ \A s \in shift_data_valid : T(s) > 0
  BY DEF SendInv
<1>2. \A s \in Strings : ~Loads(s)
  BY <1>1 DEF Loads, pxl_data_valid
<1>3. Whole'
  BY <1>1, <1>2, Quiet
<1>4. ~init_active' /\ ~reset' /\ ~h_blank_q'
  BY <1>1 DEF Tick, InitPixels, DelayBlank
<1>5. CASE frame_active'
  <2>1. /\ Empty' /\ Got' = 0 /\ ~ord_q' /\ ~fifo_read' /\ h_blank' /\ ~h_blank_q'
        /\ \A s \in Strings : T(s)' = 0
    BY <1>5, FrameStarts
  <2>2. AllReady'
    BY <1>1, <2>1, StringNext DEF AllReady
  <2>3. Blanking'
    BY <1>3, <2>1, <2>2 DEF Blanking, Empty
  <2>4. QED
    BY <1>4, <1>5, <2>1, <2>3 DEF SendInv, Empty
<1>6. CASE ~frame_active'
  <2>1. ~h_blank'
    <3>1. ~StartsFrame
      <4>1. frame_active' <=> (flush_timer # 1 /\ (frame_active \/ StartsFrame))
        BY <1>1, CountersNext DEF Design
      <4>2. flush_timer = 0
        BY DEF CountInv
      <4>3. QED
        BY <1>6, <4>1, <4>2
    <3>2. QED
      BY <1>1, <3>1 DEF Tick, FrameControl
  <2>2. shift_data_valid' = {}
    BY ShiftCases
  <2>3. QED
    BY <1>3, <1>4, <1>6, <2>1, <2>2 DEF SendInv, Dealing
<1>7. QED
  BY <1>5, <1>6

LEMMA BlankingSends ==
  ASSUME Design, StringsInv, Tick, frame_active, h_blank \/ h_blank_q
  PROVE  SendInv'
<1> USE DEF StringsInv
<1>1. /\ ~init_active /\ ~init_active' /\ ~reset /\ ~reset'
      /\ Empty' /\ Got' = Asked /\ Asked = IF fifo_read THEN 1 ELSE 0
      /\ ~h_blank' /\ (h_blank_q' <=> h_blank) /\ (ord_q' <=> fifo_read)
      /\ \A s \in Strings : ~Loads(s)
      /\ h_blank_q => \A s \in Strings : Blanks(s)
  BY BlankingNext
<1>2. ~(h_blank /\ h_blank_q) /\ (h_blank => ~fifo_read) /\ AllReady /\ Whole
  BY DEF SendInv, Blanking
<1>3. frame_active' /\ flush_timer' = 0
  BY <1>1 DEF Empty
<1>4. CASE h_blank
  <2>1. AllReady' /\ Whole'
    BY <1>1, <1>2, <1>4, Quiet
  <2>2. Blanking'
    BY <1>1, <1>2, <1>4, <2>1 DEF Blanking, Empty
  <2>3. QED
    BY <1>1, <1>3, <1>4, <2>2 DEF SendInv
<1>5. CASE ~h_blank
  <2>1. Turn' = 0 /\ Round' = 0
    <3>1. (Empty => Dealing /\ Taken = 0 /\ Turn = 0 /\ Round = 0 /\ Offered)'
      BY EmptyDeals, PTL
    <3>2. QED
      BY <1>1, <3>1
  <2>2. \A s \in Strings : Sent(Base', s, 0)
    <3> TAKE s \in Strings
    <3>1. drivers'[s].shift_ready /\ line'[s] = <<>>
      BY <1>1, <1>5 DEF Blanks
    <3>2. QED
      BY <3>1, OnWireBlanked DEF Sent
  <2>3. \A s \in Strings : (IF s < Turn' THEN Round' + 1 ELSE Round') = 0
    BY <2>1 DEF Strings
  <2>4. \A s \in Strings : Sent(Base', s, IF s < Turn' THEN Round' + 1 ELSE Round')
    BY <2>2, <2>3
  <2>5. QED
    BY <1>1, <1>3, <1>5, <2>4 DEF SendInv, Sends, Sent
<1>6. QED
  BY <1>4, <1>5

-----------------------------------------------------------------------------
(* The strings in the middle of a frame, and at its end                    *)

CountOf(s, turn, round) == IF s < turn THEN round + 1 ELSE round

LEMMA DealSent ==
  ASSUME Design, StringsInv, Tick, frame_active, Dealing, ~h_blank, ~h_blank_q
  PROVE  /\ ~init_active /\ Base \in {0, 1} /\ Taken \in Nat /\ Round \in Nat
         /\ Turn \in 0 .. N_STRINGS - 1
         /\ \A s \in Strings : Loads(s) <=> Offering /\ s = Turn /\ T(Turn) = 0
         /\ \A s \in Strings :
              Sent(Base, s, CountOf(s, Turn, Round) + One(Loads(s)))
<1> USE DEF StringsInv
<1>1. ~init_active /\ Offered
  BY DEF SendInv, OfferInv
<1>2. Base \in {0, 1} /\ Taken \in Nat
  <2>1. Got \in Nat /\ Base \in {0, 1}
    BY PlaceReading, PlaceFlushing, Sizes
  <2>2. One(ord_q) \in {0, 1} /\ One(fifo_data_valid) \in {0, 1}
    BY DEF One
  <2>3. In >= 0
    BY DEF PipeInv, InStep
  <2>4. In \in Nat
    BY <2>1, <2>2, <2>3 DEF In, Due
  <2>5. PixelAt(In) \in Nat /\ PixelAt(In + 1) \in Nat
    BY <2>4, PixelNext
  <2>6. QED
    BY <2>1, <2>5 DEF Taken
<1>3. Round \in Nat /\ Turn \in 0 .. N_STRINGS - 1 /\ Turn \in Strings
  BY <1>2, TurnAndRound DEF Round, Turn
<1>4. ASSUME NEW s \in Strings
      PROVE  Loads(s) <=> Offering /\ s = Turn /\ T(Turn) = 0
  <2>1. pxl_data_valid(s) <=> s \in shift_data_valid
    BY <1>1 DEF pxl_data_valid
  <2>2. CASE Offering
    <3>1. shift_data_valid = {Turn}
      BY <1>1, <2>2 DEF Offered
    <3>2. QED
      BY <2>1, <2>2, <3>1 DEF Loads
  <2>3. CASE ~Offering
    BY <2>1, <2>3 DEF Loads, Offering
  <2>4. QED
    BY <2>2, <2>3
<1>5. ASSUME NEW s \in Strings
      PROVE  Sent(Base, s, CountOf(s, Turn, Round) + One(Loads(s)))
  <2>1. Sends(Base, s, CountOf(s, Turn, Round))
    BY DEF SendInv, CountOf
  <2>2. CountOf(s, Turn, Round) \in Nat
    BY <1>3 DEF CountOf
  <2>3. Loads(s) => pxl_data = PixelFor(Base, s, CountOf(s, Turn, Round))
    <3>1. SUFFICES ASSUME Loads(s)
                   PROVE  pxl_data = PixelFor(Base, s, CountOf(s, Turn, Round))
      OBVIOUS
    <3>2. Offering /\ s = Turn
      BY <1>4, <3>1
    <3>3. pxl_data = shift_data
      BY <1>1 DEF pxl_data
    <3>4. shift_data = PixelFor(Base, Turn, Round)
      BY <3>2, PixelHeld
    <3>5. CountOf(s, Turn, Round) = Round
      BY <1>3, <3>2 DEF CountOf
    <3>6. QED
      BY <3>2, <3>3, <3>4, <3>5
  <2>4. Base \in 0 .. 2
    BY <1>2
  <2>5. QED
    BY <2>1, <2>2, <2>3, <2>4, StringNext DEF Sent
<1>6. QED
  BY <1>1, <1>2, <1>3, <1>4, <1>5

LEMMA CountsNext ==
  ASSUME NEW t \in Nat, NEW s \in Strings
  PROVE  /\ CountOf(s, (t + 1) % N_STRINGS, (t + 1) \div N_STRINGS)
              = CountOf(s, t % N_STRINGS, t \div N_STRINGS)
                  + (IF s = t % N_STRINGS THEN 1 ELSE 0)
<1>1. PICK u, r, u2, r2 : /\ u = t % N_STRINGS /\ r = t \div N_STRINGS
                          /\ u2 = (t + 1) % N_STRINGS /\ r2 = (t + 1) \div N_STRINGS
  OBVIOUS
<1>2. /\ u \in 0 .. N_STRINGS - 1 /\ r \in Nat
      /\ r2 = IF u = N_STRINGS - 1 THEN r + 1 ELSE r
  BY <1>1, TurnAndRound
<1>3. u2 = IF u = N_STRINGS - 1 THEN 0 ELSE u + 1
  BY <1>1, TurnIn
<1>4. s \in 0 .. N_STRINGS - 1 /\ N_STRINGS \in Nat
  BY Sizes DEF Strings
<1>5. CountOf(s, u2, r2) = CountOf(s, u, r) + (IF s = u THEN 1 ELSE 0)
  BY <1>2, <1>3, <1>4, SMT DEF CountOf
<1>6. QED
  BY <1>1, <1>5

\* In the middle of a frame no other frame starts.
LEMMA DealControl ==
  ASSUME Design, StringsInv, Tick, frame_active, flush_timer # 1, ~h_blank
  PROVE  /\ frame_active' /\ ~h_blank' /\ ~h_blank_q' /\ ~init_active' /\ ~reset'
         /\ Base' = Base
         /\ flush_timer > 0 => flush_timer' = flush_timer - 1
         /\ flush_timer = 0 => flush_timer' \in {0, 5}
<1> USE DEF StringsInv
<1>1. CountsFit /\ ~init_active /\ ~reset
  BY DEF Design, SendInv
<1>2. flush_timer \in 0 .. 5
  BY CountTypes
<1>3. frame_active' /\ (flush_timer > 0 => flush_timer' = flush_timer - 1)
  BY <1>1, <1>2, ReadingNext, FlushingNext
<1>4. Base' = Base /\ ~reset' /\ (flush_timer = 0 => flush_timer' \in {0, 5})
  BY <1>1, <1>3, PlaceStays
<1>5. ~h_blank' /\ ~h_blank_q' /\ ~init_active'
  BY <1>1 DEF Tick, FrameControl, StartsFrame, DelayBlank, InitPixels
<1>6. QED
  BY <1>1, <1>3, <1>4, <1>5

LEMMA DealingSends ==
  ASSUME Design, StringsInv, Tick, frame_active, Dealing, ~h_blank, ~h_blank_q,
         flush_timer # 3
  PROVE  SendInv'
<1> USE DEF StringsInv
<1>1. /\ ~init_active /\ Base \in {0, 1} /\ Taken \in Nat
      /\ \A s \in Strings : Loads(s) <=> Offering /\ s = Turn /\ T(Turn) = 0
      /\ \A s \in Strings : Sent(Base, s, CountOf(s, Turn, Round) + One(Loads(s)))
  BY DealSent
<1>2. flush_timer # 1 /\ flush_timer # 2
  BY DEF Dealing
<1>3. /\ frame_active' /\ ~h_blank' /\ ~h_blank_q' /\ ~init_active' /\ ~reset'
      /\ Base' = Base
      /\ flush_timer > 0 => flush_timer' = flush_timer - 1
      /\ flush_timer = 0 => flush_timer' \in {0, 5}
  BY <1>2, DealControl
<1>4. flush_timer' \notin {1, 2}
  <2>1. flush_timer \in 0 .. 5
    BY CountTypes
  <2>2. QED
    BY <1>2, <1>3, <2>1
<1>5. Taken' = Taken + One(Offering /\ T(Turn) = 0)
  <2>1. Stepping
    BY <1>1, Steps
  <2>2. QED
    BY <1>3, <2>1, OfferingNext
<1>6. ASSUME NEW s \in Strings
      PROVE  Sent(Base, s, CountOf(s, Turn', Round'))
  <2>1. Turn' = Taken' % N_STRINGS /\ Round' = Taken' \div N_STRINGS
    BY DEF Turn, Round
  <2>2. Turn = Taken % N_STRINGS /\ Round = Taken \div N_STRINGS
    BY DEF Turn, Round
  <2>3. CASE Offering /\ T(Turn) = 0
    <3>1. Taken' = Taken + 1
      BY <1>5, <2>3 DEF One
    <3>2. One(Loads(s)) = IF s = Turn THEN 1 ELSE 0
      BY <1>1, <2>3 DEF One
    <3>3. CountOf(s, Turn', Round') = CountOf(s, Turn, Round) + One(Loads(s))
      BY <1>1, <2>1, <2>2, <3>1, <3>2, CountsNext
    <3>4. QED
      BY <1>1, <3>3
  <2>4. CASE ~(Offering /\ T(Turn) = 0)
    <3>1. Taken' = Taken
      BY <1>1, <1>5, <2>4 DEF One
    <3>2. Turn' = Turn /\ Round' = Round
      BY <2>1, <2>2, <3>1
    <3>3. One(Loads(s)) = 0
      BY <1>1, <2>4 DEF One
    <3>4. CountOf(s, Turn, Round) \in Nat
      <4>1. Round \in Nat
        BY <1>1, TurnAndRound DEF Round
      <4>2. QED
        BY <4>1 DEF CountOf
    <3>5. CountOf(s, Turn, Round) + One(Loads(s)) = CountOf(s, Turn', Round')
      BY <3>2, <3>3, <3>4
    <3>6. QED
      BY <1>1, <3>5
  <2>5. QED
    BY <2>3, <2>4
<1>7. QED
  BY <1>3, <1>4, <1>6 DEF SendInv, Sends, Sent, CountOf

-----------------------------------------------------------------------------
(* The end of a frame                                                      *)

LEMMA LastSends ==
  ASSUME Design, StringsInv, Tick, frame_active, ~h_blank, ~h_blank_q, flush_timer = 3
  PROVE  SendInv'
<1> USE DEF StringsInv
<1>1. Dealing
  BY DEF Dealing
<1>2. /\ ~init_active /\ Base \in {0, 1} /\ Taken \in Nat /\ ~reset
      /\ \A s \in Strings : Loads(s) <=> Offering /\ s = Turn /\ T(Turn) = 0
      /\ \A s \in Strings : Sent(Base, s, CountOf(s, Turn, Round) + One(Loads(s)))
  BY <1>1, DealSent DEF SendInv
<1>3. /\ frame_active' /\ ~h_blank' /\ ~h_blank_q' /\ ~init_active' /\ ~reset'
      /\ Base' = Base /\ flush_timer' = 2
  BY DealControl
<1>4. Offering /\ In = W /\ ~fifo_data_valid /\ ~flush_shift_reg
  BY <1>1 DEF OfferInv, Offered, PipeInv, InStep
<1>5. Taken = L * N_STRINGS - 2
  BY <1>4, LastPixel DEF Taken
<1>6. N_STRINGS \in Nat /\ N_STRINGS >= 3 /\ L \in Nat /\ L >= 1
  BY Sizes DEF Design
<1>7. Turn = N_STRINGS - 2 /\ Round = L - 1
  <2>1. Taken = N_STRINGS * (L - 1) + (N_STRINGS - 2)
    BY <1>5, <1>6, SMT
  <2>2. N_STRINGS - 2 \in 0 .. N_STRINGS - 1 /\ L - 1 \in Nat
    BY <1>6
  <2>3. QED
    <3>1. PICK k, r : k = L - 1 /\ r = N_STRINGS - 2
      OBVIOUS
    <3>2. N_STRINGS \in Nat \ {0} /\ k \in Nat /\ r \in 0 .. N_STRINGS - 1
      BY <1>6, <2>2, <3>1
    <3>3. (N_STRINGS * k + r) % N_STRINGS = r /\ (N_STRINGS * k + r) \div N_STRINGS = k
      BY <3>2, ModUnique
    <3>4. QED
      BY <2>1, <3>1, <3>3 DEF Turn, Round
<1>8. Taken % 2 = 0
  <2>1. L * N_STRINGS = N_STRINGS * L
    BY <1>6, SMT
  <2>2. (N_STRINGS * L) % 2 = 0
    BY EvenAssumption DEF EvenAssumption, L
  <2>3. PICK e : e = L * N_STRINGS
    OBVIOUS
  <2>4. e \in Nat /\ e % 2 = 0 /\ Taken = e - 2
    BY <1>5, <2>1, <2>2, <2>3, LastPixel
  <2>5. QED
    BY <1>2, <2>4, SMT
<1>9. T(Turn) = 0 /\ N_STRINGS - 2 \in Strings /\ T(N_STRINGS - 2)' = PixelTicks
  <2>1. N_STRINGS - 2 \in Strings
    BY <1>6 DEF Strings
  <2>2. Convoy
    BY <1>1 DEF ConvoyInv
  <2>3. Latency = 0
    BY <1>4 DEF Latency
  <2>4. Waiting[Turn] <= 0
    BY <1>6, <1>7, <1>8, <2>2, <2>3 DEF Convoy, ConvoyOf
  <2>5. T(N_STRINGS - 2) <= 0 /\ T(N_STRINGS - 2) \in Nat
    BY <1>2, <1>7, <2>1, <2>4, StringNext DEF Waiting
  <2>6. T(N_STRINGS - 2) = 0
    BY <2>5
  <2>7. Loads(N_STRINGS - 2)
    BY <1>2, <1>4, <1>7, <2>1, <2>6
  <2>8. T(N_STRINGS - 2)' = PixelTicks
    BY <2>1, <2>7, StringNext
  <2>9. QED
    BY <1>7, <2>1, <2>6, <2>8
<1>10. \A s \in Strings : Sent(Base, s, Share(Base, s))
  <2> TAKE s \in Strings
  <2>1. s \in 0 .. N_STRINGS - 1
    BY DEF Strings
  <2>2. One(Loads(s)) = IF s = N_STRINGS - 2 THEN 1 ELSE 0
    BY <1>2, <1>4, <1>7, <1>9 DEF One
  <2>3. CountOf(s, Turn, Round) = IF s < N_STRINGS - 2 THEN L ELSE L - 1
    BY <1>6, <1>7 DEF CountOf
  <2>4. Share(Base, s) = IF s = N_STRINGS - 1 THEN L - 1 ELSE L
    BY <1>2 DEF Share
  <2>5. CountOf(s, Turn, Round) + One(Loads(s)) = Share(Base, s)
    BY <1>6, <2>1, <2>2, <2>3, <2>4
  <2>6. QED
    BY <1>2, <2>5
<1>11. shift_data_valid' = {}
  <2>1. destination[2] = PixelAt(Due) % N_STRINGS
    BY DEF PipeInv, InStep, Delayed
  <2>2. Due = W
    <3>1. One(fifo_data_valid) = 0 /\ One(ord_q) \in {0, 1}
      BY <1>4 DEF One
    <3>2. Got = W
      BY PlaceFlushing
    <3>3. QED
      BY <1>4, <3>1, <3>2, Sizes DEF In, Due
  <2>3. destination[2] = Turn
    BY <1>4, <2>1, <2>2 DEF Turn, Taken
  <2>4. Ready(destination[2])
    BY <1>7, <1>9, <2>3, StringNext
  <2>5. QED
    BY <1>2, <1>4, <2>4, ShiftCases
<1>12. T(N_STRINGS - 2)' > 2
  BY <1>9, PulseNumbers DEF Design
<1>13. QED
  BY <1>3, <1>10, <1>11, <1>12 DEF SendInv, Dealing, Sends, Sent

LEMMA FlushSends ==
  ASSUME Design, StringsInv, Tick, frame_active, flush_timer \in {1, 2}
  PROVE  SendInv'
<1> USE DEF StringsInv
<1>1. /\ \A s \in Strings : Sends(Base, s, Share(Base, s))
      /\ ~h_blank /\ ~h_blank_q /\ ~init_active /\ ~reset
      /\ flush_timer = 2 => shift_data_valid = {} /\ T(N_STRINGS - 2) > 2
      /\ flush_timer = 1 => shift_data_valid = {N_STRINGS - 2} /\ T(N_STRINGS - 2) > 1
  BY DEF SendInv
<1>2. N_STRINGS - 2 \in Strings
  BY Sizes DEF Strings
<1>3. \A s \in Strings : ~Loads(s)
  BY <1>1 DEF Loads, pxl_data_valid
<1>4. T(N_STRINGS - 2)' = T(N_STRINGS - 2) - 1 /\ T(N_STRINGS - 2) \in Nat
  BY <1>1, <1>2, <1>3, StringNext
<1>5. Base \in {0, 1} /\ Got = W
  BY PlaceFlushing
<1>6. \A s \in Strings : Sent(Base, s, Share(Base, s))
  BY <1>1, <1>3, <1>5, Quiet, ShareIs
<1>7. In = W /\ (flush_shift_reg <=> flush_timer = 2) /\ Delayed
  BY DEF PipeInv, InStep
<1>8. ~fifo_data_valid /\ Due = W
  <2>1. PICK o, v : o = One(ord_q) /\ v = One(fifo_data_valid)
    OBVIOUS
  <2>2. o \in {0, 1} /\ v \in {0, 1} /\ (v = 0 <=> ~fifo_data_valid)
    BY <2>1 DEF One
  <2>3. In = Due - v /\ Due = Got - o
    BY <2>1 DEF In, Due
  <2>4. v = 0 /\ Due = W
    BY <1>5, <1>7, <2>2, <2>3, Sizes
  <2>5. QED
    BY <2>2, <2>4
<1>9. CASE flush_timer = 2
  <2>1. /\ frame_active' /\ ~h_blank' /\ ~h_blank_q' /\ ~init_active' /\ ~reset'
        /\ Base' = Base /\ flush_timer' = 1
    BY <1>1, <1>9, DealControl
  <2>2. completes[2] /\ destination[2] = N_STRINGS - 2
    <3>1. completes[2] = Completes(W)
      BY <1>7 DEF Delayed
    <3>2. Completes(W)
      BY LastPixel, Sizes DEF Completes
    <3>3. destination[2] = (L * N_STRINGS - 2) % N_STRINGS
      BY <1>7, <1>8, LastPixel DEF Delayed
    <3>4. (L * N_STRINGS - 2) % N_STRINGS = N_STRINGS - 2
      <4>1. N_STRINGS \in Nat \ {0} /\ L - 1 \in Nat /\ N_STRINGS - 2 \in 0 .. N_STRINGS - 1
        BY Sizes
      <4>2. L * N_STRINGS - 2 = N_STRINGS * (L - 1) + (N_STRINGS - 2)
        BY Sizes, SMT
      <4>3. QED
        BY <4>1, <4>2, ModUnique
    <3>5. QED
      BY <3>1, <3>2, <3>3, <3>4
  <2>3. shift_data_valid' = {N_STRINGS - 2}
    BY <1>1, <1>7, <1>9, <2>2, ShiftCases
  <2>4. T(N_STRINGS - 2)' > 1
    BY <1>1, <1>4, <1>9
  <2>5. QED
    BY <1>6, <2>1, <2>3, <2>4 DEF SendInv, Dealing, Sends, Sent
<1>10. CASE flush_timer = 1
  <2>1. ~frame_active' /\ ~h_blank' /\ ~h_blank_q' /\ ~init_active' /\ ~reset'
    BY <1>1, <1>10 DEF Tick, FrameControl, StartsFrame, DelayBlank, InitPixels
  <2>2. Whole'
    BY <1>5, <1>6 DEF Whole, Sends, Sent
  <2>3. shift_data_valid' \subseteq {N_STRINGS - 2}
    BY <1>1, <1>7, <1>8, <1>10, ShiftCases
  <2>4. T(N_STRINGS - 2)' > 0
    BY <1>1, <1>4, <1>10
  <2>5. QED
    BY <2>1, <2>2, <2>3, <2>4 DEF SendInv, Dealing
<1>11. QED
  BY <1>9, <1>10

LEMMA SendNext ==
  ASSUME Design, StringsInv, Tick
  PROVE  SendInv'
<1>1. CASE init_active
  BY <1>1, ClearingNext
<1>2. CASE ~init_active /\ ~frame_active
  BY <1>2, IdleSends
<1>3. CASE frame_active /\ (h_blank \/ h_blank_q)
  BY <1>3, BlankingSends
<1>4. CASE frame_active /\ ~h_blank /\ ~h_blank_q
  <2>1. CASE flush_timer \in {1, 2}
    BY <1>4, <2>1, FlushSends
  <2>2. CASE flush_timer = 3
    BY <1>4, <2>2, LastSends
  <2>3. CASE flush_timer \notin {1, 2, 3}
    <3>1. Dealing
      BY <1>4, <2>3 DEF Dealing
    <3>2. QED
      BY <1>4, <2>3, <3>1, DealingSends
  <2>4. QED
    BY <2>1, <2>2, <2>3
<1>5. QED
  BY <1>1, <1>2, <1>3, <1>4

-----------------------------------------------------------------------------
(* The invariant                                                           *)

LEMMA StringsInit ==
  ASSUME Init
  PROVE  StringsInv
<1> USE DEF IDLE, BIT_HIGH, BIT_LOW, HBLANK
<1>1. TypeOK /\ CountInv
  BY CountInit
<1>2. InitColor \in Seq(Nat) /\ Blank \in Seq(Nat) /\ Len(Blank) = 6
  BY BlankIs
<1>3. PICK d : d = DriverAtPowerUp(InitColor)
  OBVIOUS
<1>4. /\ d.shift_reg = [pixel |-> InitColor, shifts |-> 0] /\ d.bit_count = 0
      /\ d.shift_start = FALSE /\ d.shift_done = FALSE
      /\ d.shift_ready = TRUE /\ d.blank_ready = TRUE /\ d.bit_state = IDLE
  BY <1>3, WidthAssumption DEF DriverAtPowerUp, Shifted, WidthAssumption
<1>5. d \in Drivers(Seq(Nat))
  BY <1>2, <1>3, WidthAssumption DEF DriverAtPowerUp, Shifted, WidthAssumption, Drivers
<1>6. \A s \in Strings : drivers[s] = d /\ line[s] = <<>>
  BY <1>3 DEF Init
<1>7. WireTypes
  <2>1. drivers \in [Strings -> Drivers(Seq(Nat))]
    BY <1>3, <1>5 DEF Init
  <2>2. <<>> \in Seq([pixel : Seq(Nat), shifts : 0 .. DATA_WIDTH])
    OBVIOUS
  <2>3. line \in [Strings -> Seq([pixel : Seq(Nat), shifts : 0 .. DATA_WIDTH])]
    BY <2>2 DEF Init
  <2>4. QED
    BY <1>2, <2>1, <2>3 DEF Init, WireTypes
<1>8. PipeInv
  BY DEF Init, PipeInv, AtRest
<1>9. OfferInv /\ ConvoyInv
  <2>1. DriverSound(d) /\ Busy(d)
    BY <1>4 DEF DriverSound, Busy
  <2>2. QED
    BY <1>6, <2>1 DEF Init, OfferInv, ConvoyInv, Dealing
<1>10. SendInv
  <2>1. Cleared = 0
    <3>1. init_pixels_remaining = L /\ One(init_data_valid) = 0
      BY DEF Init, One, L
    <3>2. QED
      BY <3>1, Sizes DEF Cleared
  <2>2. \A s \in Strings : Sends(2, s, Cleared)
    BY <1>4, <1>6, <2>1, OnWireBlanked DEF Sends
  <2>3. Clearing
    BY <2>2 DEF Init, Clearing, L
  <2>4. QED
    BY <2>3 DEF Init, SendInv, Dealing
<1>11. QED
  BY <1>1, <1>7, <1>8, <1>9, <1>10 DEF StringsInv

LEMMA StringsUnchanged ==
  ASSUME StringsInv, UNCHANGED vars
  PROVE  StringsInv'
<1> USE DEF StringsInv, vars, frameVars, readVars, delayVars, shiftVars, initVars, fifoVars
<1>1. TypeOK' /\ CountInv'
  BY CountUnchanged
<1>2. /\ Base' = Base /\ Got' = Got /\ Asked' = Asked /\ Due' = Due /\ In' = In
      /\ Offering' = Offering
  BY DEF Base, Got, Asked, Due, In, Offering
<1>3. Taken' = Taken /\ Turn' = Turn /\ Round' = Round /\ \A s : T(s)' = T(s)
  BY <1>2 DEF Taken, Turn, Round, T
<1>4. WireTypes'
  BY DEF WireTypes
<1>5. PipeInv'
  <2>1. Delayed => Delayed'
    BY <1>2 DEF Delayed
  <2>2. Counted => Counted'
    BY <1>2 DEF Counted
  <2>3. Held => Held'
    BY <1>2 DEF Held
  <2>4. InStep => InStep'
    BY <1>2, <2>1, <2>2, <2>3 DEF InStep
  <2>5. AtRest => AtRest'
    BY DEF AtRest
  <2>6. QED
    BY <2>4, <2>5 DEF PipeInv
<1>6. OfferInv'
  BY <1>2, <1>3 DEF OfferInv, Offered, Dealing
<1>7. ConvoyInv'
  <2>1. Latency' = Latency
    BY <1>2 DEF Latency
  <2>2. Room' = Room
    BY <1>2, <1>3 DEF Room
  <2>3. Waiting' = Waiting
    BY <1>3 DEF Waiting
  <2>4. QED
    BY <1>2, <1>3, <2>1, <2>2, <2>3 DEF ConvoyInv, Convoy, ConvoyOf, Dealing
<1>8. SendInv'
  <2>1. \A f, s, n : Sends(f, s, n)' <=> Sends(f, s, n)
    BY DEF Sends
  <2>2. (Whole' <=> Whole) /\ (AllReady' <=> AllReady)
    BY <2>1 DEF Whole, Sends, AllReady
  <2>3. Clearing => Clearing'
    BY <2>1, <2>2 DEF Clearing, Cleared, Sends, AllReady
  <2>4. Blanking => Blanking'
    BY <1>2, <2>2 DEF Blanking
  <2>5. QED
    BY <1>2, <1>3, <2>2, <2>3, <2>4 DEF SendInv, Dealing, Sends
<1>9. QED
  BY <1>1, <1>4, <1>5, <1>6, <1>7, <1>8

\* The five layers hold together at every edge, from the reset on: the counting of words,
\* the words on their way, the pixel on offer, the order of the strings and what they
\* have been sent (parallel_strings.v:62-290, string_driver.v:40-150).
THEOREM StringsInvariant ==
  ASSUME Design
  PROVE  Spec => []StringsInv
<1>1. Init => StringsInv
  BY StringsInit
<1>2. StringsInv /\ [Next]_vars => StringsInv'
  <2> SUFFICES ASSUME StringsInv, [Next]_vars
               PROVE  StringsInv'
    OBVIOUS
  <2>1. CASE Tick
    <3>1. CountsFit /\ TypeOK /\ CountInv /\ WireTypes /\ PipeInv
      BY DEF Design, StringsInv
    <3>2. TypeOK' /\ CountInv' /\ WireTypes' /\ PipeInv'
      BY <2>1, <3>1, TypesNext, CountNext, WireTypesNext, PipeNext
    <3>3. OfferInv' /\ ConvoyInv' /\ SendInv'
      BY <2>1, OfferNext, ConvoyNext, SendNext
    <3>4. QED
      BY <3>2, <3>3 DEF StringsInv
  <2>2. CASE UNCHANGED vars
    BY <2>2, StringsUnchanged
  <2>3. QED
    BY <2>1, <2>2 DEF Next
<1>3. QED
  BY <1>1, <1>2, PTL DEF Spec

-----------------------------------------------------------------------------
(* From the invariant to the wires                                         *)

Bits == [pixel : Seq(Nat), shifts : 0 .. DATA_WIDTH]

LEMMA PixelTypes ==
  ASSUME NEW f \in 0 .. 2, NEW s \in Strings, NEW i \in Nat
  PROVE  PixelFor(f, s, i) \in Seq(Nat)
<1>1. CASE f = 2
  BY <1>1, BlankIs DEF PixelFor
<1>2. CASE f # 2
  <2>1. f * TOTAL_PIXEL_BYTES \in Nat
    <3>1. TOTAL_PIXEL_BYTES \in Nat
      BY Sizes
    <3>2. f \in Nat
      OBVIOUS
    <3>3. QED
      BY <3>1, <3>2, Times
  <2>2. i * N_STRINGS \in Nat /\ s \in Nat
    BY Sizes, Times DEF Strings
  <2>3. PICK first \in Nat : first = f * TOTAL_PIXEL_BYTES + 3 * (i * N_STRINGS + s)
    BY <2>1, <2>2
  <2>4. PixelFor(f, s, i) = <<first, first + 1, first + 2>>
    BY <1>2, <2>3 DEF PixelFor, PixelOf
  <2>5. QED
    BY <2>3, <2>4
<1>3. QED
  BY <1>1, <1>2

LEMMA NotTooMany ==
  ASSUME NEW d \in Drivers(Seq(Nat)), DriverSound(d), Busy(d)
  PROVE  BitsSent(d) \in 0 .. DATA_WIDTH
<1>1. /\ d.shift_reg.shifts \in 0 .. DATA_WIDTH /\ d.bit_count \in 0 .. DATA_WIDTH - 1
      /\ d.shift_start \in BOOLEAN /\ d.shift_ready \in BOOLEAN
      /\ DATA_WIDTH \in Nat
  BY WidthAssumption DEF Drivers, WidthAssumption
<1>2. CASE d.shift_ready
  BY <1>1, <1>2 DEF BitsSent
<1>3. CASE ~d.shift_ready
  <2>1. d.shift_start \/ d.shift_done \/ d.bit_state # IDLE
    BY <1>3 DEF Busy
  <2>2. d.bit_count + d.shift_reg.shifts = DATA_WIDTH - 1
    BY <1>3, <2>1 DEF DriverSound
  <2>3. QED
    BY <1>1, <1>3, <2>2 DEF BitsSent
<1>4. QED
  BY <1>2, <1>3

LEMMA Prefix ==
  ASSUME NEW bits \in Seq(Bits), NEW whole,
         NEW m \in Nat, whole \in [1 .. m -> Bits], Len(bits) <= m,
         \A j \in 1 .. Len(bits) : bits[j] = whole[j]
  PROVE  IsPrefix(bits, whole)
<1>1. whole \in Seq(Bits) /\ Len(whole) = m
  <2>1. whole \in Seq(Bits)
    BY SeqDef
  <2>2. Len(whole) \in Nat /\ 1 .. Len(whole) = 1 .. m
    BY <2>1, LenProperties
  <2>3. QED
    BY <2>1, <2>2
<1>2. Len(bits) \in Nat /\ \A j \in 1 .. Len(bits) : bits[j] \in Bits
  BY LenProperties, ElementOfSeq
<1>3. PICK n \in Nat : n = Len(bits)
  BY <1>2
<1>4. /\ SubSeq(bits, 1, n) \in Seq(Bits) /\ Len(SubSeq(bits, 1, n)) = n
      /\ \A j \in 1 .. n : SubSeq(bits, 1, n)[j] = bits[j]
  BY <1>2, <1>3, SubSeqProperties
<1>5. \A j \in 1 .. n : whole[j] \in Bits
  BY <1>2, <1>3
<1>6. /\ SubSeq(whole, 1, n) \in Seq(Bits) /\ Len(SubSeq(whole, 1, n)) = n
      /\ \A j \in 1 .. n : SubSeq(whole, 1, n)[j] = whole[j]
  BY <1>5, SubSeqProperties
<1>7. PICK a, b : a = SubSeq(bits, 1, n) /\ b = SubSeq(whole, 1, n)
  OBVIOUS
<1>8. a = b
  <2>1. a \in Seq(Bits) /\ b \in Seq(Bits) /\ Len(a) = n /\ Len(b) = n
    BY <1>4, <1>6, <1>7
  <2>2. \A j \in 1 .. Len(a) : a[j] = b[j]
    BY <1>3, <1>4, <1>6, <1>7, <2>1
  <2>3. QED
    BY <2>1, <2>2, SeqEqual
<1>9. QED
  BY <1>1, <1>3, <1>7, <1>8 DEF IsPrefix

LEMMA WirePrefix ==
  ASSUME WireTypes, OfferInv, NEW f \in 0 .. 2, NEW s \in Strings, NEW n \in 0 .. L,
         Sends(f, s, n)
  PROVE  IsPrefix(line[s], BitsOf([i \in 0 .. L - 1 |-> PixelFor(f, s, i)]))
<1>1. line[s] \in Seq(Bits) /\ drivers[s] \in Drivers(Seq(Nat))
  BY DEF WireTypes, Bits
<1>2. PICK b \in 0 .. DATA_WIDTH : b = BitsSent(drivers[s])
  <2>1. PICK d \in Drivers(Seq(Nat)) : d = drivers[s]
    BY <1>1
  <2>2. DriverSound(d) /\ Busy(d)
    BY <2>1 DEF OfferInv
  <2>3. QED
    BY <2>1, <2>2, NotTooMany
<1>3. /\ Len(line[s]) = (n - 1) * DATA_WIDTH + b
      /\ \A j \in 1 .. Len(line[s]) :
           line[s][j] = Shifted(PixelFor(f, s, (j - 1) \div DATA_WIDTH), (j - 1) % DATA_WIDTH)
  BY <1>2 DEF Sends, OnWire
<1>4. DATA_WIDTH \in Nat \ {0} /\ L \in Nat /\ L >= 1
  BY WidthAssumption, Sizes DEF WidthAssumption
<1>5. PICK m \in Nat : m = L * DATA_WIDTH
  BY <1>4, Times
<1>6. Len(line[s]) <= m /\ Len(line[s]) \in Nat
  <2>1. Len(line[s]) \in Nat
    BY <1>1, LenProperties
  <2>2. (n - 1) * DATA_WIDTH + DATA_WIDTH = n * DATA_WIDTH
    BY <1>4, SMT
  <2>3. L - n \in Nat /\ (L - n) * DATA_WIDTH \in Nat
    BY <1>4, Times
  <2>4. L * DATA_WIDTH = n * DATA_WIDTH + (L - n) * DATA_WIDTH
    BY <1>4, SMT
  <2>5. PICK x, y, z : /\ x = (n - 1) * DATA_WIDTH /\ y = n * DATA_WIDTH
                       /\ z = (L - n) * DATA_WIDTH
    OBVIOUS
  <2>6. x \in Int /\ y \in Int /\ z \in Nat
    BY <1>4, <2>3, <2>5
  <2>7. x + DATA_WIDTH = y /\ m = y + z /\ Len(line[s]) = x + b
    BY <1>3, <1>5, <2>2, <2>4, <2>5
  <2>8. PICK len \in Nat : len = Len(line[s])
    BY <2>1
  <2>9. len <= m
    BY <1>4, <2>6, <2>7, <2>8
  <2>10. QED
    BY <2>8, <2>9
<1>7. \A j \in 1 .. m : (j - 1) \div DATA_WIDTH \in 0 .. L - 1 /\ (j - 1) % DATA_WIDTH \in Nat
  <2> TAKE j \in 1 .. m
  <2>1. PICK q, r : q = (j - 1) \div DATA_WIDTH /\ r = (j - 1) % DATA_WIDTH
    OBVIOUS
  <2>2. j - 1 \in Nat
    OBVIOUS
  <2>3. r \in 0 .. DATA_WIDTH - 1 /\ q \in Nat /\ j - 1 = DATA_WIDTH * q + r
    BY <1>4, <2>1, <2>2, Euclid
  <2>4. q < L
    <3>1. SUFFICES ASSUME q >= L
                   PROVE  FALSE
      BY <1>4, <2>3
    <3>2. q - L \in Nat /\ (q - L) * DATA_WIDTH \in Nat
      BY <1>4, <2>3, <3>1, Times
    <3>3. DATA_WIDTH * q = L * DATA_WIDTH + (q - L) * DATA_WIDTH
      BY <1>4, <2>3, SMT
    <3>4. PICK x \in Nat : x = (q - L) * DATA_WIDTH
      BY <3>2
    <3>5. j - 1 = m + x + r
      BY <1>5, <2>3, <3>3, <3>4
    <3>6. QED
      BY <1>4, <2>3, <3>4, <3>5
  <2>5. QED
    BY <1>4, <2>1, <2>3, <2>4
<1>8. PICK pixels : pixels = [i \in 0 .. L - 1 |-> PixelFor(f, s, i)]
  OBVIOUS
<1>9. PICK whole : whole = [j \in 1 .. m |-> Shifted(pixels[(j - 1) \div DATA_WIDTH],
                                                      (j - 1) % DATA_WIDTH)]
  OBVIOUS
<1>10. BitsOf(pixels) = whole
  BY <1>5, <1>9 DEF BitsOf, L
<1>11. \A j \in 1 .. m :
         whole[j] = Shifted(PixelFor(f, s, (j - 1) \div DATA_WIDTH), (j - 1) % DATA_WIDTH)
  BY <1>7, <1>8, <1>9
<1>12. \A j \in 1 .. m : whole[j] \in Bits
  <2> TAKE j \in 1 .. m
  <2>1. PICK q \in 0 .. L - 1, r \in Nat : q = (j - 1) \div DATA_WIDTH /\ r = (j - 1) % DATA_WIDTH
    BY <1>7
  <2>2. PixelFor(f, s, q) \in Seq(Nat)
    <3>1. q \in Nat
      BY <2>1
    <3>2. QED
      BY <3>1, PixelTypes
  <2>3. whole[j] = Shifted(PixelFor(f, s, q), r)
    BY <1>11, <2>1
  <2>4. QED
    BY <1>4, <2>1, <2>2, <2>3 DEF Shifted, Bits
<1>13. whole \in [1 .. m -> Bits]
  BY <1>9, <1>12
<1>14. \A j \in 1 .. Len(line[s]) : line[s][j] = whole[j]
  <2> TAKE j \in 1 .. Len(line[s])
  <2>1. j \in 1 .. m
    BY <1>6
  <2>2. whole[j] = Shifted(PixelFor(f, s, (j - 1) \div DATA_WIDTH), (j - 1) % DATA_WIDTH)
    BY <1>11, <2>1
  <2>3. line[s][j] = Shifted(PixelFor(f, s, (j - 1) \div DATA_WIDTH), (j - 1) % DATA_WIDTH)
    BY <1>3
  <2>4. QED
    BY <2>2, <2>3, Zenon
<1>15. IsPrefix(line[s], whole)
  BY <1>1, <1>5, <1>6, <1>13, <1>14, Prefix
<1>16. QED
  BY <1>8, <1>10, <1>15

LEMMA PixelsInOrder ==
  ASSUME NEW r \in Nat, NEW q \in Nat, r <= q
  PROVE  PixelAt(r) <= PixelAt(q)
BY SMT DEF PixelAt

\* No string is dealt more pixels than it has LEDs.
LEMMA RoundsFit ==
  ASSUME StringsInv, frame_active, Dealing
  PROVE  Round \in 0 .. L - 1
<1> USE DEF StringsInv
<1>1. PICK o, v : o = One(ord_q) /\ v = One(fifo_data_valid)
  OBVIOUS
<1>2. o \in {0, 1} /\ v \in {0, 1} /\ (ord_q => o = 1) /\ (fifo_data_valid => v = 1)
  BY <1>1 DEF One
<1>3. In = (Got - o) - v
  BY <1>1 DEF In, Due
<1>4. In >= 0 /\ Offered /\ (flush_timer = 5 => ord_q) /\ (flush_timer = 4 => fifo_data_valid)
      /\ (flush_timer = 3 => Offering)
  BY DEF PipeInv, InStep, OfferInv, Offered
<1>5. flush_timer \in {0, 3, 4, 5}
  <2>1. flush_timer \in 0 .. 5
    BY CountTypes
  <2>2. QED
    BY <2>1 DEF Dealing
<1>6. Got \in 0 .. W /\ (flush_timer = 0 => Got <= W - 1)
  BY PlaceReading, PlaceFlushing, Sizes
<1>7. In \in Nat /\ In <= W /\ (~Offering => In + 1 <= W)
  BY <1>2, <1>3, <1>4, <1>5, <1>6, Sizes
<1>8. PixelAt(W) = L * N_STRINGS - 2 /\ L * N_STRINGS \in Nat
  BY LastPixel
<1>9. Taken \in Nat /\ Taken <= PixelAt(W)
  <2>1. PixelAt(In) \in Nat /\ PixelAt(In + 1) \in Nat
    BY <1>7, PixelNext
  <2>2. W \in Nat
    BY Sizes
  <2>3. CASE Offering
    <3>1. PixelAt(In) <= PixelAt(W)
      BY <1>7, <2>2, PixelsInOrder
    <3>2. QED
      BY <2>1, <2>3, <3>1 DEF Taken
  <2>4. CASE ~Offering
    <3>1. PICK r \in Nat : r = In + 1
      BY <1>7
    <3>2. PixelAt(r) <= PixelAt(W)
      BY <1>7, <2>2, <2>4, <3>1, PixelsInOrder
    <3>3. QED
      BY <2>1, <2>4, <3>1, <3>2 DEF Taken
  <2>5. QED
    BY <2>3, <2>4
<1>10. Round \in Nat /\ Turn \in 0 .. N_STRINGS - 1 /\ Taken = N_STRINGS * Round + Turn
  BY <1>9, TurnAndRound DEF Round, Turn
<1>11. SUFFICES ASSUME Round >= L
                PROVE  FALSE
  BY <1>10, Sizes
<1>12. L \in Nat /\ N_STRINGS \in Nat
  BY Sizes
<1>13. Round - L \in Nat /\ (Round - L) * N_STRINGS \in Nat
  BY <1>10, <1>11, <1>12, Times
<1>14. N_STRINGS * Round = L * N_STRINGS + (Round - L) * N_STRINGS
  BY <1>10, <1>12, SMT
<1>15. PICK x, y : x = L * N_STRINGS /\ y = (Round - L) * N_STRINGS
  OBVIOUS
<1>16. x \in Nat /\ y \in Nat /\ Taken = x + y + Turn /\ Taken <= x - 2
  <2>1. N_STRINGS * Round = x + y
    BY <1>14, <1>15
  <2>2. QED
    BY <1>8, <1>9, <1>10, <1>13, <1>15, <2>1
<1>17. QED
  BY <1>10, <1>12, <1>16

LEMMA SomeFrame ==
  ASSUME StringsInv
  PROVE  \E f \in 0 .. 2 : \A s \in Strings : \E n \in 0 .. L : Sends(f, s, n)
<1> USE DEF StringsInv
<1>1. \A f, s : Share(f, s) \in 0 .. L
  BY Sizes DEF Share
<1>2. CASE init_active
  <2>1. \A s \in Strings : Sends(2, s, Cleared)
    BY <1>2 DEF SendInv, Clearing
  <2>2. Cleared \in 0 .. L
    <3>1. init_pixels_remaining \in 0 .. L /\ (init_data_valid => init_pixels_remaining < L)
      BY <1>2 DEF SendInv, Clearing, TypeOK, L
    <3>2. CASE init_data_valid
      <4>1. Cleared = L - init_pixels_remaining - 1
        BY <3>2 DEF Cleared, One
      <4>2. QED
        BY <3>1, <3>2, <4>1, Sizes
    <3>3. CASE ~init_data_valid
      <4>1. Cleared = L - init_pixels_remaining - 0
        BY <3>3 DEF Cleared, One
      <4>2. QED
        BY <3>1, <4>1, Sizes
    <3>4. QED
      BY <3>2, <3>3
  <2>3. QED
    BY <2>1, <2>2
<1>3. ASSUME Whole
      PROVE  \E f \in 0 .. 2 : \A s \in Strings : \E n \in 0 .. L : Sends(f, s, n)
  BY <1>1, <1>3 DEF Whole
<1>4. CASE ~init_active /\ ~frame_active
  BY <1>3, <1>4 DEF SendInv
<1>5. CASE frame_active
  <2>1. Base \in 0 .. 2
    BY <1>5, PlaceReading, PlaceFlushing
  <2>2. CASE h_blank \/ h_blank_q
    BY <1>3, <1>5, <2>2 DEF SendInv, Blanking
  <2>3. CASE ~h_blank /\ ~h_blank_q /\ Dealing
    <3>1. \A s \in Strings : Sends(Base, s, IF s < Turn THEN Round + 1 ELSE Round)
      BY <2>3 DEF SendInv
    <3>2. \A s \in Strings : (IF s < Turn THEN Round + 1 ELSE Round) \in 0 .. L
      <4>1. Round \in 0 .. L - 1
        BY <1>5, <2>3, RoundsFit
      <4>2. QED
        BY <4>1, Sizes
    <3>3. QED
      BY <2>1, <3>1, <3>2
  <2>4. CASE ~Dealing
    <3>1. \A s \in Strings : Sends(Base, s, Share(Base, s))
      BY <1>5, <2>4 DEF SendInv, Dealing
    <3>2. QED
      BY <1>1, <2>1, <3>1
  <2>5. QED
    BY <2>2, <2>3, <2>4
<1>6. QED
  BY <1>2, <1>4, <1>5

LEMMA BitsInPlace ==
  ASSUME StringsInv
  PROVE  EveryBitInPlace
<1>1. PICK f \in 0 .. 2 : \A s \in Strings : \E n \in 0 .. L : Sends(f, s, n)
  BY SomeFrame
<1>2. \A s \in Strings :
        IsPrefix(line[s], BitsOf([i \in 0 .. L - 1 |-> PixelFor(f, s, i)]))
  BY <1>1, WirePrefix DEF StringsInv
<1>3. CASE f = 2
  <2>1. \A s \in Strings :
          [i \in 0 .. L - 1 |-> PixelFor(f, s, i)] = [i \in 0 .. L - 1 |-> InitColor]
    BY <1>3 DEF PixelFor
  <2>2. \A s \in Strings : IsPrefix(line[s], AllClear)
    BY <1>2, <2>1 DEF AllClear, L
  <2>3. QED
    BY <2>2 DEF EveryBitInPlace
<1>4. CASE f \in {0, 1}
  <2>1. ASSUME NEW s \in Strings
        PROVE  IsPrefix(line[s], Picture[f][s])
    <3>1. [i \in 0 .. L - 1 |-> PixelFor(f, s, i)] = [i \in 0 .. L - 1 |-> PixelOf(f, s, i)]
      BY <1>4 DEF PixelFor
    <3>2. Picture[f][s] = BitsOf([i \in 0 .. L - 1 |-> PixelOf(f, s, i)])
      BY <1>4 DEF Picture, L
    <3>3. QED
      BY <1>2, <3>1, <3>2
  <2>2. QED
    BY <1>4, <2>1 DEF EveryBitInPlace
<1>5. QED
  BY <1>3, <1>4

\* However many strings and LEDs there are, and whenever words arrive, every bit sent to a
\* string since its last blanking is in its place in one and the same frame, or one of
\* the bits that clear the LEDs after reset (parallel_strings.v:1-5, 165-290).
THEOREM EveryBit ==
  ASSUME Design
  PROVE  Spec => []EveryBitInPlace
<1>1. StringsInv => EveryBitInPlace
  BY BitsInPlace
<1>2. Spec => []StringsInv
  BY Design, StringsInvariant
<1>3. QED
  BY <1>1, <1>2, PTL

===============================================================================
