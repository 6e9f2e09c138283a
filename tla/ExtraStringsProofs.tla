-------------------------- MODULE ExtraStringsProofs --------------------------
(***************************************************************************)
(* Proofs about the white strings, for every width of a pixel, number of   *)
(* LEDs, set of colors and clock: whatever software writes and whenever    *)
(* the reset comes back.                                                   *)
(***************************************************************************)
EXTENDS ExtraStrings, StringDriverProofs, SequenceTheorems

Pixels == Colors \cup {Mixed}
LineBits == [pixel : Pixels, shifts : 0 .. DATA_WIDTH - 1]

-----------------------------------------------------------------------------
(* The invariant                                                           *)

\* A request for a blanking pulse finds no pixel, or only one that was loaded since.
BlankOnTime ==
  /\ h_blank => driver.shift_ready
  /\ h_blank_q => \/ driver.shift_ready
                  \/ driver.shift_start /\ driver.shift_reg.shifts = 0
                  \/ driver.bit_state = HBLANK

\* While the pulse lasts every other request for one passes, and the pixel waits.
BlankLasts ==
  driver.bit_state = HBLANK =>
    /\ line = <<>>
    /\ driver.tick_count <= kHBlankCount
    /\ h_blank => driver.tick_count = kHBlankCount
    /\ h_blank_q => driver.tick_count >= kHBlankCount - 1
    /\ driver.shift_start => driver.tick_count = kHBlankCount
    /\ ~driver.shift_ready => driver.shift_reg.shifts = 0

\* The bits on the line count modulo the width of a pixel, and so do the shifts of the
\* pixel that is being sent.
BitsCount(lost) ==
  LET sent == Len(line) + lost IN
  /\ \A j \in DOMAIN line : line[j].shifts = (j - 1 + lost) % DATA_WIDTH
  /\ driver.shift_ready => sent % DATA_WIDTH = 0
  /\ driver.bit_state = IDLE /\ driver.shift_start =>
       driver.shift_reg.shifts = sent % DATA_WIDTH
  /\ ~driver.shift_ready /\ (driver.bit_state # IDLE \/ driver.shift_done) =>
       sent >= 1 /\ driver.shift_reg.shifts = (sent - 1) % DATA_WIDTH

Counted == \E lost \in {0, 1} : BitsCount(lost)

ExtraInv ==
  /\ TypeOK
  /\ driver \in Drivers(Pixels) /\ DriverSound(driver)
  /\ BlankOnTime /\ BlankLasts /\ Counted

-----------------------------------------------------------------------------
(* The first state                                                         *)

LEMMA ZeroMod == 0 % DATA_WIDTH = 0
  BY WidthAssumption, ModUnique DEF WidthAssumption

LEMMA ModAfter ==
  ASSUME NEW n \in Nat, n >= 1, NEW w \in Nat \ {0}
  PROVE  n % w = IF (n - 1) % w = w - 1 THEN 0 ELSE ((n - 1) % w) + 1
<1>1. n - 1 \in Nat /\ (n - 1) + 1 = n
  OBVIOUS
<1>2. QED
  BY <1>1, ModNext

LEMMA InitHolds ==
  ASSUME Init
  PROVE  ExtraInv
<1> USE DEF IDLE, BIT_HIGH, BIT_LOW, HBLANK
<1>1. PICK c \in Colors : driver = DriverAtPowerUp(c)
  BY DEF Init
<1>2. /\ driver.shift_reg = [pixel |-> c, shifts |-> 0] /\ driver.bit_count = 0
      /\ driver.shift_start = FALSE /\ driver.shift_done = FALSE
      /\ driver.shift_ready = TRUE /\ driver.blank_ready = TRUE
      /\ driver.bit_state = IDLE
  BY <1>1, WidthAssumption DEF DriverAtPowerUp, Shifted, WidthAssumption
<1>3. driver \in Drivers(Pixels)
  BY <1>1, WidthAssumption DEF DriverAtPowerUp, Shifted, WidthAssumption, Drivers, Pixels
<1>4. DriverSound(driver)
  BY <1>2 DEF DriverSound
<1>5. TypeOK
  <2>1. <<>> \in Seq([pixel : Colors \cup {Mixed}, shifts : 0 .. DATA_WIDTH - 1])
    BY EmptySeq
  <2>2. {reset, frame_active, h_blank, h_blank_q, data_valid, do_init, color_valid, asked}
          \subseteq BOOLEAN
    BY DEF Init
  <2>3. 0 \in 0 .. N_LEDS_PER_STRING
    BY LedsAssumption DEF LedsAssumption
  <2>4. QED
    BY <2>1, <2>2, <2>3 DEF Init, TypeOK
<1>6. BlankOnTime /\ BlankLasts
  BY <1>2 DEF Init, BlankOnTime, BlankLasts
<1>7. line = <<>>
  BY DEF Init
<1>8. BitsCount(0)
  BY <1>2, <1>7, ZeroMod DEF BitsCount
<1>9. QED
  BY <1>3, <1>4, <1>5, <1>6, <1>8 DEF ExtraInv, Counted

-----------------------------------------------------------------------------
(* Software writes                                                         *)

LEMMA WriteKeeps ==
  ASSUME ExtraInv, WriteLow \/ WriteHigh
  PROVE  ExtraInv'
<1>1. /\ driver' = driver /\ line' = line /\ h_blank' = h_blank /\ h_blank_q' = h_blank_q
      /\ reset' = reset /\ frame_active' = frame_active /\ data_valid' = data_valid
      /\ pixels_remaining' = pixels_remaining /\ do_init' = do_init /\ before' = before
      /\ color_valid' = color_valid /\ color' \in Colors
  BY DEF WriteLow, WriteHigh, hardware
<1>2. asked' \in BOOLEAN /\ crossing' \in {"idle", "sent", "returning"}
  <2>1. CASE WriteLow
    BY <2>1 DEF WriteLow, ExtraInv, TypeOK
  <2>2. CASE WriteHigh
    BY <2>2 DEF WriteHigh, ExtraInv, TypeOK
  <2>3. QED
    BY <2>1, <2>2
<1>3. TypeOK'
  BY <1>1, <1>2 DEF ExtraInv, TypeOK
<1>4. BlankOnTime' /\ BlankLasts' /\ Counted'
  BY <1>1 DEF ExtraInv, BlankOnTime, BlankLasts, Counted, BitsCount
<1>5. QED
  BY <1>1, <1>3, <1>4 DEF ExtraInv

-----------------------------------------------------------------------------
(* An edge of the clock                                                    *)

LEMMA Types ==
  ASSUME TypeOK
  PROVE  /\ reset \in BOOLEAN /\ frame_active \in BOOLEAN /\ h_blank \in BOOLEAN
         /\ h_blank_q \in BOOLEAN /\ data_valid \in BOOLEAN /\ do_init \in BOOLEAN
         /\ color_valid \in BOOLEAN /\ asked \in BOOLEAN
  BY DEF TypeOK

\* What happens on the line at an edge.
Blanks == StartsBlank(driver, h_blank_q) /\ line' = <<>>
Sends  == /\ StartsBit(driver, h_blank_q) /\ ~StartsBlank(driver, h_blank_q)
          /\ line' = Append(line, driver.shift_reg)
Waits  == /\ ~StartsBlank(driver, h_blank_q) /\ ~StartsBit(driver, h_blank_q)
          /\ line' = line

\* An edge at which the driver loads a pixel p or does not.
EdgeOf(load, p, one) ==
  /\ load = (data_valid /\ string_ready(driver))
  /\ ShiftFieldsAre(driver, load, p, driver')
  /\ PulseFieldsAre(driver, h_blank_q, one, driver', driver')
  /\ driver' \in Drivers(Pixels)
  /\ Blanks \/ Sends \/ Waits

LEMMA EdgeHolds ==
  ASSUME ExtraInv, Tick
  PROVE  \E load \in BOOLEAN, p \in Pixels, one \in BOOLEAN : EdgeOf(load, p, one)
<1>1. PICK one \in BOOLEAN, p \in Captured :
        /\ driver' = DriverStep(driver, data_valid, p, h_blank_q, one)
        /\ line' = IF StartsBlank(driver, h_blank_q) THEN <<>>
                   ELSE IF StartsBit(driver, h_blank_q) THEN Append(line, driver.shift_reg)
                   ELSE line
  BY DEF Tick, Driver
<1>2. p \in Pixels
  BY <1>1 DEF Captured, Pixels, ExtraInv, TypeOK
<1>3. data_valid \in BOOLEAN /\ h_blank_q \in BOOLEAN /\ driver \in Drivers(Pixels)
  BY Types DEF ExtraInv
<1>4. PICK load \in BOOLEAN : load = (data_valid /\ string_ready(driver))
  OBVIOUS
<1>5. /\ ShiftFieldsAre(driver, load, p, driver')
      /\ PulseFieldsAre(driver, h_blank_q, one, driver', driver')
      /\ driver' \in Drivers(Pixels)
  BY <1>1, <1>2, <1>3, <1>4, DriverFields
<1>6. Blanks \/ Sends \/ Waits
  BY <1>1 DEF Blanks, Sends, Waits
<1>7. QED
  BY <1>2, <1>4, <1>5, <1>6 DEF EdgeOf

\* The facts about the driver that the steps below use again and again.
LEMMA DriverFacts ==
  ASSUME driver \in Drivers(Pixels), DriverSound(driver),
         NEW load \in BOOLEAN, NEW p, NEW one, EdgeOf(load, p, one)
  PROVE  /\ driver.bit_state \in {IDLE, BIT_HIGH, BIT_LOW, HBLANK}
         /\ driver.tick_count \in Nat /\ driver.bit_count \in 0 .. DATA_WIDTH - 1
         /\ driver.shift_reg \in [pixel : Pixels, shifts : 0 .. DATA_WIDTH]
         /\ driver.shift_reg.shifts \in 0 .. DATA_WIDTH
         /\ driver.shift_start \in BOOLEAN /\ driver.shift_done \in BOOLEAN
         /\ driver.shift_ready \in BOOLEAN /\ driver.blank_ready \in BOOLEAN
         /\ driver'.bit_state \in {IDLE, BIT_HIGH, BIT_LOW, HBLANK}
         /\ driver'.tick_count \in Nat
         /\ driver'.shift_start \in BOOLEAN /\ driver'.shift_done \in BOOLEAN
         /\ driver'.shift_ready \in BOOLEAN
         /\ driver.shift_start =>
              driver.bit_state \in {IDLE, HBLANK} /\ ~driver.shift_ready /\ ~driver.shift_done
         /\ driver.shift_done => driver.bit_state = IDLE
         /\ driver.shift_ready => driver.bit_state \in {IDLE, HBLANK} /\ driver.bit_count = 0
         /\ load => data_valid /\ driver.shift_ready /\ driver.bit_state = IDLE
         /\ DATA_WIDTH \in Nat \ {0} /\ kHBlankCount \in Nat /\ kHBlankCount >= 2
<1> USE DEF IDLE, BIT_HIGH, BIT_LOW, HBLANK
<1>1. /\ driver.bit_state \in {IDLE, BIT_HIGH, BIT_LOW, HBLANK}
      /\ driver.tick_count \in Nat /\ driver.bit_count \in 0 .. DATA_WIDTH - 1
      /\ driver.shift_reg \in [pixel : Pixels, shifts : 0 .. DATA_WIDTH]
      /\ driver.shift_reg.shifts \in 0 .. DATA_WIDTH
      /\ driver.shift_start \in BOOLEAN /\ driver.shift_done \in BOOLEAN
      /\ driver.shift_ready \in BOOLEAN /\ driver.blank_ready \in BOOLEAN
  BY DEF Drivers
<1>2. /\ driver'.bit_state \in {IDLE, BIT_HIGH, BIT_LOW, HBLANK}
      /\ driver'.tick_count \in Nat
      /\ driver'.shift_start \in BOOLEAN /\ driver'.shift_done \in BOOLEAN
      /\ driver'.shift_ready \in BOOLEAN
  BY DEF EdgeOf, Drivers
<1>3. /\ driver.blank_ready = (driver.bit_state # HBLANK)
      /\ driver.shift_start =>
           driver.bit_state \in {IDLE, HBLANK} /\ ~driver.shift_ready /\ ~driver.shift_done
      /\ driver.shift_done => driver.bit_state = IDLE
      /\ driver.shift_ready => driver.bit_state \in {IDLE, HBLANK} /\ driver.bit_count = 0
  BY DEF DriverSound
<1>4. load => data_valid /\ driver.shift_ready /\ driver.blank_ready
  BY DEF EdgeOf, string_ready
<1>5. load => data_valid /\ driver.shift_ready /\ driver.bit_state = IDLE
  BY <1>1, <1>3, <1>4
<1>6. QED
  BY <1>1, <1>2, <1>3, <1>5, WidthAssumption, Counts DEF WidthAssumption

LEMMA SoundNext ==
  ASSUME ExtraInv, NEW load \in BOOLEAN, NEW p, NEW one, EdgeOf(load, p, one)
  PROVE  DriverSound(driver')
<1>1. h_blank_q \in BOOLEAN /\ driver \in Drivers(Pixels) /\ DriverSound(driver)
  BY Types DEF ExtraInv
<1>2. h_blank_q => driver.shift_ready \/ driver.shift_start \/ driver.bit_state = HBLANK
  BY DEF ExtraInv, BlankOnTime
<1>3. /\ load => string_ready(driver)
      /\ ShiftFieldsAre(driver, load, p, driver')
      /\ PulseFieldsAre(driver, h_blank_q, one, driver', driver')
      /\ driver' \in Drivers(Pixels)
  BY DEF EdgeOf
<1>4. QED
  BY <1>1, <1>2, <1>3, DriverStaysSound

LEMMA TypesNext ==
  ASSUME ExtraInv, Tick, NEW load \in BOOLEAN, NEW p, NEW one, EdgeOf(load, p, one)
  PROVE  TypeOK'
<1>1. TypeOK /\ driver \in Drivers(Pixels) /\ DriverSound(driver)
  BY DEF ExtraInv
<1>2. /\ reset' \in BOOLEAN /\ do_init' \in BOOLEAN /\ h_blank' \in BOOLEAN
      /\ data_valid' \in BOOLEAN /\ frame_active' \in BOOLEAN
  BY <1>1, Types DEF Tick, Frame, StartsFrame, SendsPixel, EndsFrame, Free
<1>3. h_blank_q' \in BOOLEAN
  BY <1>1, Types DEF Tick, DelayBlank
<1>4. color_valid' \in BOOLEAN /\ crossing' \in {"idle", "sent", "returning"}
  BY <1>1 DEF Tick, Strobe, TypeOK
<1>5. asked' \in BOOLEAN /\ color' \in Colors /\ before' \in Colors
  BY <1>1, <1>4, Types DEF Tick, TypeOK
<1>6. pixels_remaining' \in 0 .. N_LEDS_PER_STRING
  BY <1>1, LedsAssumption DEF Tick, Frame, SendsPixel, TypeOK, LedsAssumption
<1>7. line' \in Seq(LineBits)
  <2>1. line \in Seq(LineBits)
    BY <1>1 DEF TypeOK, LineBits, Pixels
  <2>2. CASE Blanks
    BY <2>2, EmptySeq DEF Blanks
  <2>3. CASE Sends
    <3>1. driver.shift_start /\ driver.bit_state = IDLE
      BY <2>3 DEF Sends, StartsBit
    <3>2. /\ driver.bit_count + driver.shift_reg.shifts = DATA_WIDTH - 1
          /\ driver.bit_count \in Nat /\ driver.shift_reg.shifts \in Nat
      BY <1>1, <3>1, DriverFacts DEF DriverSound
    <3>3. driver.shift_reg \in LineBits
      BY <1>1, <3>2, DriverFacts DEF LineBits
    <3>4. QED
      BY <2>1, <2>3, <3>3, AppendProperties DEF Sends
  <2>4. CASE Waits
    BY <2>1, <2>4 DEF Waits
  <2>5. QED
    BY <2>2, <2>3, <2>4 DEF EdgeOf
<1>8. {reset, frame_active, h_blank, h_blank_q, data_valid, do_init, color_valid, asked}'
        \subseteq BOOLEAN
  BY <1>2, <1>3, <1>4, <1>5
<1>9. QED
  BY <1>4, <1>5, <1>6, <1>7, <1>8 DEF TypeOK, LineBits, Pixels

LEMMA BlankOnTimeNext ==
  ASSUME ExtraInv, Tick, NEW load \in BOOLEAN, NEW p, NEW one, EdgeOf(load, p, one)
  PROVE  BlankOnTime'
<1>1. TypeOK /\ driver \in Drivers(Pixels) /\ DriverSound(driver)
  BY DEF ExtraInv
<1>2. /\ driver'.shift_ready = (LastLowTick(driver) \/ (driver.shift_ready /\ ~load))
      /\ driver'.shift_start = (load \/ (driver.shift_done /\ driver.bit_count > 0))
      /\ load => driver'.shift_reg = Shifted(p, 0)
  BY DEF EdgeOf, ShiftFieldsAre
<1>3. driver.shift_ready => driver'.shift_ready \/ load
  BY <1>1, <1>2, DriverFacts DEF LastLowTick
<1>4. ASSUME h_blank'
      PROVE  driver'.shift_ready
  <2>1. Free
    BY <1>4 DEF Tick, Frame, StartsFrame
  <2>2. driver.shift_ready /\ ~data_valid
    BY <2>1 DEF Free, string_active, string_ready
  <2>3. QED
    BY <1>1, <1>3, <2>2, DriverFacts
<1>5. ASSUME h_blank_q'
      PROVE  \/ driver'.shift_ready
             \/ driver'.shift_start /\ driver'.shift_reg.shifts = 0
  <2>1. driver.shift_ready
    BY <1>5 DEF Tick, DelayBlank, ExtraInv, BlankOnTime
  <2>2. CASE load
    <3>1. driver'.shift_reg = [pixel |-> p, shifts |-> 0]
      BY <1>2, <2>2, WidthAssumption DEF Shifted, WidthAssumption
    <3>2. driver'.shift_start
      BY <1>1, <1>2, <2>2
    <3>3. QED
      BY <3>1, <3>2
  <2>3. QED
    BY <1>3, <2>1, <2>2
<1>6. QED
  BY <1>4, <1>5 DEF BlankOnTime

\* When a blanking pulse starts, the pixel that waits for it has not been shifted.
LEMMA BlankFindsFirstBit ==
  ASSUME ExtraInv, NEW load \in BOOLEAN, NEW p, NEW one, EdgeOf(load, p, one),
         StartsBlank(driver, h_blank_q), ~driver'.shift_ready
  PROVE  driver'.shift_reg.shifts = 0
<1> USE DEF IDLE, BIT_HIGH, BIT_LOW, HBLANK
<1>1. driver \in Drivers(Pixels) /\ DriverSound(driver) /\ BlankOnTime
  BY DEF ExtraInv
<1>2. driver.bit_state = IDLE /\ h_blank_q
  BY DEF StartsBlank
<1>3. CASE load
  <2>1. driver'.shift_reg = [pixel |-> p, shifts |-> 0]
    BY <1>3, WidthAssumption DEF EdgeOf, ShiftFieldsAre, Shifted, WidthAssumption
  <2>2. QED
    BY <2>1
<1>4. CASE ~load
  <2>1. ~driver.shift_ready
    BY <1>1, <1>4, DriverFacts DEF EdgeOf, ShiftFieldsAre
  <2>2. driver.shift_start /\ driver.shift_reg.shifts = 0
    BY <1>1, <1>2, <2>1 DEF BlankOnTime
  <2>3. ~driver.shift_done
    BY <1>1, <2>2, DriverFacts
  <2>4. QED
    BY <1>4, <2>2, <2>3 DEF EdgeOf, ShiftFieldsAre
<1>5. QED
  BY <1>3, <1>4

LEMMA BlankLastsNext ==
  ASSUME ExtraInv, Tick, NEW load \in BOOLEAN, NEW p, NEW one, EdgeOf(load, p, one)
  PROVE  BlankLasts'
<1> USE DEF IDLE, BIT_HIGH, BIT_LOW, HBLANK
<1>1. driver \in Drivers(Pixels) /\ DriverSound(driver) /\ TypeOK
  BY DEF ExtraInv
<1> SUFFICES ASSUME driver'.bit_state = HBLANK
             PROVE  /\ line' = <<>> /\ driver'.tick_count <= kHBlankCount
                    /\ h_blank' => driver'.tick_count = kHBlankCount
                    /\ h_blank_q' => driver'.tick_count >= kHBlankCount - 1
                    /\ driver'.shift_start => driver'.tick_count = kHBlankCount
                    /\ ~driver'.shift_ready => driver'.shift_reg.shifts = 0
  BY DEF BlankLasts
<1>2. CASE StartsBlank(driver, h_blank_q)
  <2>1. line' = <<>>
    BY <1>2 DEF EdgeOf, Blanks, Sends, Waits
  <2>2. driver'.tick_count = kHBlankCount
    BY <1>2 DEF EdgeOf, PulseFieldsAre
  <2>3. QED
    BY <1>1, <1>2, <2>1, <2>2, BlankFindsFirstBit, DriverFacts
<1>3. CASE ~StartsBlank(driver, h_blank_q)
  <2>1. driver.bit_state = HBLANK /\ driver.tick_count > 0
    <3>1. driver'.bit_state =
            IF StartsBit(driver, h_blank_q) THEN BIT_HIGH
            ELSE IF Ends(driver) THEN IF driver.bit_state = BIT_HIGH THEN BIT_LOW ELSE IDLE
            ELSE driver.bit_state
      BY <1>3 DEF EdgeOf, PulseFieldsAre
    <3>2. driver.bit_state = HBLANK /\ ~Ends(driver)
      BY <3>1
    <3>3. driver.tick_count \in Nat
      BY <1>1, DriverFacts
    <3>4. QED
      BY <3>2, <3>3 DEF Ends
  <2>2. /\ line = <<>> /\ driver.tick_count <= kHBlankCount
        /\ h_blank => driver.tick_count = kHBlankCount
        /\ ~driver.shift_ready => driver.shift_reg.shifts = 0
    BY <2>1 DEF ExtraInv, BlankLasts
  <2>3. driver'.tick_count = driver.tick_count - 1
    BY <1>1, <1>3, <2>1, DriverFacts DEF EdgeOf, PulseFieldsAre, StartsBit, Ends
  <2>4. line' = <<>>
    BY <1>3, <2>1, <2>2 DEF EdgeOf, Blanks, Sends, Waits, StartsBit
  <2>5. ~h_blank'
    <3>1. ~Free
      BY <1>1, <2>1 DEF Free, string_active, string_ready, DriverSound
    <3>2. QED
      BY <3>1 DEF Tick, Frame, StartsFrame
  <2>6. h_blank_q' => h_blank
    BY DEF Tick, DelayBlank
  <2>7. ~load /\ ~driver.shift_done
    BY <1>1, <2>1, DriverFacts
  <2>8. ~driver'.shift_start
    BY <1>1, <2>7, DriverFacts DEF EdgeOf, ShiftFieldsAre
  <2>9. ~driver'.shift_ready => driver'.shift_reg.shifts = 0
    BY <1>1, <2>2, <2>7, DriverFacts DEF EdgeOf, ShiftFieldsAre
  <2>10. QED
    BY <1>1, <2>2, <2>3, <2>4, <2>5, <2>6, <2>8, <2>9, DriverFacts
<1>4. QED
  BY <1>2, <1>3

LEMMA CountedNext ==
  ASSUME ExtraInv, Tick, NEW load \in BOOLEAN, NEW p, NEW one, EdgeOf(load, p, one)
  PROVE  Counted'
<1> USE DEF IDLE, BIT_HIGH, BIT_LOW, HBLANK
<1>1. /\ driver \in Drivers(Pixels) /\ DriverSound(driver) /\ TypeOK
      /\ line \in Seq(LineBits)
  BY DEF ExtraInv, TypeOK, LineBits, Pixels
<1>2. PICK lost \in {0, 1} : BitsCount(lost)
  BY DEF ExtraInv, Counted
<1>3. CASE Blanks
  <2>1. line' = <<>> /\ Len(line') = 0 /\ DOMAIN line' = {}
    BY <1>3 DEF Blanks
  <2>2. driver'.bit_state = HBLANK
    BY <1>3 DEF EdgeOf, Blanks, PulseFieldsAre
  <2>3. CASE driver'.shift_ready
    <3>1. BitsCount(0)'
      BY <2>1, <2>2, <2>3, ZeroMod DEF BitsCount
    <3>2. QED
      BY <3>1 DEF Counted
  <2>4. CASE ~driver'.shift_ready
    <3>1. driver'.shift_reg.shifts = 0
      BY <1>3, <2>4, BlankFindsFirstBit DEF Blanks
    <3>2. BitsCount(1)'
      BY <2>1, <2>2, <2>4, <3>1, ZeroMod DEF BitsCount
    <3>3. QED
      BY <3>2 DEF Counted
  <2>5. QED
    BY <2>3, <2>4
<1>4. DEFINE sent == Len(line) + lost
<1>5. sent \in Nat
  BY <1>1, LenProperties
<1>6. CASE Sends
  <2>1. driver.bit_state = IDLE /\ driver.shift_start /\ ~h_blank_q
    BY <1>6 DEF Sends, StartsBit
  <2>2. ~load /\ ~driver.shift_done /\ ~driver.shift_ready
    BY <1>1, <2>1, DriverFacts
  <2>3. driver.shift_reg.shifts = sent % DATA_WIDTH
    BY <1>2, <2>1 DEF BitsCount
  <2>4. driver'.shift_reg = driver.shift_reg
    BY <2>2 DEF EdgeOf, ShiftFieldsAre
  <2>5. driver'.bit_state = BIT_HIGH
    BY <1>6 DEF EdgeOf, Sends, PulseFieldsAre
  <2>6. ~driver'.shift_ready
    BY <1>1, <2>1, <2>2, DriverFacts DEF EdgeOf, ShiftFieldsAre, LastLowTick
  <2>7. /\ Len(line') = Len(line) + 1
        /\ DOMAIN line' = 1 .. Len(line) + 1 /\ DOMAIN line = 1 .. Len(line)
        /\ \A j \in DOMAIN line : line'[j] = line[j]
        /\ line'[Len(line) + 1] = driver.shift_reg
        /\ Len(line) \in Nat
    BY <1>1, <1>6, LenProperties DEF Sends
  <2>8. \A j \in DOMAIN line' : line'[j].shifts = (j - 1 + lost) % DATA_WIDTH
    <3> TAKE j \in DOMAIN line'
    <3>1. CASE j \in DOMAIN line
      BY <1>2, <2>7, <3>1 DEF BitsCount
    <3>2. CASE j \notin DOMAIN line
      <4>1. j = Len(line) + 1 /\ j - 1 + lost = sent
        BY <2>7, <3>2
      <4>2. QED
        BY <2>3, <2>7, <4>1
    <3>3. QED
      BY <3>1, <3>2
  <2>9. Len(line') + lost >= 1 /\ (Len(line') + lost) - 1 = sent
    BY <1>5, <2>7
  <2>10. BitsCount(lost)'
    BY <2>3, <2>4, <2>5, <2>6, <2>8, <2>9 DEF BitsCount
  <2>11. QED
    BY <2>10 DEF Counted
<1>7. CASE Waits
  <2>1. line' = line /\ ~StartsBlank(driver, h_blank_q) /\ ~StartsBit(driver, h_blank_q)
    BY <1>7 DEF Waits
  <2>2. ASSUME driver'.shift_ready
        PROVE  sent % DATA_WIDTH = 0
    <3>1. CASE driver.shift_ready
      BY <1>2, <3>1 DEF BitsCount
    <3>2. CASE ~driver.shift_ready
      <4>1. LastLowTick(driver)
        BY <1>1, <2>2, <3>2, DriverFacts DEF EdgeOf, ShiftFieldsAre
      <4>2. driver.bit_count = 0 /\ driver.bit_state = BIT_LOW
        BY <4>1 DEF LastLowTick
      <4>3. driver.shift_reg.shifts = DATA_WIDTH - 1
        BY <1>1, <3>2, <4>2, DriverFacts DEF DriverSound
      <4>4. sent >= 1 /\ driver.shift_reg.shifts = (sent - 1) % DATA_WIDTH
        BY <1>2, <3>2, <4>2 DEF BitsCount
      <4>5. QED
        BY <1>1, <1>5, <4>3, <4>4, ModAfter, DriverFacts
    <3>3. QED
      BY <3>1, <3>2
  <2>3. ASSUME driver'.bit_state = IDLE, driver'.shift_start
        PROVE  driver'.shift_reg.shifts = sent % DATA_WIDTH
    <3>1. CASE load
      <4>1. driver'.shift_reg = [pixel |-> p, shifts |-> 0]
        BY <3>1, WidthAssumption DEF EdgeOf, ShiftFieldsAre, Shifted, WidthAssumption
      <4>2. driver.shift_ready
        BY <1>1, <3>1, DriverFacts
      <4>3. sent % DATA_WIDTH = 0
        BY <1>2, <4>2 DEF BitsCount
      <4>4. QED
        BY <4>1, <4>3
    <3>2. CASE ~load
      <4>1. driver.shift_done /\ driver.bit_count > 0
        BY <1>1, <2>3, <3>2, DriverFacts DEF EdgeOf, ShiftFieldsAre
      <4>2. ~driver.shift_ready
        BY <1>1, <4>1, DriverFacts
      <4>3. sent >= 1 /\ driver.shift_reg.shifts = (sent - 1) % DATA_WIDTH
        BY <1>2, <4>1, <4>2 DEF BitsCount
      <4>4. /\ driver.bit_count + driver.shift_reg.shifts = DATA_WIDTH - 1
            /\ driver.bit_count \in Nat /\ driver.shift_reg.shifts \in Nat
        BY <1>1, <4>1, <4>2, DriverFacts DEF DriverSound
      <4>5. driver'.shift_reg.shifts = driver.shift_reg.shifts + 1
        BY <3>2, <4>1, <4>4, WidthAssumption
           DEF EdgeOf, ShiftFieldsAre, Shifted, WidthAssumption
      <4>6. (sent - 1) % DATA_WIDTH # DATA_WIDTH - 1
        BY <1>1, <4>1, <4>3, <4>4, DriverFacts
      <4>7. sent % DATA_WIDTH = ((sent - 1) % DATA_WIDTH) + 1
        BY <1>1, <1>5, <4>3, <4>6, ModAfter, DriverFacts
      <4>8. QED
        BY <4>3, <4>5, <4>7
    <3>3. QED
      BY <3>1, <3>2
  <2>4. ASSUME ~driver'.shift_ready, driver'.bit_state # IDLE \/ driver'.shift_done
        PROVE  sent >= 1 /\ driver'.shift_reg.shifts = (sent - 1) % DATA_WIDTH
    <3>1. driver.bit_state # IDLE
      BY <2>1, <2>4 DEF EdgeOf, PulseFieldsAre, Ends
    <3>2. ~load /\ ~driver.shift_done
      BY <1>1, <3>1, DriverFacts
    <3>3. ~driver.shift_ready
      BY <1>1, <2>4, <3>2, DriverFacts DEF EdgeOf, ShiftFieldsAre
    <3>4. driver'.shift_reg = driver.shift_reg
      BY <3>2 DEF EdgeOf, ShiftFieldsAre
    <3>5. QED
      BY <1>2, <3>1, <3>3, <3>4 DEF BitsCount
  <2>5. \A j \in DOMAIN line' : line'[j].shifts = (j - 1 + lost) % DATA_WIDTH
    BY <1>2, <2>1 DEF BitsCount
  <2>6. BitsCount(lost)'
    BY <2>1, <2>2, <2>3, <2>4, <2>5 DEF BitsCount
  <2>7. QED
    BY <2>6 DEF Counted
<1>8. QED
  BY <1>3, <1>6, <1>7 DEF EdgeOf

-----------------------------------------------------------------------------
(* The theorems                                                            *)

LEMMA StepKeeps == ExtraInv /\ [Next]_vars => ExtraInv'
<1> SUFFICES ASSUME ExtraInv, [Next]_vars
             PROVE  ExtraInv'
  OBVIOUS
<1>1. CASE WriteLow \/ WriteHigh
  BY <1>1, WriteKeeps
<1>2. CASE Tick
  <2>1. PICK load \in BOOLEAN, p \in Pixels, one \in BOOLEAN : EdgeOf(load, p, one)
    BY <1>2, EdgeHolds
  <2>2. TypeOK' /\ DriverSound(driver')
    BY <1>2, <2>1, TypesNext, SoundNext
  <2>3. BlankOnTime' /\ BlankLasts' /\ Counted'
    BY <1>2, <2>1, BlankOnTimeNext, BlankLastsNext, CountedNext
  <2>4. driver' \in Drivers(Pixels)
    BY <2>1 DEF EdgeOf
  <2>5. QED
    BY <2>2, <2>3, <2>4 DEF ExtraInv
<1>3. CASE UNCHANGED vars
  BY <1>3 DEF vars, colorVars, ExtraInv, TypeOK, BlankOnTime, BlankLasts, Counted, BitsCount
<1>4. QED
  BY <1>1, <1>2, <1>3 DEF Next

\* The invariant holds: the registers of the driver go together, a request for a blanking
\* pulse meets the driver before the first bit of a pixel, and the bits on the wire count
\* modulo the width of a pixel (string_driver.v, extra_strings.v:47-77).
THEOREM ExtraInvariant == Spec => []ExtraInv
<1>1. Init => ExtraInv
  BY InitHolds
<1>2. QED
  BY <1>1, StepKeeps, PTL DEF Spec

\* Every register stays within its width, and the wire carries only bits of a color or of
\* a mixture of two, whatever the number of LEDs, the colors and the clock
\* (extra_strings.v:21-77).
THEOREM WhiteTypes == Spec => []TypeOK
<1>1. ExtraInv => TypeOK
  BY DEF ExtraInv
<1>2. QED
  BY <1>1, ExtraInvariant, PTL

\* A blanking pulse never falls between two bits of a pixel, nor anywhere but before the
\* first or the second bit of a frame, however requests and resets come: every LED of a
\* string is given the same bits of the color (extra_strings.v:55-77,
\* string_driver.v:113-118).
THEOREM SameBits == Spec => []EveryLedTheSameBits
<1>1. ExtraInv => EveryLedTheSameBits
  BY DEF ExtraInv, Counted, BitsCount, EveryLedTheSameBits
<1>2. QED
  BY <1>1, ExtraInvariant, PTL

===============================================================================
