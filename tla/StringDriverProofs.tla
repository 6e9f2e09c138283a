-------------------------- MODULE StringDriverProofs --------------------------
EXTENDS StringDriver, TLAPS

LEMMA Euclid ==
  ASSUME NEW a \in Nat, NEW n \in Nat \ {0}
  PROVE  a % n \in 0 .. n - 1 /\ a \div n \in Nat /\ a = n * (a \div n) + (a % n)
  BY SMT

LEMMA Times ==
  ASSUME NEW a \in Nat, NEW b \in Nat
  PROVE  a * b \in Nat /\ (a # 0 => a * b >= b) /\ (a = 0 => a * b = 0)
  BY SMT

LEMMA ModUnique ==
  ASSUME NEW n \in Nat \ {0}, NEW k \in Nat, NEW r \in 0 .. n - 1
  PROVE  (n * k + r) % n = r /\ (n * k + r) \div n = k
  BY SMT

LEMMA ModNext ==
  ASSUME NEW a \in Nat, NEW n \in Nat \ {0}
  PROVE  (a + 1) % n = IF a % n = n - 1 THEN 0 ELSE (a % n) + 1
<1> DEFINE q == a \div n
           r == a % n
<1>1. r \in 0 .. n - 1 /\ q \in Nat /\ a = n * q + r
  BY Euclid
<1> HIDE DEF q, r
<1>2. CASE r = n - 1
  <2>1. a + 1 = n * (q + 1) + 0
    BY <1>1, <1>2, SMT
  <2>2. (a + 1) % n = 0
    BY <1>1, <2>1, ModUnique
  <2>3. QED
    BY <1>2, <2>2 DEF r
<1>3. CASE r # n - 1
  <2>1. a + 1 = n * q + (r + 1) /\ r + 1 \in 0 .. n - 1
    BY <1>1, <1>3, SMT
  <2>2. (a + 1) % n = r + 1
    BY <1>1, <2>1, ModUnique
  <2>3. QED
    BY <1>3, <2>2 DEF r
<1>4. QED
  BY <1>2, <1>3

LEMMA AtLeastTwo ==
  ASSUME NEW c \in 1 .. 399, NEW x \in Nat, x >= 400
  PROVE  (x + c - 1) \div c \in Nat /\ (x + c - 1) \div c >= 2
  BY SMT

-----------------------------------------------------------------------------
(* One edge of the clock of a driver, register by register                 *)

Drivers(Pixels) ==
  [shift_reg   : [pixel : Pixels, shifts : 0 .. DATA_WIDTH],
   bit_count   : 0 .. DATA_WIDTH - 1,
   shift_start : BOOLEAN, shift_done  : BOOLEAN,
   shift_ready : BOOLEAN, blank_ready : BOOLEAN,
   bit_state   : {IDLE, BIT_HIGH, BIT_LOW, HBLANK}, tick_count : Nat, one : BOOLEAN]

LEMMA Counts ==
  /\ \A b \in BOOLEAN : kHighCount(b) \in Nat /\ kLowCount(b) \in Nat
  /\ kHBlankCount \in Nat /\ kHBlankCount >= 2
<1>1. \A x \in Nat : x >= 400 => get_count(x) \in Nat /\ get_count(x) >= 2
  BY ClockAssumption, AtLeastTwo DEF get_count, ClockAssumption
<1>2. QED
  BY <1>1 DEF kHighCount, kLowCount, kHBlankCount

\* The registers n of the shifter after an edge at which a pixel is loaded or not.
ShiftFieldsAre(d, load, p, n) ==
  /\ n.shift_reg = IF load THEN Shifted(p, 0)
                   ELSE IF d.shift_done
                        THEN Shifted(d.shift_reg.pixel, d.shift_reg.shifts + 1)
                   ELSE d.shift_reg
  /\ n.bit_count = IF load THEN DATA_WIDTH - 1
                   ELSE IF d.shift_done /\ d.bit_count > 0 THEN d.bit_count - 1
                   ELSE d.bit_count
  /\ n.shift_start = (load \/ (d.shift_done /\ d.bit_count > 0))
  /\ n.shift_ready = (LastLowTick(d) \/ (d.shift_ready /\ ~load))

LEMMA ShiftFields ==
  ASSUME NEW Pixels, NEW d \in Drivers(Pixels), NEW v \in BOOLEAN, NEW p \in Pixels,
         NEW load, load = (v /\ string_ready(d)),
         NEW n, n = ShiftStep(d, v, p)
  PROVE  /\ ShiftFieldsAre(d, load, p, n) /\ n \in Drivers(Pixels)
         /\ n.blank_ready = d.blank_ready /\ n.bit_state = d.bit_state
         /\ n.tick_count = d.tick_count /\ n.one = d.one
<1>1. load \in BOOLEAN /\ LastLowTick(d) \in BOOLEAN
  BY DEF string_ready, LastLowTick
<1> DEFINE more  == d.bit_count > 0
           shift == d.shift_done /\ ~load
           a == IF load THEN Shifted(p, 0)
                ELSE IF shift THEN Shifted(d.shift_reg.pixel, d.shift_reg.shifts + 1)
                ELSE d.shift_reg
           b == IF load THEN DATA_WIDTH - 1 ELSE IF shift /\ more THEN d.bit_count - 1
                ELSE d.bit_count
           c == load \/ (shift /\ more)
           e == LastLowTick(d) \/ (d.shift_ready /\ ~load)
<1>2. n = [d EXCEPT !.shift_reg = a, !.bit_count = b, !.shift_start = c, !.shift_ready = e]
  BY DEF ShiftStep
<1>3. a \in [pixel : Pixels, shifts : 0 .. DATA_WIDTH]
  BY WidthAssumption DEF Drivers, Shifted, WidthAssumption
<1>4. b \in 0 .. DATA_WIDTH - 1
  BY WidthAssumption DEF Drivers, WidthAssumption
<1>5. c \in BOOLEAN /\ e \in BOOLEAN
  BY <1>1
<1>6. /\ a = IF load THEN Shifted(p, 0)
             ELSE IF d.shift_done THEN Shifted(d.shift_reg.pixel, d.shift_reg.shifts + 1)
             ELSE d.shift_reg
      /\ b = IF load THEN DATA_WIDTH - 1
             ELSE IF d.shift_done /\ more THEN d.bit_count - 1 ELSE d.bit_count
      /\ c = (load \/ (d.shift_done /\ more))
  BY <1>1
<1> HIDE DEF a, b, c, e
<1>7. /\ n.shift_reg = a /\ n.bit_count = b /\ n.shift_start = c /\ n.shift_ready = e
      /\ n.blank_ready = d.blank_ready
      /\ n.bit_state = d.bit_state /\ n.tick_count = d.tick_count /\ n.one = d.one
      /\ n \in Drivers(Pixels)
  BY <1>2, <1>3, <1>4, <1>5 DEF Drivers
<1>8. QED
  BY <1>6, <1>7 DEF e, ShiftFieldsAre

\* A pulse, or a part of one, ends at the next edge.
Ends(d) == d.bit_state # IDLE /\ d.tick_count = 0

\* The registers m after an edge: those of the shifter are as in n.
PulseFieldsAre(d, h, one, n, m) ==
  /\ m.shift_reg = n.shift_reg /\ m.bit_count = n.bit_count
  /\ m.shift_start = n.shift_start /\ m.shift_ready = n.shift_ready
  /\ m.shift_done = (Ends(d) /\ d.bit_state \in {BIT_LOW, HBLANK})
  /\ m.bit_state = IF StartsBlank(d, h) THEN HBLANK
                   ELSE IF StartsBit(d, h) THEN BIT_HIGH
                   ELSE IF Ends(d) THEN IF d.bit_state = BIT_HIGH THEN BIT_LOW ELSE IDLE
                   ELSE d.bit_state
  /\ m.tick_count = IF StartsBlank(d, h) THEN kHBlankCount
                    ELSE IF StartsBit(d, h) THEN kHighCount(one)
                    ELSE IF Ends(d)
                         THEN IF d.bit_state = BIT_HIGH THEN kLowCount(d.one) ELSE d.tick_count
                    ELSE IF d.bit_state # IDLE THEN d.tick_count - 1
                    ELSE d.tick_count
  /\ m.blank_ready = (~StartsBlank(d, h)
                      /\ (d.blank_ready \/ (Ends(d) /\ d.bit_state = HBLANK)))
  /\ m.one = IF StartsBit(d, h) THEN one ELSE d.one

LEMMA PulseFields ==
  ASSUME NEW Pixels, NEW d \in Drivers(Pixels), NEW n \in Drivers(Pixels),
         n.bit_state = d.bit_state, n.tick_count = d.tick_count,
         n.blank_ready = d.blank_ready, n.one = d.one,
         NEW h \in BOOLEAN, NEW one \in BOOLEAN,
         NEW m, m = PulseStep(d, h, one, n)
  PROVE  PulseFieldsAre(d, h, one, n, m) /\ m \in Drivers(Pixels)
<1>1. /\ d.bit_state \in {IDLE, BIT_HIGH, BIT_LOW, HBLANK} /\ d.tick_count \in Nat
      /\ d.one \in BOOLEAN /\ d.blank_ready \in BOOLEAN
      /\ n.one \in BOOLEAN
  BY DEF Drivers
<1>2. /\ IDLE # BIT_HIGH /\ IDLE # BIT_LOW /\ IDLE # HBLANK /\ BIT_HIGH # BIT_LOW
      /\ BIT_HIGH # HBLANK /\ BIT_LOW # HBLANK
  BY DEF IDLE, BIT_HIGH, BIT_LOW, HBLANK
<1> DEFINE done == Ends(d) /\ d.bit_state \in {BIT_LOW, HBLANK}
           p == [n EXCEPT !.shift_done = done]
<1>3. done \in BOOLEAN
  OBVIOUS
<1>4. CASE StartsBlank(d, h)
  <2>1. m = [p EXCEPT !.bit_state = HBLANK, !.tick_count = kHBlankCount,
                      !.blank_ready = FALSE]
    BY <1>1, <1>2, <1>4 DEF PulseStep, Ends, StartsBlank, StartsBit
  <2> HIDE DEF done
  <2>2. /\ m.shift_reg = n.shift_reg /\ m.bit_count = n.bit_count
        /\ m.shift_start = n.shift_start /\ m.shift_ready = n.shift_ready
        /\ m.shift_done = done /\ m \in Drivers(Pixels)
        /\ m.bit_state = HBLANK /\ m.tick_count = kHBlankCount
        /\ m.blank_ready = FALSE /\ m.one = d.one
    BY <1>1, <1>3, <2>1, Counts DEF Drivers
  <2>3. QED
    BY <1>1, <1>2, <1>4, <2>2 DEF PulseFieldsAre, StartsBlank, StartsBit, Ends, done
<1>5. CASE ~StartsBlank(d, h) /\ StartsBit(d, h)
  <2>1. m = [p EXCEPT !.bit_state = BIT_HIGH, !.tick_count = kHighCount(one), !.one = one]
    BY <1>1, <1>2, <1>5 DEF PulseStep, Ends, StartsBlank, StartsBit
  <2> HIDE DEF done
  <2>2. /\ m.shift_reg = n.shift_reg /\ m.bit_count = n.bit_count
        /\ m.shift_start = n.shift_start /\ m.shift_ready = n.shift_ready
        /\ m.shift_done = done /\ m \in Drivers(Pixels)
        /\ m.bit_state = BIT_HIGH /\ m.tick_count = kHighCount(one)
        /\ m.blank_ready = d.blank_ready /\ m.one = one
    BY <1>1, <1>3, <2>1, Counts DEF Drivers
  <2>3. QED
    BY <1>1, <1>2, <1>5, <2>2 DEF PulseFieldsAre, StartsBlank, StartsBit, Ends, done
<1>6. CASE Ends(d) /\ d.bit_state = BIT_HIGH
  <2>1. m = [p EXCEPT !.bit_state = BIT_LOW, !.tick_count = kLowCount(d.one)]
    BY <1>1, <1>2, <1>6 DEF PulseStep, Ends, StartsBlank, StartsBit
  <2> HIDE DEF done
  <2>2. /\ m.shift_reg = n.shift_reg /\ m.bit_count = n.bit_count
        /\ m.shift_start = n.shift_start /\ m.shift_ready = n.shift_ready
        /\ m.shift_done = done /\ m \in Drivers(Pixels)
        /\ m.bit_state = BIT_LOW /\ m.tick_count = kLowCount(d.one)
        /\ m.blank_ready = d.blank_ready /\ m.one = d.one
    BY <1>1, <1>3, <2>1, Counts DEF Drivers
  <2>3. QED
    BY <1>1, <1>2, <1>6, <2>2 DEF PulseFieldsAre, StartsBlank, StartsBit, Ends, done
<1>7. CASE Ends(d) /\ d.bit_state = BIT_LOW
  <2>1. m = [p EXCEPT !.bit_state = IDLE]
    BY <1>1, <1>2, <1>7 DEF PulseStep, Ends, StartsBlank, StartsBit
  <2> HIDE DEF done
  <2>2. /\ m.shift_reg = n.shift_reg /\ m.bit_count = n.bit_count
        /\ m.shift_start = n.shift_start /\ m.shift_ready = n.shift_ready
        /\ m.shift_done = done /\ m \in Drivers(Pixels)
        /\ m.bit_state = IDLE /\ m.tick_count = d.tick_count
        /\ m.blank_ready = d.blank_ready /\ m.one = d.one
    BY <1>1, <1>3, <2>1, Counts DEF Drivers
  <2>3. QED
    BY <1>1, <1>2, <1>7, <2>2 DEF PulseFieldsAre, StartsBlank, StartsBit, Ends, done
<1>8. CASE Ends(d) /\ d.bit_state = HBLANK
  <2>1. m = [p EXCEPT !.bit_state = IDLE, !.blank_ready = TRUE]
    BY <1>1, <1>2, <1>8 DEF PulseStep, Ends, StartsBlank, StartsBit
  <2> HIDE DEF done
  <2>2. /\ m.shift_reg = n.shift_reg /\ m.bit_count = n.bit_count
        /\ m.shift_start = n.shift_start /\ m.shift_ready = n.shift_ready
        /\ m.shift_done = done /\ m \in Drivers(Pixels)
        /\ m.bit_state = IDLE /\ m.tick_count = d.tick_count
        /\ m.blank_ready = TRUE /\ m.one = d.one
    BY <1>1, <1>3, <2>1, Counts DEF Drivers
  <2>3. QED
    BY <1>1, <1>2, <1>8, <2>2 DEF PulseFieldsAre, StartsBlank, StartsBit, Ends, done
<1>9. CASE ~Ends(d) /\ d.bit_state # IDLE
  <2>1. m = [p EXCEPT !.tick_count = @ - 1]
    BY <1>1, <1>2, <1>9 DEF PulseStep, Ends, StartsBlank, StartsBit
  <2> DEFINE ticks == d.tick_count - 1
  <2>2. ticks \in Nat
    BY <1>1, <1>9 DEF Ends
  <2> HIDE DEF done
  <2>3. p.tick_count = d.tick_count
    BY DEF Drivers
  <2>4. m = [p EXCEPT !.tick_count = ticks]
    BY <2>1, <2>3
  <2> HIDE DEF ticks
  <2>5. /\ m.shift_reg = n.shift_reg /\ m.bit_count = n.bit_count
        /\ m.shift_start = n.shift_start /\ m.shift_ready = n.shift_ready
        /\ m.shift_done = done /\ m \in Drivers(Pixels)
        /\ m.bit_state = d.bit_state /\ m.tick_count = ticks
        /\ m.blank_ready = d.blank_ready /\ m.one = d.one
    BY <1>1, <1>3, <2>2, <2>4 DEF Drivers
  <2>6. QED
    BY <1>1, <1>2, <1>9, <2>5 DEF PulseFieldsAre, StartsBlank, StartsBit, Ends, done, ticks
<1>10. CASE d.bit_state = IDLE /\ ~StartsBlank(d, h) /\ ~StartsBit(d, h)
  <2>1. m = p
    BY <1>1, <1>2, <1>10 DEF PulseStep, Ends, StartsBlank, StartsBit
  <2> HIDE DEF done
  <2>2. /\ m.shift_reg = n.shift_reg /\ m.bit_count = n.bit_count
        /\ m.shift_start = n.shift_start /\ m.shift_ready = n.shift_ready
        /\ m.shift_done = done /\ m \in Drivers(Pixels)
        /\ m.bit_state = IDLE /\ m.tick_count = d.tick_count
        /\ m.blank_ready = d.blank_ready /\ m.one = d.one
    BY <1>1, <1>3, <2>1, Counts, <1>10 DEF Drivers
  <2>3. QED
    BY <1>1, <1>2, <1>10, <2>2 DEF PulseFieldsAre, StartsBlank, StartsBit, Ends, done
<1>11. QED
  BY <1>1, <1>2, <1>4, <1>5, <1>6, <1>7, <1>8, <1>9, <1>10 DEF StartsBlank, StartsBit

LEMMA DriverFields ==
  ASSUME NEW Pixels, NEW d \in Drivers(Pixels), NEW v \in BOOLEAN, NEW p \in Pixels,
         NEW h \in BOOLEAN, NEW one \in BOOLEAN,
         NEW load, load = (v /\ string_ready(d)),
         NEW n, n = DriverStep(d, v, p, h, one)
  PROVE  ShiftFieldsAre(d, load, p, n) /\ PulseFieldsAre(d, h, one, n, n) /\ n \in Drivers(Pixels)
<1>1. PICK m : m = ShiftStep(d, v, p)
  OBVIOUS
<1>2. n = PulseStep(d, h, one, m)
  BY <1>1 DEF DriverStep
<1>3. /\ ShiftFieldsAre(d, load, p, m) /\ m \in Drivers(Pixels)
      /\ m.bit_state = d.bit_state /\ m.tick_count = d.tick_count
      /\ m.blank_ready = d.blank_ready /\ m.one = d.one
  BY <1>1, ShiftFields
<1>4. PulseFieldsAre(d, h, one, m, n) /\ n \in Drivers(Pixels)
  BY <1>2, <1>3, PulseFields
<1>5. n.shift_reg = m.shift_reg /\ n.bit_count = m.bit_count
      /\ n.shift_start = m.shift_start /\ n.shift_ready = m.shift_ready
  BY <1>4 DEF PulseFieldsAre
<1>6. ShiftFieldsAre(d, load, p, n)
  BY <1>3, <1>5 DEF ShiftFieldsAre
<1>7. PulseFieldsAre(d, h, one, n, n)
  BY <1>4 DEF PulseFieldsAre
<1>8. QED
  BY <1>4, <1>6, <1>7

\* How the registers of a driver go together.
DriverSound(d) ==
  /\ d.blank_ready = (d.bit_state # HBLANK)
  /\ d.shift_start => d.bit_state \in {IDLE, HBLANK} /\ ~d.shift_ready /\ ~d.shift_done
  /\ d.shift_done => d.bit_state = IDLE
  /\ d.shift_ready => d.bit_state \in {IDLE, HBLANK} /\ d.bit_count = 0
  /\ ~d.shift_ready /\ (d.shift_start \/ d.shift_done \/ d.bit_state # IDLE) =>
       d.bit_count + d.shift_reg.shifts = DATA_WIDTH - 1

\* The registers stay together so, if no blanking is asked for between two bits.
LEMMA DriverStaysSound ==
  ASSUME NEW Pixels, NEW d \in Drivers(Pixels), NEW p, NEW h \in BOOLEAN, NEW one,
         NEW load, load => string_ready(d), load \in BOOLEAN, NEW n \in Drivers(Pixels),
         ShiftFieldsAre(d, load, p, n), PulseFieldsAre(d, h, one, n, n), DriverSound(d),
         h => d.shift_ready \/ d.shift_start \/ d.bit_state = HBLANK
  PROVE  DriverSound(n)
<1> USE DEF IDLE, BIT_HIGH, BIT_LOW, HBLANK
<1>1. /\ d.bit_state \in {IDLE, BIT_HIGH, BIT_LOW, HBLANK} /\ d.tick_count \in Nat
      /\ d.bit_count \in 0 .. DATA_WIDTH - 1 /\ d.shift_reg.shifts \in 0 .. DATA_WIDTH
      /\ d.shift_start \in BOOLEAN /\ d.shift_ready \in BOOLEAN
      /\ d.shift_done \in BOOLEAN /\ d.blank_ready \in BOOLEAN
      /\ n.shift_start \in BOOLEAN /\ n.shift_ready \in BOOLEAN
      /\ n.shift_done \in BOOLEAN /\ n.blank_ready \in BOOLEAN
  BY DEF Drivers
<1>2. /\ d.blank_ready = (d.bit_state # HBLANK)
      /\ d.shift_start => d.bit_state \in {IDLE, HBLANK} /\ ~d.shift_ready /\ ~d.shift_done
      /\ d.shift_done => d.bit_state = IDLE
      /\ d.shift_ready => d.bit_state \in {IDLE, HBLANK} /\ d.bit_count = 0
  BY DEF DriverSound
<1>3. n.blank_ready = (n.bit_state # HBLANK)
  BY <1>1, <1>2 DEF PulseFieldsAre, StartsBlank, StartsBit, Ends
<1>4. load => d.shift_ready /\ d.bit_state = IDLE
  BY <1>1, <1>2 DEF string_ready
<1>5. n.shift_start => n.bit_state \in {IDLE, HBLANK} /\ ~n.shift_ready /\ ~n.shift_done
  BY <1>1, <1>2, <1>4
     DEF PulseFieldsAre, ShiftFieldsAre, StartsBlank, StartsBit, Ends, LastLowTick
<1>6. n.shift_done => n.bit_state = IDLE
  BY <1>1 DEF PulseFieldsAre, StartsBlank, StartsBit, Ends
<1>7. n.shift_ready => n.bit_state \in {IDLE, HBLANK} /\ n.bit_count = 0
  BY <1>1, <1>2, <1>4
     DEF PulseFieldsAre, ShiftFieldsAre, StartsBlank, StartsBit, Ends, LastLowTick
<1>8. ASSUME ~n.shift_ready, n.shift_start \/ n.shift_done \/ n.bit_state # IDLE
      PROVE  n.bit_count + n.shift_reg.shifts = DATA_WIDTH - 1
  <2>1. CASE load
    BY <2>1, WidthAssumption DEF ShiftFieldsAre, Shifted, WidthAssumption
  <2>2. CASE ~load
    <3>1. ~d.shift_ready
      BY <1>1, <1>8, <2>2 DEF ShiftFieldsAre
    <3>2. d.shift_start \/ d.shift_done \/ d.bit_state # IDLE
      BY <1>1, <1>8, <2>2, <3>1
         DEF PulseFieldsAre, ShiftFieldsAre, StartsBlank, StartsBit, Ends
    <3>3. d.bit_count + d.shift_reg.shifts = DATA_WIDTH - 1
      BY <3>1, <3>2 DEF DriverSound
    <3>4. CASE d.shift_done
      <4>1. d.bit_count > 0
        BY <1>1, <1>2, <1>8, <2>2, <3>1, <3>4
           DEF PulseFieldsAre, ShiftFieldsAre, StartsBlank, StartsBit, Ends
      <4>2. QED
        BY <1>1, <2>2, <3>3, <3>4, <4>1, WidthAssumption
           DEF ShiftFieldsAre, Shifted, WidthAssumption
    <3>5. CASE ~d.shift_done
      BY <2>2, <3>3, <3>5 DEF ShiftFieldsAre
    <3>6. QED
      BY <1>1, <3>4, <3>5
  <2>3. QED
    BY <2>1, <2>2
<1>9. QED
  BY <1>3, <1>5, <1>6, <1>7, <1>8 DEF DriverSound

-----------------------------------------------------------------------------
(* How long a pixel takes                                                  *)

\* At the clock of the design a one takes as long as a zero.
SamePulses == get_count(800) + get_count(450) = get_count(400) + get_count(850)

PulseTicks == get_count(800) + get_count(450) - 4
BitTicks   == PulseTicks + 4
PixelTicks == (DATA_WIDTH - 1) * BitTicks + PulseTicks + 3

\* A driver that is not ready is on its way to the next bit.
Busy(d) ==
  ~d.shift_ready =>
    /\ d.bit_state # HBLANK
    /\ d.bit_state = IDLE => d.shift_start \/ (d.shift_done /\ d.bit_count > 0)

\* Edges until a driver is ready.
TicksOfBit(d) ==
  IF d.bit_state = BIT_HIGH THEN d.tick_count + kLowCount(d.one) + 2
  ELSE IF d.bit_state = BIT_LOW THEN d.tick_count + 1
  ELSE IF d.shift_start THEN PulseTicks + 3
  ELSE 0

ToReady(d) ==
  IF d.shift_ready THEN IF d.bit_state = HBLANK THEN d.tick_count + 1 ELSE 0
                   ELSE d.bit_count * BitTicks + TicksOfBit(d)

\* The bits of its pixel that are on the wire.
BitsSent(d) ==
  IF d.shift_ready THEN DATA_WIDTH ELSE d.shift_reg.shifts + (IF d.shift_start THEN 0 ELSE 1)

LEMMA PulseNumbers ==
  /\ PulseTicks \in Nat /\ PulseTicks >= 1 /\ BitTicks \in Nat /\ BitTicks = PulseTicks + 4
  /\ PixelTicks \in Nat
  /\ DATA_WIDTH >= 2 => PixelTicks >= 9
<1>1. \A x \in Nat : x >= 400 => get_count(x) \in Nat /\ get_count(x) >= 2
  BY ClockAssumption, AtLeastTwo DEF get_count, ClockAssumption
<1>2. get_count(800) >= 3
  <2>1. \A c \in 1 .. 399 : (800 + c - 1) \div c >= 3
    BY SMT
  <2>2. QED
    BY <2>1, ClockAssumption DEF get_count, ClockAssumption
<1>3. PulseTicks \in Nat /\ PulseTicks >= 1 /\ BitTicks \in Nat /\ BitTicks = PulseTicks + 4
  BY <1>1, <1>2 DEF PulseTicks, BitTicks
<1>4. DATA_WIDTH - 1 \in Nat
  BY WidthAssumption DEF WidthAssumption
<1>5. /\ (DATA_WIDTH - 1) * BitTicks \in Nat
      /\ DATA_WIDTH - 1 # 0 => (DATA_WIDTH - 1) * BitTicks >= BitTicks
  BY <1>3, <1>4, Times
<1>6. QED
  BY <1>3, <1>5, WidthAssumption DEF PixelTicks, WidthAssumption

LEMMA PulseIs ==
  ASSUME SamePulses, NEW one \in BOOLEAN
  PROVE  kHighCount(one) + kLowCount(one) = PulseTicks
<1>1. \A x \in Nat : x >= 400 => get_count(x) \in Nat
  BY ClockAssumption, AtLeastTwo DEF get_count, ClockAssumption
<1>2. CASE one
  BY <1>1, <1>2 DEF kHighCount, kLowCount, PulseTicks
<1>3. CASE ~one
  BY <1>1, <1>3 DEF kHighCount, kLowCount, PulseTicks, SamePulses
<1>4. QED
  BY <1>2, <1>3

LEMMA ReadyIsZero ==
  ASSUME NEW Pixels, NEW d \in Drivers(Pixels), DriverSound(d), Busy(d)
  PROVE  ToReady(d) \in Nat /\ (ToReady(d) = 0 <=> string_ready(d))
<1>1. /\ d.bit_state \in {IDLE, BIT_HIGH, BIT_LOW, HBLANK} /\ d.tick_count \in Nat
      /\ d.bit_count \in Nat
      /\ d.shift_start \in BOOLEAN /\ d.shift_ready \in BOOLEAN
      /\ d.shift_done \in BOOLEAN /\ d.blank_ready \in BOOLEAN /\ d.one \in BOOLEAN
  BY DEF Drivers
<1>2. d.blank_ready = (d.bit_state # HBLANK)
  BY DEF DriverSound
<1>3. kLowCount(d.one) \in Nat
  BY <1>1, Counts
<1>4. d.bit_count * BitTicks \in Nat /\ (d.bit_count # 0 => d.bit_count * BitTicks >= BitTicks)
  BY <1>1, PulseNumbers, Times
<1>5. CASE d.shift_ready
  <2>1. CASE d.bit_state = HBLANK
    <3>1. ToReady(d) = d.tick_count + 1
      BY <1>5, <2>1 DEF ToReady
    <3>2. ~string_ready(d)
      BY <1>1, <1>2, <2>1 DEF string_ready
    <3>3. QED
      BY <1>1, <3>1, <3>2
  <2>2. CASE d.bit_state # HBLANK
    <3>1. ToReady(d) = 0
      BY <1>5, <2>2 DEF ToReady
    <3>2. string_ready(d)
      BY <1>1, <1>2, <1>5, <2>2 DEF string_ready
    <3>3. QED
      BY <3>1, <3>2
  <2>3. QED
    BY <2>1, <2>2
<1>6. CASE ~d.shift_ready
  <2>1. TicksOfBit(d) \in Nat /\ (TicksOfBit(d) = 0 => d.bit_count > 0)
    BY <1>1, <1>3, <1>6, PulseNumbers DEF Busy, TicksOfBit
  <2>2. ToReady(d) = d.bit_count * BitTicks + TicksOfBit(d)
    BY <1>6 DEF ToReady
  <2>3. QED
    BY <1>1, <1>4, <1>6, <2>1, <2>2, PulseNumbers DEF string_ready
<1>7. QED
  BY <1>1, <1>5, <1>6

\* Out of a blanking, the next bit starts.
StartsNext(d) == d.bit_state = IDLE /\ d.shift_start

\* What an edge without a blanking pulse does to these numbers, as long as h_blank is low.
Advances(d, load, p, n) ==
  /\ Busy(n)
  /\ ToReady(n) = IF load THEN PixelTicks
                  ELSE IF ToReady(d) = 0 THEN 0 ELSE ToReady(d) - 1
  /\ load => ~n.shift_ready /\ n.shift_reg.pixel = p /\ BitsSent(n) = 0
  /\ ~load => BitsSent(n) = BitsSent(d) + (IF StartsNext(d) THEN 1 ELSE 0)
  /\ ~load /\ ~n.shift_ready => ~d.shift_ready /\ n.shift_reg.pixel = d.shift_reg.pixel
  /\ StartsNext(d) => ~load /\ ~d.shift_ready /\ d.shift_reg.shifts = BitsSent(d)

LEMMA DriverAdvances ==
  ASSUME SamePulses, NEW Pixels, NEW d \in Drivers(Pixels), NEW p, NEW one \in BOOLEAN,
         NEW load, load => string_ready(d), load \in BOOLEAN, NEW n \in Drivers(Pixels),
         ShiftFieldsAre(d, load, p, n), PulseFieldsAre(d, FALSE, one, n, n),
         DriverSound(d), Busy(d)
  PROVE  Advances(d, load, p, n)
<1> USE DEF IDLE, BIT_HIGH, BIT_LOW, HBLANK
<1>1. /\ d.bit_state \in {IDLE, BIT_HIGH, BIT_LOW, HBLANK} /\ d.tick_count \in Nat
      /\ d.bit_count \in Nat /\ d.shift_reg.shifts \in 0 .. DATA_WIDTH
      /\ d.shift_start \in BOOLEAN /\ d.shift_ready \in BOOLEAN
      /\ d.shift_done \in BOOLEAN /\ d.blank_ready \in BOOLEAN /\ d.one \in BOOLEAN
      /\ n.shift_start \in BOOLEAN /\ n.shift_ready \in BOOLEAN
      /\ n.shift_done \in BOOLEAN /\ n.blank_ready \in BOOLEAN /\ n.one \in BOOLEAN
  BY DEF Drivers
<1>2. /\ d.shift_start => d.bit_state \in {IDLE, HBLANK} /\ ~d.shift_ready /\ ~d.shift_done
      /\ d.shift_done => d.bit_state = IDLE
      /\ d.shift_ready => d.bit_state \in {IDLE, HBLANK} /\ d.bit_count = 0
  BY DEF DriverSound
<1>3. load => d.shift_ready /\ d.bit_state = IDLE
  BY <1>1, <1>2 DEF string_ready, DriverSound
<1>4. kLowCount(d.one) \in Nat /\ kHighCount(one) \in Nat /\ kLowCount(one) \in Nat
  BY <1>1, Counts
<1>5. PulseTicks \in Nat /\ PulseTicks >= 1 /\ BitTicks \in Nat /\ BitTicks = PulseTicks + 4
  BY PulseNumbers
<1>6. d.bit_count * BitTicks \in Nat /\ (d.bit_count # 0 => d.bit_count * BitTicks >= BitTicks)
  BY <1>1, <1>5, Times
<1>7. CASE load
  <2>1. /\ n.shift_reg = Shifted(p, 0) /\ n.bit_count = DATA_WIDTH - 1
        /\ n.shift_start /\ ~n.shift_ready /\ n.bit_state = IDLE
        /\ ~StartsNext(d)
    BY <1>1, <1>2, <1>3, <1>7
       DEF ShiftFieldsAre, PulseFieldsAre, StartsBlank, StartsBit, StartsNext, Ends, LastLowTick
  <2>2. n.shift_reg.pixel = p /\ n.shift_reg.shifts = 0
    BY <2>1, WidthAssumption DEF Shifted, WidthAssumption
  <2>3. Busy(n) /\ BitsSent(n) = 0
    BY <2>1, <2>2 DEF Busy, BitsSent
  <2>4. ToReady(n) = PixelTicks
    <3>1. DATA_WIDTH - 1 \in Nat
      BY WidthAssumption DEF WidthAssumption
    <3>2. (DATA_WIDTH - 1) * BitTicks \in Nat
      BY <1>5, <3>1, Times
    <3>3. QED
      BY <1>5, <2>1, <3>2 DEF ToReady, TicksOfBit, PixelTicks
  <2>5. QED
    BY <1>7, <2>1, <2>2, <2>3, <2>4 DEF Advances
<1>8. CASE ~load /\ d.shift_ready
  <2>1. n.shift_ready /\ ~StartsNext(d)
    BY <1>1, <1>2, <1>8 DEF ShiftFieldsAre, StartsNext
  <2>2. Busy(n) /\ BitsSent(n) = DATA_WIDTH /\ BitsSent(d) = DATA_WIDTH
    BY <1>8, <2>1 DEF Busy, BitsSent
  <2>3. ToReady(n) = IF ToReady(d) = 0 THEN 0 ELSE ToReady(d) - 1
    <3>1. CASE d.bit_state = IDLE
      <4>1. n.bit_state = IDLE
        BY <1>1, <1>2, <1>8, <3>1 DEF PulseFieldsAre, StartsBlank, StartsBit, StartsNext, Ends
      <4>2. QED
        BY <1>8, <2>1, <3>1, <4>1 DEF ToReady
    <3>2. CASE d.bit_state = HBLANK
      <4>1. /\ n.bit_state = IF d.tick_count = 0 THEN IDLE ELSE HBLANK
            /\ d.tick_count # 0 => n.tick_count = d.tick_count - 1
        BY <1>1, <1>2, <1>8, <3>2 DEF PulseFieldsAre, StartsBlank, StartsBit, StartsNext, Ends
      <4>2. QED
        BY <1>1, <1>8, <2>1, <3>2, <4>1 DEF ToReady
    <3>3. QED
      BY <1>2, <1>8, <3>1, <3>2
  <2>4. QED
    BY <1>8, <2>1, <2>2, <2>3, WidthAssumption DEF Advances, WidthAssumption
<1>9. CASE ~load /\ ~d.shift_ready
  <2>1. ToReady(d) = d.bit_count * BitTicks + TicksOfBit(d)
    BY <1>9 DEF ToReady
  <2>2. BitsSent(d) = d.shift_reg.shifts + (IF d.shift_start THEN 0 ELSE 1)
    BY <1>9 DEF BitsSent
  <2>3. d.bit_state # HBLANK
    BY <1>9 DEF Busy
  <2>4. d.bit_state # IDLE \/ d.shift_start \/ d.shift_done =>
          d.bit_count + d.shift_reg.shifts = DATA_WIDTH - 1
    BY <1>9 DEF DriverSound
  <2>5. CASE d.bit_state = IDLE /\ d.shift_start
    <3>1. /\ n.bit_state = BIT_HIGH /\ n.tick_count = kHighCount(one) /\ n.one = one
          /\ ~n.shift_ready /\ ~n.shift_start /\ n.bit_count = d.bit_count
          /\ n.shift_reg = d.shift_reg /\ StartsNext(d)
      BY <1>1, <1>2, <1>9, <2>5
         DEF ShiftFieldsAre, PulseFieldsAre, StartsBlank, StartsBit, StartsNext, Ends, LastLowTick
    <3>2. TicksOfBit(d) = PulseTicks + 3 /\ TicksOfBit(n) = kHighCount(one) + kLowCount(one) + 2
      BY <2>5, <3>1 DEF TicksOfBit
    <3>3. ToReady(n) = d.bit_count * BitTicks + PulseTicks + 2
      BY <1>4, <1>5, <1>6, <3>1, <3>2, PulseIs DEF ToReady
    <3>4. BitsSent(n) = BitsSent(d) + 1 /\ BitsSent(d) = d.shift_reg.shifts
      BY <1>1, <2>2, <2>5, <3>1 DEF BitsSent
    <3>5. Busy(n)
      BY <3>1 DEF Busy
    <3>6. ToReady(n) = IF ToReady(d) = 0 THEN 0 ELSE ToReady(d) - 1
      BY <1>5, <1>6, <2>1, <3>2, <3>3
    <3>7. QED
      BY <1>9, <3>1, <3>4, <3>5, <3>6 DEF Advances
  <2>6. CASE d.bit_state = IDLE /\ ~d.shift_start
    <3>1. d.shift_done /\ d.bit_count > 0
      BY <1>9, <2>6 DEF Busy
    <3>2. /\ n.bit_state = IDLE /\ ~n.shift_ready /\ n.shift_start
          /\ n.bit_count = d.bit_count - 1
          /\ n.shift_reg = Shifted(d.shift_reg.pixel, d.shift_reg.shifts + 1)
          /\ ~StartsNext(d)
      BY <1>1, <1>9, <2>6, <3>1
         DEF ShiftFieldsAre, PulseFieldsAre, StartsBlank, StartsBit, StartsNext, Ends, LastLowTick
    <3>3. n.shift_reg.pixel = d.shift_reg.pixel /\ n.shift_reg.shifts = d.shift_reg.shifts + 1
      BY <1>1, <2>4, <3>1, <3>2, WidthAssumption DEF Shifted, WidthAssumption
    <3>4. TicksOfBit(d) = 0 /\ TicksOfBit(n) = PulseTicks + 3
      BY <2>6, <3>2 DEF TicksOfBit
    <3>5. (d.bit_count - 1) * BitTicks = d.bit_count * BitTicks - BitTicks
      BY <1>1, <1>5, SMT
    <3>6. ToReady(n) = d.bit_count * BitTicks - BitTicks + PulseTicks + 3
      BY <1>5, <1>6, <3>2, <3>4, <3>5 DEF ToReady
    <3>7. BitsSent(n) = BitsSent(d)
      BY <1>1, <2>2, <2>6, <3>2, <3>3 DEF BitsSent
    <3>8. Busy(n)
      BY <3>2 DEF Busy
    <3>9. ToReady(n) = IF ToReady(d) = 0 THEN 0 ELSE ToReady(d) - 1
      BY <1>5, <1>6, <2>1, <3>1, <3>4, <3>6
    <3>10. BitsSent(d) \in Nat
      BY <1>1, <2>2
    <3>11. QED
      BY <1>9, <3>2, <3>3, <3>7, <3>8, <3>9, <3>10 DEF Advances
  <2>7. CASE d.bit_state = BIT_HIGH
    <3>1. /\ ~n.shift_ready /\ ~n.shift_start /\ ~d.shift_start /\ n.bit_count = d.bit_count
          /\ n.shift_reg = d.shift_reg /\ ~StartsNext(d)
      BY <1>1, <1>2, <1>9, <2>7
         DEF ShiftFieldsAre, StartsBit, StartsNext, LastLowTick
    <3>2. /\ d.tick_count = 0 => n.bit_state = BIT_LOW /\ n.tick_count = kLowCount(d.one)
          /\ d.tick_count # 0 => /\ n.bit_state = BIT_HIGH /\ n.tick_count = d.tick_count - 1
                                 /\ n.one = d.one
      BY <1>1, <2>7 DEF PulseFieldsAre, StartsBlank, StartsBit, StartsNext, Ends
    <3>3. TicksOfBit(d) = d.tick_count + kLowCount(d.one) + 2
      BY <2>7 DEF TicksOfBit
    <3>4. TicksOfBit(n) = d.tick_count + kLowCount(d.one) + 1
      BY <1>1, <1>4, <3>2 DEF TicksOfBit
    <3>5. ToReady(n) = d.bit_count * BitTicks + TicksOfBit(n)
      BY <3>1 DEF ToReady
    <3>6. BitsSent(n) = BitsSent(d) /\ BitsSent(d) \in Nat
      BY <1>1, <2>2, <3>1 DEF BitsSent
    <3>7. Busy(n)
      BY <1>1, <3>2 DEF Busy
    <3>8. ToReady(n) = IF ToReady(d) = 0 THEN 0 ELSE ToReady(d) - 1
      BY <1>1, <1>4, <1>6, <2>1, <3>3, <3>4, <3>5
    <3>9. QED
      BY <1>9, <3>1, <3>6, <3>7, <3>8 DEF Advances
  <2>8. CASE d.bit_state = BIT_LOW
    <3>1. /\ ~n.shift_start /\ ~d.shift_start /\ n.bit_count = d.bit_count
          /\ n.shift_reg = d.shift_reg /\ ~StartsNext(d)
          /\ n.shift_ready <=> d.bit_count = 0 /\ d.tick_count = 0
      BY <1>1, <1>2, <1>9, <2>8 DEF ShiftFieldsAre, StartsBit, StartsNext, LastLowTick
    <3>2. /\ d.tick_count = 0 => n.bit_state = IDLE /\ n.shift_done
          /\ d.tick_count # 0 => n.bit_state = BIT_LOW /\ n.tick_count = d.tick_count - 1
      BY <1>1, <2>8 DEF PulseFieldsAre, StartsBlank, StartsBit, StartsNext, Ends
    <3>3. TicksOfBit(d) = d.tick_count + 1
      BY <2>8 DEF TicksOfBit
    <3>4. Busy(n)
      BY <1>1, <3>1, <3>2 DEF Busy
    <3>5. BitsSent(d) = d.shift_reg.shifts + 1
      BY <2>2, <3>1
    <3>6. CASE n.shift_ready
      <4>1. ToReady(n) = 0 /\ d.bit_count = 0 /\ d.tick_count = 0
        BY <3>1, <3>2, <3>6 DEF ToReady
      <4>2. BitsSent(n) = BitsSent(d)
        BY <1>1, <2>4, <2>8, <3>5, <3>6, <4>1, WidthAssumption DEF BitsSent, WidthAssumption
      <4>3. ToReady(d) = 1
        BY <1>6, <2>1, <3>3, <4>1, <1>5, Times
      <4>4. BitsSent(d) \in Nat
        BY <1>1, <3>5
      <4>5. QED
        BY <1>9, <3>1, <3>4, <3>6, <4>1, <4>2, <4>3, <4>4 DEF Advances
    <3>7. CASE ~n.shift_ready
      <4>1. TicksOfBit(n) = d.tick_count
        BY <1>1, <3>1, <3>2 DEF TicksOfBit
      <4>2. ToReady(n) = d.bit_count * BitTicks + d.tick_count
        BY <3>1, <3>7, <4>1 DEF ToReady
      <4>3. ToReady(n) = IF ToReady(d) = 0 THEN 0 ELSE ToReady(d) - 1
        BY <1>1, <1>6, <2>1, <3>3, <4>2
      <4>4. BitsSent(n) = BitsSent(d) /\ BitsSent(d) \in Nat
        BY <1>1, <3>1, <3>5, <3>7 DEF BitsSent
      <4>5. QED
        BY <1>9, <3>1, <3>4, <3>7, <4>3, <4>4 DEF Advances
    <3>8. QED
      BY <3>6, <3>7
  <2>9. QED
    BY <1>1, <2>3, <2>5, <2>6, <2>7, <2>8
<1>10. QED
  BY <1>7, <1>8, <1>9

\* A blanking pulse starts at an edge at which the driver is ready and gets no pixel.
LEMMA DriverBlanks ==
  ASSUME NEW Pixels, NEW d \in Drivers(Pixels), NEW p, NEW one \in BOOLEAN,
         NEW n \in Drivers(Pixels),
         ShiftFieldsAre(d, FALSE, p, n), PulseFieldsAre(d, TRUE, one, n, n),
         DriverSound(d), string_ready(d)
  PROVE  /\ n.shift_ready /\ Busy(n) /\ ToReady(n) = kHBlankCount + 1
         /\ BitsSent(n) = DATA_WIDTH /\ StartsBlank(d, TRUE)
<1> USE DEF IDLE, BIT_HIGH, BIT_LOW, HBLANK
<1>1. d.shift_ready /\ d.bit_state = IDLE
  BY DEF string_ready, DriverSound, Drivers
<1>2. n.shift_ready /\ n.bit_state = HBLANK /\ n.tick_count = kHBlankCount
  BY <1>1 DEF ShiftFieldsAre, PulseFieldsAre, StartsBlank
<1>3. QED
  BY <1>1, <1>2 DEF Busy, ToReady, BitsSent, StartsBlank

===============================================================================
