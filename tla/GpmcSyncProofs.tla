---------------------------- MODULE GpmcSyncProofs ----------------------------
(***************************************************************************)
(* Proofs about the bus bridge, for every set of registers and words and   *)
(* every pace of the bus that leaves three edges of clk_100 between two    *)
(* phases and five before a word is sampled, in a run without a second     *)
(* reset.                                                                  *)
(***************************************************************************)
EXTENDS GpmcSync, TLAPS, SequenceTheorems

\* What the device tree sets.
PacedBus == PhaseGap >= 3 /\ ReadGap >= 5 /\ ~ResetAgain

-----------------------------------------------------------------------------
(* The toggle of a kind of phase and its three flops                       *)

Settled(k) == tgl[k] = ms[k] /\ ms[k] = cpu[k] /\ cpu[k] = q[k]
Flipped(k) == tgl[k] # ms[k] /\ ms[k] = cpu[k] /\ cpu[k] = q[k]
Caught(k)  == tgl[k] = ms[k] /\ ms[k] # cpu[k] /\ cpu[k] = q[k]
Showing(k) == tgl[k] = ms[k] /\ ms[k] = cpu[k] /\ cpu[k] # q[k]

\* The toggle has stood still since the last phase, or longer.
StoodStill(k) ==
  /\ pause >= 1 => tgl[k] = ms[k]
  /\ pause >= 2 => ms[k] = cpu[k]
  /\ pause >= 3 => cpu[k] = q[k]

Writing == req /\ req_is_wr

\* An acknowledged write holds the flop of the address for an edge.
Ack == wr_ack \/ (RegisterAcks /\ req_is_wr)

Paced ==
  /\ moving # "none" => pause = 0
  /\ Writing => pause # 1 /\ pause # 2
  /\ wr_ack => pause # 2

\* The address is over, or on its way: at most an edge late, and while it shows no
\* address phase can come.
AddressOnTime ==
  /\ \/ Settled("address") /\ addr_cpu = addr_lcl
     \/ Flipped("address") /\ pause = 0 /\ access \in {"write", "read"}
     \/ Caught("address") /\ pause \in {1, 2}
     \/ Showing("address") /\ pause \in {0, 2, 3} /\ moving # "address"
  /\ Settled("address") \/ access \in {"write", "read"} \/ pause = 0

Shown == IF Writing THEN <<<<addr_cpu, wr_data>>>> ELSE <<>>
OnItsWay == <<addr_lcl, data_out_lcl>>
Both == IF Writing THEN <<<<addr_cpu, wr_data>>, OnItsWay>> ELSE <<OnItsWay>>

\* The writes that are owed are the request that shows and the one on its way.
WriteOnTime ==
  /\ \/ Settled("write") /\ owed = Shown
     \/ Flipped("write") /\ pause = 0 /\ owed = Both
     \/ Caught("write") /\ pause = 1 /\ owed = <<OnItsWay>>
     \/ Showing("write") /\ pause = 2 /\ owed = <<OnItsWay>>
  /\ \/ Settled("write") \/ Settled("address")
     \/ Flipped("write") /\ Showing("address")
  /\ access \in {"read", "reading"} => Settled("write")

\* A word that is being read, from the phase on the bus to the moment it is there.
ReadOnTime ==
  /\ access = "none" => StoodStill("read")
  /\ access \in {"write", "read"} => Settled("read")
  /\ access = "reading" =>
       /\ pause = 0 => Flipped("read")
       /\ pause = 1 => Caught("read")
       /\ pause = 2 => Showing("read")
       /\ pause = 3 => req /\ ~req_is_wr
       /\ pause = 4 => IF addr_lcl = Window THEN rd_ack ELSE data_in_lcl = addr_lcl
       /\ pause >= 2 /\ rd_ack => addr_lcl = Window
       /\ pause >= 5 => data_in_lcl = IF addr_lcl \in Registers THEN addr_lcl ELSE Zero

\* Before the reset is released nothing has happened on the bus.
BusQuiet ==
  tgl = AllZero /\ access = "none" /\ addr_lcl = ID_REG /\ owed = <<>> /\ moving = "none"

BridgeInv ==
  /\ TypeOK
  /\ reset => BusQuiet
  /\ ~reset => Paced /\ AddressOnTime /\ WriteOnTime /\ ReadOnTime

-----------------------------------------------------------------------------
(* One edge of clk_100 moves a toggle on by one flop                       *)

Flop == [Kinds -> {0, 1}]

LEMMA HoldOneBit == ASSUME NEW b \in {0, 1} PROVE (b + 2) % 2 = b
  OBVIOUS

\* What an edge makes of the flops of a kind of access.
LEMMA EdgeOfFlops ==
  ASSUME TypeOK, Synchronise, UNCHANGED tgl, NEW k \in Kinds
  PROVE  /\ tgl'[k] = tgl[k] /\ ms'[k] = tgl[k] /\ q'[k] = cpu[k]
         /\ cpu'[k] = IF Ack /\ k = "address" THEN cpu[k] ELSE ms[k]
         /\ tgl[k] \in {0, 1} /\ ms[k] \in {0, 1} /\ cpu[k] \in {0, 1} /\ q[k] \in {0, 1}
         /\ cpu' \in Flop
<1>1. tgl \in Flop /\ ms \in Flop /\ cpu \in Flop /\ q \in Flop
  BY DEF TypeOK, Flop
<1>2. tgl'[k] = tgl[k] /\ ms'[k] = tgl[k] /\ q'[k] = cpu[k]
  BY DEF Synchronise
<1>3. "address" \in Kinds /\ cpu["address"] \in {0, 1}
  BY <1>1 DEF Kinds, Flop
<1>4. (cpu["address"] + 2) % 2 = cpu["address"]
  BY <1>3, HoldOneBit
<1>5. cpu' = IF Ack THEN [ms EXCEPT !["address"] = cpu["address"]] ELSE ms
  BY <1>4 DEF Synchronise, Ack
<1>6. cpu' \in Flop /\ cpu'[k] = IF Ack /\ k = "address" THEN cpu[k] ELSE ms[k]
  BY <1>1, <1>3, <1>5 DEF Flop
<1>7. QED
  BY <1>1, <1>2, <1>6 DEF Flop

LEMMA AddressEdge ==
  ASSUME TypeOK, Synchronise, UNCHANGED tgl
  PROVE  /\ Settled("address") => Settled("address")'
         /\ Flipped("address") => Caught("address")'
         /\ Caught("address") => IF Ack THEN Caught("address")' ELSE Showing("address")'
         /\ Showing("address") => Settled("address")'
<1>1. "address" \in Kinds
  BY DEF Kinds
<1>2. QED
  BY <1>1, EdgeOfFlops DEF Settled, Flipped, Caught, Showing

LEMMA OtherEdge ==
  ASSUME TypeOK, Synchronise, UNCHANGED tgl, NEW k \in {"read", "write"}
  PROVE  /\ Settled(k) => Settled(k)'
         /\ Flipped(k) => Caught(k)'
         /\ Caught(k) => Showing(k)'
         /\ Showing(k) => Settled(k)'
<1>1. k \in Kinds /\ k # "address"
  BY DEF Kinds
<1>2. /\ tgl'[k] = tgl[k] /\ ms'[k] = tgl[k] /\ q'[k] = cpu[k] /\ cpu'[k] = ms[k]
  BY <1>1, EdgeOfFlops
<1>3. QED
  BY <1>2 DEF Settled, Flipped, Caught, Showing

LEMMA ShortSequences ==
  ASSUME NEW a, NEW b
  PROVE  /\ Append(<<>>, a) = <<a>> /\ Append(<<a>>, b) = <<a, b>>
         /\ <<a, b>> # <<>> /\ Tail(<<a, b>>) = <<b>> /\ Head(<<a, b>>) = a
<1>1. Append(<<>>, a) = <<a>>
  OBVIOUS
<1>2. Append(<<a>>, b) = <<a, b>>
  <2> DEFINE s == Append(<<a>>, b)
             t == <<a, b>>
  <2>1. <<a>> \in Seq({a, b}) /\ t \in Seq({a, b}) /\ Len(<<a>>) = 1
        /\ Len(t) = 2 /\ t[1] = a /\ t[2] = b
    OBVIOUS
  <2>2. s \in Seq({a, b}) /\ Len(s) = 2 /\ s[1] = a /\ s[2] = b
    BY <2>1
  <2>3. \A i \in 1 .. Len(s) : s[i] = t[i]
    <3> SUFFICES ASSUME NEW i \in 1 .. Len(s) PROVE s[i] = t[i]
      OBVIOUS
    <3>1. i = 1 \/ i = 2
      BY <2>2
    <3>2. QED
      BY <2>1, <2>2, <3>1
  <2> HIDE DEF s, t
  <2>4. s = t
    BY <2>1, <2>2, <2>3, SeqEqual
  <2>5. QED
    BY <2>4 DEF s, t
<1>3. <<a, b>> # <<>>
  OBVIOUS
<1>4. Tail(<<a, b>>) = <<b>>
  OBVIOUS
<1>5. Head(<<a, b>>) = a
  OBVIOUS
<1>6. QED
  BY <1>1, <1>2, <1>3, <1>4, <1>5

\* A phase flips one toggle.
LEMMA PhaseFlips ==
  ASSUME TypeOK, NEW k \in Kinds, tgl' = [tgl EXCEPT ![k] = 1 - @]
  PROVE  /\ tgl' \in Flop /\ tgl[k] \in {0, 1} /\ tgl'[k] = 1 - tgl[k]
         /\ \A j \in Kinds \ {k} : tgl'[j] = tgl[j]
<1>1. tgl \in Flop /\ tgl[k] \in {0, 1}
  BY DEF TypeOK, Flop
<1>2. QED
  BY <1>1 DEF Flop

-----------------------------------------------------------------------------
(* The three parts of the invariant over an edge out of reset              *)

Edge == Synchronise /\ Request /\ WindowAck /\ owed' = Answered
        /\ pause' = (IF pause < ReadGap THEN pause + 1 ELSE pause)
        /\ moving' = "none"
        /\ UNCHANGED <<access, addr_lcl, data_out_lcl, tgl>>

LEMMA PauseEdge ==
  ASSUME PacedBus, TypeOK, Edge
  PROVE  /\ pause \in Nat /\ pause' \in 0 .. ReadGap
         /\ pause <= 4 => pause' = pause + 1
         /\ pause >= 5 => pause' >= 5
  BY GapAssumption DEF PacedBus, GapAssumption, TypeOK, Edge

LEMMA TypeEdge ==
  ASSUME PacedBus, TypeOK, Edge, reset' \in BOOLEAN
  PROVE  /\ pause' \in 0 .. ReadGap /\ moving' \in Kinds \cup {"none"}
         /\ access' \in {"none", "write", "read", "reading"}
         /\ addr_lcl' \in Addresses /\ addr_cpu' \in Addresses
         /\ data_out_lcl' \in Data /\ wr_data' \in Data
         /\ tgl' \in Flop /\ ms' \in Flop /\ cpu' \in Flop /\ q' \in Flop
         /\ req' \in BOOLEAN /\ req_is_wr' \in BOOLEAN
         /\ rd_ack' \in BOOLEAN /\ wr_ack' \in BOOLEAN
         /\ data_in_lcl' \in Registers \cup {Zero}
<1>1. /\ pause' \in 0 .. ReadGap /\ moving' \in Kinds \cup {"none"}
      /\ access' \in {"none", "write", "read", "reading"}
      /\ addr_lcl' \in Addresses /\ data_out_lcl' \in Data
  BY PauseEdge DEF TypeOK, Edge
<1>2. addr_cpu' \in Addresses /\ wr_data' \in Data
  BY DEF TypeOK, Edge, Request, Captured
<1>3. tgl' \in Flop /\ ms' \in Flop /\ q' \in Flop
  BY DEF TypeOK, Edge, Synchronise, Flop
<1>4. cpu' \in Flop
  <2>1. "read" \in Kinds /\ Synchronise /\ UNCHANGED tgl
    BY DEF Kinds, Edge
  <2>2. QED
    BY <2>1, EdgeOfFlops
<1>5. req' \in BOOLEAN /\ req_is_wr' \in BOOLEAN /\ rd_ack' \in BOOLEAN /\ wr_ack' \in BOOLEAN
  BY Zenon DEF Edge, Request, WindowAck, Shows
<1>6. data_in_lcl' \in Registers \cup {Zero}
  BY DEF TypeOK, Edge, Request, RegisterAcks, Addresses
<1>7. QED
  BY <1>1, <1>2, <1>3, <1>4, <1>5, <1>6

\* What shows at an edge, by where the flips are.
LEMMA WhatShows ==
  ASSUME TypeOK, NEW k \in Kinds
  PROVE  /\ Showing(k) => Shows(k)
         /\ Settled(k) \/ Flipped(k) \/ Caught(k) => ~Shows(k)
  BY DEF Showing, Settled, Flipped, Caught, Shows

LEMMA PacedEdge ==
  ASSUME PacedBus, TypeOK, Paced, WriteOnTime, Edge
  PROVE  Paced'
<1>1. "write" \in Kinds /\ req' = (Shows("read") \/ Shows("write")) /\ req_is_wr' = Shows("write")
      /\ wr_ack' = (req /\ req_is_wr /\ addr_cpu = Window)
      /\ moving' = "none"
  BY DEF Kinds, Edge, Request, WindowAck
<1>2. Writing' => Showing("write") /\ pause = 2
  BY <1>1, WhatShows DEF Writing, WriteOnTime
<1>3. wr_ack' => pause # 1
  BY <1>1, Zenon DEF Writing, Paced
<1>4. QED
  BY <1>1, <1>2, <1>3, PauseEdge DEF Paced

LEMMA AddressOnTimeEdge ==
  ASSUME PacedBus, TypeOK, Paced, AddressOnTime, Edge
  PROVE  AddressOnTime'
<1>1. /\ Synchronise /\ UNCHANGED tgl /\ access' = access /\ addr_lcl' = addr_lcl
      /\ moving' = "none" /\ "address" \in Kinds
      /\ addr_cpu' \in IF Shows("address") THEN Captured("address", addr_lcl, Addresses)
                       ELSE {addr_cpu}
  BY DEF Edge, Request, Kinds
<1>2. pause \in Nat /\ (pause <= 4 => pause' = pause + 1) /\ (pause >= 5 => pause' >= 5)
  BY PauseEdge
<1>3. CASE Settled("address") /\ addr_cpu = addr_lcl
  <2>1. Settled("address")' /\ addr_cpu' = addr_lcl'
    BY <1>1, <1>3, AddressEdge, WhatShows
  <2>2. QED
    BY <2>1 DEF AddressOnTime
<1>4. CASE Flipped("address") /\ pause = 0 /\ access \in {"write", "read"}
  <2>1. Caught("address")' /\ pause' = 1
    BY <1>1, <1>2, <1>4, AddressEdge
  <2>2. QED
    BY <1>1, <1>4, <2>1 DEF AddressOnTime
<1>5. CASE Caught("address") /\ pause \in {1, 2}
  <2>1. access' \in {"write", "read"}
    BY <1>1, <1>5 DEF AddressOnTime, Settled, Caught
  <2>2. CASE pause = 1
    <3>1. pause' = 2 /\ (Caught("address")' \/ Showing("address")')
      BY <1>1, <1>2, <1>5, <2>2, AddressEdge
    <3>2. QED
      BY <1>1, <2>1, <3>1 DEF AddressOnTime
  <2>3. CASE pause = 2
    <3>1. ~Ack
      BY <2>3 DEF Paced, Ack, Writing, RegisterAcks
    <3>2. pause' = 3 /\ Showing("address")'
      BY <1>1, <1>2, <1>5, <2>3, <3>1, AddressEdge
    <3>3. QED
      BY <1>1, <2>1, <3>2 DEF AddressOnTime
  <2>4. QED
    BY <1>5, <2>2, <2>3
<1>6. CASE Showing("address") /\ pause \in {0, 2, 3} /\ moving # "address"
  <2>1. Settled("address")' /\ Shows("address")
    BY <1>1, <1>6, AddressEdge, WhatShows
  <2>2. addr_cpu' = addr_lcl'
    BY <1>1, <1>6, <2>1 DEF Captured
  <2>3. QED
    BY <2>1, <2>2 DEF AddressOnTime
<1>7. QED
  BY <1>3, <1>4, <1>5, <1>6 DEF AddressOnTime

LEMMA WriteOnTimeEdge ==
  ASSUME PacedBus, TypeOK, Paced, AddressOnTime, WriteOnTime, Edge
  PROVE  WriteOnTime'
<1>1. /\ Synchronise /\ UNCHANGED tgl /\ access' = access
      /\ addr_lcl' = addr_lcl /\ data_out_lcl' = data_out_lcl
      /\ "address" \in Kinds /\ "write" \in Kinds /\ "write" \in {"read", "write"}
      /\ req' = (Shows("read") \/ Shows("write")) /\ req_is_wr' = Shows("write")
      /\ wr_data' \in IF Shows("write") THEN Captured("write", data_out_lcl, Data)
                      ELSE {wr_data}
      /\ addr_cpu' \in IF Shows("address") THEN Captured("address", addr_lcl, Addresses)
                       ELSE {addr_cpu}
      /\ owed' = IF Writing /\ owed # <<>> THEN Tail(owed) ELSE owed
  BY DEF Edge, Request, Kinds, Answered, Writing
<1>2. pause \in Nat /\ (pause <= 4 => pause' = pause + 1)
  BY PauseEdge
<1>3. OnItsWay' = OnItsWay
  BY <1>1 DEF OnItsWay
<1>4. /\ Settled("write") => Settled("write")' /\ ~Shows("write")
      /\ Flipped("write") => Caught("write")' /\ ~Shows("write")
      /\ Caught("write") => Showing("write")' /\ ~Shows("write")
      /\ Showing("write") => Settled("write")' /\ Shows("write")
  BY <1>1, OtherEdge, WhatShows
<1>5. Writing' <=> Shows("write")
  BY <1>1 DEF Writing
<1>6. /\ \/ Settled("write")' /\ owed' = Shown'
         \/ Flipped("write")' /\ pause' = 0 /\ owed' = Both'
         \/ Caught("write")' /\ pause' = 1 /\ owed' = <<OnItsWay'>>
         \/ Showing("write")' /\ pause' = 2 /\ owed' = <<OnItsWay'>>
  <2>1. CASE Settled("write") /\ owed = Shown
    <3>1. owed' = <<>>
      BY <1>1, <2>1 DEF Shown
    <3>2. Shown' = <<>>
      BY <1>4, <1>5, <2>1 DEF Shown
    <3>3. QED
      BY <1>4, <2>1, <3>1, <3>2
  <2>2. CASE Flipped("write") /\ pause = 0 /\ owed = Both
    <3>1. owed' = <<OnItsWay>>
      <4>1. CASE Writing
        BY <1>1, <2>2, <4>1, ShortSequences DEF Both
      <4>2. CASE ~Writing
        BY <1>1, <2>2, <4>2 DEF Both
      <4>3. QED
        BY <4>1, <4>2
    <3>2. pause' = 1
      BY <1>2, <2>2
    <3>3. QED
      BY <1>3, <1>4, <2>2, <3>1, <3>2
  <2>3. CASE Caught("write") /\ pause = 1 /\ owed = <<OnItsWay>>
    <3>1. ~Writing /\ pause' = 2
      BY <1>2, <2>3 DEF Paced
    <3>2. QED
      BY <1>1, <1>3, <1>4, <2>3, <3>1
  <2>4. CASE Showing("write") /\ pause = 2 /\ owed = <<OnItsWay>>
    <3>1. ~Writing /\ moving = "none"
      BY <2>4 DEF Paced
    <3>2. wr_data' = data_out_lcl
      BY <1>1, <1>4, <2>4, <3>1 DEF Captured
    <3>3. addr_cpu' = addr_lcl
      <4>1. Settled("address") \/ Showing("address")
        BY <2>4 DEF WriteOnTime, Settled, Flipped, Showing
      <4>2. CASE Settled("address")
        <5>1. addr_cpu = addr_lcl
          BY <4>2 DEF AddressOnTime, Settled, Flipped, Caught, Showing
        <5>2. QED
          BY <1>1, <4>2, <5>1, WhatShows
      <4>3. CASE Showing("address")
        BY <1>1, <3>1, <4>3, WhatShows DEF Captured
      <4>4. QED
        BY <4>1, <4>2, <4>3
    <3>4. Shown' = <<OnItsWay>>
      <4>1. Shown' = <<<<addr_cpu', wr_data'>>>>
        BY <1>4, <1>5, <2>4 DEF Shown
      <4>2. QED
        BY <3>2, <3>3, <4>1 DEF OnItsWay
    <3>5. owed' = <<OnItsWay>>
      BY <1>1, <2>4, <3>1
    <3>6. QED
      BY <1>4, <2>4, <3>4, <3>5
  <2>5. QED
    BY <2>1, <2>2, <2>3, <2>4 DEF WriteOnTime
<1>7. Settled("write")' \/ Settled("address")'
  BY <1>1, <1>4, AddressEdge DEF WriteOnTime
<1>8. access' \in {"read", "reading"} => Settled("write")'
  BY <1>1, <1>4 DEF WriteOnTime
<1>9. QED
  BY <1>6, <1>7, <1>8 DEF WriteOnTime

LEMMA ReadOnTimeEdge ==
  ASSUME PacedBus, TypeOK, Paced, AddressOnTime, WriteOnTime, ReadOnTime, Edge
  PROVE  ReadOnTime'
<1>1. /\ Synchronise /\ UNCHANGED tgl /\ access' = access /\ addr_lcl' = addr_lcl
      /\ "address" \in Kinds /\ "write" \in Kinds /\ "read" \in Kinds
      /\ "read" \in {"read", "write"}
      /\ req' = (Shows("read") \/ Shows("write")) /\ req_is_wr' = Shows("write")
      /\ rd_ack' = (req /\ ~req_is_wr /\ addr_cpu = Window)
      /\ data_in_lcl' = IF RegisterAcks /\ ~req_is_wr THEN addr_cpu
                        ELSE IF rd_ack \/ Clears THEN Zero ELSE data_in_lcl
      /\ addr_lcl \in Addresses
  BY DEF Edge, Request, WindowAck, Kinds, TypeOK
<1>2. /\ pause \in Nat /\ pause' \in Nat
      /\ pause <= 4 => pause' = pause + 1
      /\ pause >= 5 => pause' >= 5
  BY PauseEdge DEF TypeOK
<1>3. /\ Settled("read") => Settled("read")'
      /\ Flipped("read") => Caught("read")'
      /\ Caught("read") => Showing("read")'
  BY <1>1, OtherEdge
<1>4. ASSUME access' = "none" PROVE StoodStill("read")'
  <2>1. StoodStill("read")
    BY <1>1, <1>4 DEF ReadOnTime
  <2>2. /\ tgl'["read"] = tgl["read"] /\ ms'["read"] = tgl["read"]
        /\ q'["read"] = cpu["read"] /\ cpu'["read"] = ms["read"]
    BY <1>1, EdgeOfFlops
  <2>3. /\ pause' >= 2 => pause >= 1
        /\ pause' >= 3 => pause >= 2
    BY <1>2
  <2>4. QED
    BY <2>1, <2>2, <2>3 DEF StoodStill
<1>5. access' \in {"write", "read"} => Settled("read")'
  BY <1>1, <1>3 DEF ReadOnTime
<1>6. ASSUME access' = "reading"
      PROVE  /\ pause' = 0 => Flipped("read")'
             /\ pause' = 1 => Caught("read")'
             /\ pause' = 2 => Showing("read")'
             /\ pause' = 3 => req' /\ ~req_is_wr'
             /\ pause' = 4 => IF addr_lcl' = Window THEN rd_ack' ELSE data_in_lcl' = addr_lcl'
             /\ pause' >= 2 /\ rd_ack' => addr_lcl' = Window
             /\ pause' >= 5 => data_in_lcl' = IF addr_lcl' \in Registers THEN addr_lcl' ELSE Zero
  <2>1. access = "reading" /\ Settled("write")
    BY <1>1, <1>6 DEF WriteOnTime
  <2>2. pause >= 1 => addr_cpu = addr_lcl /\ ~Clears
    <3>1. pause >= 1 => Settled("address")
      BY <2>1 DEF AddressOnTime
    <3>2. Settled("address") => addr_cpu = addr_lcl
      BY DEF AddressOnTime, Settled, Flipped, Caught, Showing
    <3>3. QED
      BY <1>1, <3>1, <3>2, WhatShows DEF Clears
  <2>3. pause' # 0
    BY <1>2
  <2>4. pause' = 1 => Caught("read")'
    BY <1>2, <1>3, <2>1 DEF ReadOnTime
  <2>5. pause' = 2 => Showing("read")'
    BY <1>2, <1>3, <2>1 DEF ReadOnTime
  <2>6. pause' = 3 => req' /\ ~req_is_wr'
    <3>1. pause' = 3 => Showing("read")
      BY <1>2, <2>1 DEF ReadOnTime
    <3>2. ~Shows("write")
      BY <1>1, <2>1, WhatShows
    <3>3. QED
      BY <1>1, <3>1, <3>2, WhatShows
  <2>7. pause' = 4 => IF addr_lcl' = Window THEN rd_ack' ELSE data_in_lcl' = addr_lcl'
    <3> SUFFICES ASSUME pause' = 4
                 PROVE  IF addr_lcl = Window THEN rd_ack' ELSE data_in_lcl' = addr_lcl
      BY <1>1
    <3>1. pause = 3
      BY <1>2
    <3>2. req /\ ~req_is_wr /\ addr_cpu = addr_lcl
      BY <2>1, <2>2, <3>1 DEF ReadOnTime
    <3>3. QED
      BY <1>1, <3>2 DEF RegisterAcks
  <2>8. pause' >= 2 /\ rd_ack' => addr_lcl' = Window
    <3>1. pause' >= 2 => pause >= 1
      BY <1>2
    <3>2. QED
      BY <1>1, <2>2, <3>1
  <2>9. pause' >= 5 => data_in_lcl' = IF addr_lcl' \in Registers THEN addr_lcl' ELSE Zero
    <3> SUFFICES ASSUME pause' >= 5
                 PROVE  data_in_lcl' = IF addr_lcl \in Registers THEN addr_lcl ELSE Zero
      BY <1>1
    <3>1. pause >= 4 /\ addr_cpu = addr_lcl /\ ~Clears /\ (rd_ack => addr_lcl = Window)
      BY <1>2, <2>1, <2>2 DEF ReadOnTime
    <3>2. CASE addr_lcl = Window
      <4>1. addr_lcl \notin Registers
        BY <3>2, AddressAssumption DEF AddressAssumption
      <4>2. ~RegisterAcks
        BY <3>1, <3>2 DEF RegisterAcks
      <4>3. pause = 4 \/ pause >= 5
        BY <1>2, <3>1
      <4>4. rd_ack \/ data_in_lcl = Zero
        BY <2>1, <3>2, <4>1, <4>3 DEF ReadOnTime
      <4>5. QED
        BY <1>1, <3>1, <4>1, <4>2, <4>4
    <3>3. CASE addr_lcl # Window
      <4>1. addr_lcl \in Registers
        BY <1>1, <3>3 DEF Addresses
      <4>2. pause = 4 \/ pause >= 5
        BY <1>2, <3>1
      <4>3. data_in_lcl = addr_lcl
        BY <2>1, <3>3, <4>1, <4>2 DEF ReadOnTime
      <4>4. QED
        BY <1>1, <3>1, <3>3, <4>1, <4>3
    <3>4. QED
      BY <3>2, <3>3
  <2>10. QED
    BY <2>3, <2>4, <2>5, <2>6, <2>7, <2>8, <2>9
<1>7. QED
  BY <1>4, <1>5, <1>6 DEF ReadOnTime

-----------------------------------------------------------------------------
(* ... and over the phases of the bus                                      *)

Parts == Paced /\ AddressOnTime /\ WriteOnTime /\ ReadOnTime

\* The clock domain does not move with a phase.
LEMMA CpuStands ==
  ASSUME UNCHANGED cpuVars
  PROVE  /\ ms' = ms /\ cpu' = cpu /\ q' = q /\ addr_cpu' = addr_cpu /\ wr_data' = wr_data
         /\ req' = req /\ req_is_wr' = req_is_wr /\ data_in_lcl' = data_in_lcl
         /\ rd_ack' = rd_ack /\ wr_ack' = wr_ack /\ reset' = reset
         /\ Writing' = Writing
  BY DEF cpuVars, Writing

\* What a phase may rely on: the flips of the phases before it are over, but for an
\* address that shows at this very edge.
LEMMA BeforeAPhase ==
  ASSUME PacedBus, TypeOK, Parts, pause >= PhaseGap
  PROVE  /\ pause >= 3
         /\ Settled("write") /\ owed = Shown
         /\ \/ Settled("address") /\ addr_cpu = addr_lcl
            \/ Showing("address") /\ access \in {"write", "read"}
         /\ access \in {"none", "write", "read"} => Settled("read")
<1>1. pause >= 3 /\ pause \in Nat
  BY GapAssumption DEF PacedBus, GapAssumption, TypeOK
<1>2. Settled("write") /\ owed = Shown
  BY <1>1 DEF Parts, WriteOnTime
<1>3. \/ Settled("address") /\ addr_cpu = addr_lcl
      \/ Showing("address") /\ access \in {"write", "read"}
  BY <1>1 DEF Parts, AddressOnTime, Settled, Showing
<1>4. access \in {"none", "write", "read"} => Settled("read")
  BY <1>1 DEF Parts, ReadOnTime, StoodStill, Settled
<1>5. QED
  BY <1>1, <1>2, <1>3, <1>4

LEMMA AddressPhaseKeeps ==
  ASSUME PacedBus, TypeOK, Parts, AddressPhase
  PROVE  Parts'
<1>1. /\ access = "none" /\ pause >= PhaseGap /\ pause' = 0
      /\ access' \in {"write", "read"} /\ owed' = owed
      /\ tgl' = [tgl EXCEPT !["address"] = 1 - @] /\ UNCHANGED <<ms, cpu, q>>
  BY DEF AddressPhase, Phase, cpuVars
<1>2. addr_cpu' = addr_cpu /\ wr_data' = wr_data /\ Writing' = Writing
  BY CpuStands DEF AddressPhase, Phase
<1>3. Settled("write") /\ owed = Shown /\ Settled("address") /\ Settled("read")
  BY <1>1, BeforeAPhase
<1>4. Flipped("address")' /\ Settled("write")' /\ Settled("read")'
  <2>1. /\ tgl["address"] \in {0, 1} /\ tgl'["address"] = 1 - tgl["address"]
        /\ tgl'["read"] = tgl["read"] /\ tgl'["write"] = tgl["write"]
    BY <1>1, PhaseFlips DEF Kinds
  <2>2. QED
    BY <1>1, <1>3, <2>1 DEF Settled, Flipped, Showing
<1>5. Paced'
  BY <1>1 DEF Paced
<1>6. AddressOnTime'
  BY <1>1, <1>4 DEF AddressOnTime
<1>7. WriteOnTime'
  BY <1>1, <1>2, <1>3, <1>4 DEF WriteOnTime, Shown
<1>8. ReadOnTime'
  BY <1>1, <1>4 DEF ReadOnTime
<1>9. QED
  BY <1>5, <1>6, <1>7, <1>8 DEF Parts

LEMMA WritePhaseKeeps ==
  ASSUME PacedBus, TypeOK, Parts, WritePhase
  PROVE  Parts'
<1>1. /\ access = "write" /\ pause >= PhaseGap /\ pause' = 0 /\ moving' = "write"
      /\ access' \in {"none", "write"} /\ addr_lcl' = addr_lcl
      /\ owed' = Append(owed, <<addr_lcl, data_out_lcl'>>)
      /\ tgl' = [tgl EXCEPT !["write"] = 1 - @] /\ UNCHANGED <<ms, cpu, q>>
  BY DEF WritePhase, Phase, cpuVars
<1>2. /\ addr_cpu' = addr_cpu /\ wr_data' = wr_data /\ Writing' = Writing
  BY CpuStands DEF WritePhase, Phase
<1>3. /\ Settled("write") /\ owed = Shown /\ Settled("read")
      /\ \/ Settled("address") /\ addr_cpu = addr_lcl
         \/ Showing("address")
  BY <1>1, BeforeAPhase
<1>4. /\ Flipped("write")' /\ Settled("read")'
      /\ Settled("address") => Settled("address")'
      /\ Showing("address") => Showing("address")'
  <2>1. /\ tgl["write"] \in {0, 1} /\ tgl'["write"] = 1 - tgl["write"]
        /\ tgl'["address"] = tgl["address"] /\ tgl'["read"] = tgl["read"]
    BY <1>1, PhaseFlips DEF Kinds
  <2>2. QED
    BY <1>1, <1>3, <2>1 DEF Settled, Flipped, Showing
<1>5. Paced'
  BY <1>1 DEF Paced
<1>6. AddressOnTime'
  BY <1>1, <1>2, <1>3, <1>4 DEF AddressOnTime
<1>7. WriteOnTime'
  <2>1. owed' = Both'
    <3>1. OnItsWay' = <<addr_lcl, data_out_lcl'>>
      BY <1>1 DEF OnItsWay
    <3>2. CASE Writing
      <4>1. owed = <<<<addr_cpu, wr_data>>>>
        BY <1>3, <3>2 DEF Shown
      <4>2. owed' = <<<<addr_cpu, wr_data>>, OnItsWay'>>
        BY <1>1, <3>1, <4>1, ShortSequences
      <4>3. QED
        BY <1>2, <3>2, <4>2 DEF Both
    <3>3. CASE ~Writing
      <4>1. owed = <<>>
        BY <1>3, <3>3 DEF Shown
      <4>2. owed' = <<OnItsWay'>>
        BY <1>1, <3>1, <4>1, ShortSequences
      <4>3. QED
        BY <1>2, <3>3, <4>2 DEF Both
    <3>4. QED
      BY <3>2, <3>3
  <2>2. QED
    BY <1>1, <1>3, <1>4, <2>1 DEF WriteOnTime
<1>8. ReadOnTime'
  BY <1>1, <1>4 DEF ReadOnTime, StoodStill
<1>9. QED
  BY <1>5, <1>6, <1>7, <1>8 DEF Parts

LEMMA ReadPhaseKeeps ==
  ASSUME PacedBus, TypeOK, Parts, ReadPhase
  PROVE  Parts'
<1>1. /\ access = "read" /\ pause >= PhaseGap /\ pause' = 0 /\ moving' = "read"
      /\ access' = "reading" /\ addr_lcl' = addr_lcl /\ owed' = owed
      /\ tgl' = [tgl EXCEPT !["read"] = 1 - @] /\ UNCHANGED <<ms, cpu, q>>
  BY DEF ReadPhase, Phase, cpuVars
<1>2. addr_cpu' = addr_cpu /\ wr_data' = wr_data /\ Writing' = Writing
  BY CpuStands DEF ReadPhase, Phase
<1>3. /\ Settled("write") /\ owed = Shown /\ Settled("read")
      /\ \/ Settled("address") /\ addr_cpu = addr_lcl
         \/ Showing("address")
  BY <1>1, BeforeAPhase
<1>4. /\ Flipped("read")' /\ Settled("write")'
      /\ Settled("address") => Settled("address")'
      /\ Showing("address") => Showing("address")'
  <2>1. /\ tgl["read"] \in {0, 1} /\ tgl'["read"] = 1 - tgl["read"]
        /\ tgl'["address"] = tgl["address"] /\ tgl'["write"] = tgl["write"]
    BY <1>1, PhaseFlips DEF Kinds
  <2>2. QED
    BY <1>1, <1>3, <2>1 DEF Settled, Flipped, Showing
<1>5. Paced'
  BY <1>1 DEF Paced
<1>6. AddressOnTime'
  BY <1>1, <1>2, <1>3, <1>4 DEF AddressOnTime
<1>7. WriteOnTime'
  BY <1>1, <1>2, <1>3, <1>4 DEF WriteOnTime, Shown
<1>8. ReadOnTime'
  BY <1>1, <1>4 DEF ReadOnTime
<1>9. QED
  BY <1>5, <1>6, <1>7, <1>8 DEF Parts

\* A second request for the same word finds the first one under way.
LEMMA ReadPhaseAgainKeeps ==
  ASSUME PacedBus, TypeOK, Parts, ReadPhaseAgain
  PROVE  Parts'
<1>1. /\ access = "reading" /\ access' = access /\ pause >= PhaseGap /\ pause' = pause
      /\ moving' = moving /\ addr_lcl' = addr_lcl /\ owed' = owed
      /\ tgl' = [tgl EXCEPT !["read"] = 1 - @] /\ UNCHANGED <<ms, cpu, q>>
  BY GapAssumption DEF ReadPhaseAgain, cpuVars, GapAssumption, TypeOK
<1>2. /\ addr_cpu' = addr_cpu /\ wr_data' = wr_data /\ Writing' = Writing
      /\ req' = req /\ req_is_wr' = req_is_wr /\ rd_ack' = rd_ack /\ wr_ack' = wr_ack
      /\ data_in_lcl' = data_in_lcl
  BY CpuStands DEF ReadPhaseAgain
<1>3. /\ pause >= 3 /\ Settled("write") /\ owed = Shown
      /\ Settled("address") /\ addr_cpu = addr_lcl
  BY <1>1, BeforeAPhase
<1>4. Settled("write")' /\ Settled("address")'
  <2>1. /\ tgl["read"] \in {0, 1} /\ tgl'["read"] = 1 - tgl["read"]
        /\ tgl'["address"] = tgl["address"] /\ tgl'["write"] = tgl["write"]
    BY <1>1, PhaseFlips DEF Kinds
  <2>2. QED
    BY <1>1, <1>3, <2>1 DEF Settled, Flipped, Showing
<1>5. Paced'
  BY <1>1, <1>2 DEF Paced, Parts
<1>6. AddressOnTime'
  BY <1>1, <1>2, <1>3, <1>4 DEF AddressOnTime
<1>7. WriteOnTime'
  BY <1>1, <1>2, <1>3, <1>4 DEF WriteOnTime, Shown
<1>8. ReadOnTime'
  <2>1. pause' # 0 /\ pause' # 1 /\ pause' # 2
    BY <1>1, <1>3
  <2>2. QED
    BY <1>1, <1>2, <2>1 DEF ReadOnTime, Parts
<1>9. QED
  BY <1>5, <1>6, <1>7, <1>8 DEF Parts

LEMMA SampleKeeps ==
  ASSUME PacedBus, TypeOK, Parts, Sample
  PROVE  Parts'
<1>1. /\ access = "reading" /\ pause >= PhaseGap /\ access' = "none" /\ pause' = 0
      /\ addr_lcl' = addr_lcl /\ owed' = owed
      /\ tgl' = tgl /\ ms' = ms /\ cpu' = cpu /\ q' = q
  BY GapAssumption DEF Sample, Sampling, cpuVars, GapAssumption, TypeOK
<1>2. addr_cpu' = addr_cpu /\ wr_data' = wr_data /\ Writing' = Writing
  BY CpuStands DEF Sample
<1>3. /\ Settled("write") /\ owed = Shown
      /\ Settled("address") /\ addr_cpu = addr_lcl
  BY <1>1, BeforeAPhase
<1>4. Settled("write")' /\ Settled("address")'
  BY <1>1, <1>3 DEF Settled
<1>5. Paced'
  BY <1>1 DEF Paced
<1>6. AddressOnTime'
  BY <1>1, <1>2, <1>3, <1>4 DEF AddressOnTime
<1>7. WriteOnTime'
  BY <1>1, <1>2, <1>3, <1>4 DEF WriteOnTime, Shown
<1>8. ReadOnTime'
  BY <1>1 DEF ReadOnTime, StoodStill
<1>9. QED
  BY <1>5, <1>6, <1>7, <1>8 DEF Parts

-----------------------------------------------------------------------------
(* The reset                                                               *)

\* The first edge out of reset finds every flop at the toggles of a quiet bus.
LEMMA ResetGives ==
  ASSUME BusQuiet, InReset, moving' = "none", UNCHANGED <<access, addr_lcl, data_out_lcl, tgl>>
  PROVE  BusQuiet' /\ Parts'
<1>1. BusQuiet'
  BY DEF BusQuiet, InReset
<1>2. \A k \in Kinds : Settled(k)'
  BY DEF BusQuiet, InReset, Settled
<1>3. Settled("address")' /\ Settled("write")' /\ Settled("read")'
  BY <1>2 DEF Kinds
<1>4. ~Writing' /\ ~wr_ack' /\ addr_cpu' = addr_lcl' /\ access' = "none" /\ owed' = <<>>
  BY DEF InReset, Writing, BusQuiet
<1>5. Paced'
  BY <1>4 DEF Paced
<1>6. AddressOnTime'
  BY <1>3, <1>4 DEF AddressOnTime
<1>7. WriteOnTime'
  BY <1>3, <1>4 DEF WriteOnTime, Shown
<1>8. ReadOnTime'
  BY <1>3, <1>4 DEF ReadOnTime, StoodStill, Settled
<1>9. QED
  BY <1>1, <1>5, <1>6, <1>7, <1>8 DEF Parts

-----------------------------------------------------------------------------
(* Types                                                                   *)

WordsTyped ==
  /\ access \in {"none", "write", "read", "reading"}
  /\ pause \in 0 .. ReadGap /\ moving \in Kinds \cup {"none"}
  /\ addr_lcl \in Addresses /\ addr_cpu \in Addresses
  /\ data_out_lcl \in Data /\ wr_data \in Data
  /\ data_in_lcl \in Registers \cup {Zero}

FlopsTyped == tgl \in Flop /\ ms \in Flop /\ cpu \in Flop /\ q \in Flop

BitsTyped == /\ req \in BOOLEAN /\ req_is_wr \in BOOLEAN /\ reset \in BOOLEAN
             /\ rd_ack \in BOOLEAN /\ wr_ack \in BOOLEAN

OwedTyped == Len(owed) <= 2 /\ \A n \in DOMAIN owed : owed[n] \in Addresses \X Data

LEMMA TypesAre ==
  /\ TypeOK <=> WordsTyped /\ FlopsTyped /\ BitsTyped /\ OwedTyped
  /\ TypeOK' <=> WordsTyped' /\ FlopsTyped' /\ BitsTyped' /\ OwedTyped'
<1>1. TypeOK <=> WordsTyped /\ FlopsTyped /\ BitsTyped /\ OwedTyped
  BY DEF TypeOK, WordsTyped, FlopsTyped, BitsTyped, OwedTyped, Flop
<1>2. TypeOK' <=> WordsTyped' /\ FlopsTyped' /\ BitsTyped' /\ OwedTyped'
  BY DEF TypeOK, WordsTyped, FlopsTyped, BitsTyped, OwedTyped, Flop
<1>3. QED
  BY <1>1, <1>2

\* What is owed is typed because it is what the invariant says it is.
LEMMA OwedIsTyped ==
  ASSUME WordsTyped', WriteOnTime' \/ owed' = <<>>
  PROVE  OwedTyped'
<1> DEFINE a == <<addr_cpu', wr_data'>>
           b == <<addr_lcl', data_out_lcl'>>
<1>1. a \in Addresses \X Data /\ b \in Addresses \X Data
  BY DEF WordsTyped
<1>2. owed' \in {<<>>, <<a>>, <<b>>, <<a, b>>}
  BY DEF WriteOnTime, Shown, Both, OnItsWay
<1> HIDE DEF a, b
<1>3. Len(owed') <= 2 /\ \A n \in DOMAIN owed' : owed'[n] \in Addresses \X Data
  <2>1. CASE owed' = <<>>
    BY <2>1
  <2>2. CASE owed' = <<a>>
    BY <1>1, <2>2
  <2>3. CASE owed' = <<b>>
    BY <1>1, <2>3
  <2>4. CASE owed' = <<a, b>>
    BY <1>1, <2>4
  <2>5. QED
    BY <1>2, <2>1, <2>2, <2>3, <2>4
<1>4. QED
  BY <1>3 DEF OwedTyped

LEMMA NextTypes ==
  ASSUME PacedBus, TypeOK, Next
  PROVE  WordsTyped' /\ FlopsTyped' /\ BitsTyped'
<1>1. WordsTyped /\ FlopsTyped /\ BitsTyped
  BY TypesAre
<1>2. CASE Tick /\ reset /\ InReset
  <2>1. WordsTyped'
    BY <1>1, <1>2, GapAssumption, AddressAssumption, ZeroAssumption
       DEF WordsTyped, Tick, InReset, GapAssumption, AddressAssumption, ZeroAssumption, Addresses
  <2>2. FlopsTyped'
    BY <1>1, <1>2 DEF FlopsTyped, Tick, InReset, AllZero, Flop
  <2>3. BitsTyped'
    BY <1>2 DEF BitsTyped, Tick, InReset
  <2>4. QED
    BY <2>1, <2>2, <2>3
<1>3. CASE Tick /\ ~reset
  <2>1. Edge /\ reset' \in BOOLEAN
    BY <1>3 DEF Tick, Edge
  <2>2. WordsTyped' /\ FlopsTyped'
    BY <2>1, TypeEdge DEF WordsTyped, FlopsTyped
  <2>3. BitsTyped'
    BY <2>1, TypeEdge DEF BitsTyped
  <2>4. QED
    BY <2>2, <2>3
<1>4. ASSUME NEW k \in Kinds, Phase(k) PROVE FlopsTyped' /\ BitsTyped'
  <2>1. UNCHANGED cpuVars /\ tgl' = [tgl EXCEPT ![k] = 1 - @]
    BY <1>4 DEF Phase
  <2>2. tgl' \in Flop
    BY <2>1, PhaseFlips
  <2>3. QED
    BY <1>1, <2>1, <2>2, CpuStands DEF FlopsTyped, BitsTyped
<1>5. CASE AddressPhase
  <2>1. Phase("address") /\ "address" \in Kinds
    BY <1>5 DEF AddressPhase, Kinds
  <2>2. WordsTyped'
    BY <1>1, <1>5, GapAssumption DEF AddressPhase, Phase, cpuVars, WordsTyped, Kinds, GapAssumption
  <2>3. QED
    BY <1>4, <2>1, <2>2
<1>6. CASE WritePhase
  <2>1. Phase("write") /\ "write" \in Kinds
    BY <1>6 DEF WritePhase, Kinds
  <2>2. WordsTyped'
    BY <1>1, <1>6, GapAssumption DEF WritePhase, Phase, cpuVars, WordsTyped, Kinds, GapAssumption
  <2>3. QED
    BY <1>4, <2>1, <2>2
<1>7. CASE ReadPhase
  <2>1. Phase("read") /\ "read" \in Kinds
    BY <1>7 DEF ReadPhase, Kinds
  <2>2. WordsTyped'
    BY <1>1, <1>7, GapAssumption DEF ReadPhase, Phase, cpuVars, WordsTyped, Kinds, GapAssumption
  <2>3. QED
    BY <1>4, <2>1, <2>2
<1>8. CASE ReadPhaseAgain
  <2>1. "read" \in Kinds /\ tgl' = [tgl EXCEPT !["read"] = 1 - @] /\ UNCHANGED cpuVars
    BY <1>8 DEF ReadPhaseAgain, Kinds
  <2>2. tgl' \in Flop
    BY <2>1, PhaseFlips
  <2>3. FlopsTyped' /\ BitsTyped'
    BY <1>1, <2>1, <2>2, CpuStands DEF FlopsTyped, BitsTyped
  <2>4. WordsTyped'
    BY <1>1, <1>8 DEF ReadPhaseAgain, cpuVars, WordsTyped
  <2>5. QED
    BY <2>3, <2>4
<1>9. CASE Sample
  <2>1. FlopsTyped' /\ BitsTyped'
    BY <1>1, <1>9, CpuStands DEF Sample, FlopsTyped, BitsTyped
  <2>2. WordsTyped'
    BY <1>1, <1>9, GapAssumption DEF Sample, cpuVars, WordsTyped, GapAssumption
  <2>3. QED
    BY <2>1, <2>2
<1>10. QED
  BY <1>2, <1>3, <1>5, <1>6, <1>7, <1>8, <1>9 DEF Next, Tick

-----------------------------------------------------------------------------
(* The invariant                                                           *)

LEMMA InitBridge == PacedBus /\ Init => BridgeInv
<1> SUFFICES ASSUME PacedBus, Init PROVE BridgeInv
  OBVIOUS
<1>1. WordsTyped
  BY GapAssumption, AddressAssumption, ZeroAssumption
     DEF Init, WordsTyped, GapAssumption, AddressAssumption, ZeroAssumption, Addresses
<1>2. FlopsTyped
  BY DEF Init, FlopsTyped, Flop, AllZero
<1>3. BitsTyped /\ OwedTyped
  <2>1. BitsTyped
    BY Zenon DEF Init, BitsTyped
  <2>2. OwedTyped
    BY DEF Init, OwedTyped
  <2>3. QED
    BY <2>1, <2>2
<1>4. reset /\ BusQuiet
  BY DEF Init, BusQuiet
<1>5. QED
  BY <1>1, <1>2, <1>3, <1>4, TypesAre DEF BridgeInv

LEMMA NextBridge == PacedBus /\ BridgeInv /\ [Next]_vars => BridgeInv'
<1> SUFFICES ASSUME PacedBus, BridgeInv, [Next]_vars PROVE BridgeInv'
  OBVIOUS
<1>1. TypeOK /\ (reset => BusQuiet) /\ (~reset => Parts)
  BY DEF BridgeInv, Parts
<1>2. CASE UNCHANGED vars
  BY <1>2 DEF vars, busVars, cpuVars, BridgeInv, TypeOK, BusQuiet, Paced, AddressOnTime,
              WriteOnTime, ReadOnTime, Settled, Flipped, Caught, Showing, StoodStill, Shown,
              Both, OnItsWay, Writing
<1>3. CASE Next
  <2>1. (reset' => BusQuiet') /\ (~reset' => Parts') /\ (Parts' \/ owed' = <<>>)
    <3>1. CASE Tick /\ reset /\ InReset
      <4>1. BusQuiet' /\ Parts'
        BY <1>1, <3>1, ResetGives DEF Tick
      <4>2. QED
        BY <4>1
    <3>2. CASE Tick /\ ~reset
      <4>1. Edge /\ ~reset'
        BY <3>2 DEF Tick, Edge, PacedBus
      <4>2. Parts'
        BY <1>1, <3>2, <4>1, PacedEdge, AddressOnTimeEdge, WriteOnTimeEdge, ReadOnTimeEdge
           DEF Parts
      <4>3. QED
        BY <4>1, <4>2
    <3>3. CASE AddressPhase \/ WritePhase \/ ReadPhase \/ ReadPhaseAgain \/ Sample
      <4>1. UNCHANGED cpuVars
        BY <3>3 DEF AddressPhase, WritePhase, ReadPhase, ReadPhaseAgain, Sample, Phase
      <4>2. ~reset
        BY <1>1, <3>3 DEF AddressPhase, WritePhase, ReadPhase, ReadPhaseAgain, Sample,
                          Sampling, BusQuiet
      <4>3. ~reset'
        BY <4>1, <4>2, CpuStands
      <4>4. Parts'
        BY <1>1, <3>3, <4>2, AddressPhaseKeeps, WritePhaseKeeps, ReadPhaseKeeps,
           ReadPhaseAgainKeeps, SampleKeeps
      <4>5. QED
        BY <4>3, <4>4
    <3>4. QED
      BY <1>3, <3>1, <3>2, <3>3 DEF Next, Tick
  <2>2. WordsTyped' /\ FlopsTyped' /\ BitsTyped'
    BY <1>1, <1>3, NextTypes
  <2>3. OwedTyped'
    BY <2>1, <2>2, OwedIsTyped DEF Parts
  <2>4. TypeOK'
    BY <2>2, <2>3, TypesAre
  <2>5. QED
    BY <2>1, <2>4 DEF BridgeInv, Parts
<1>4. QED
  BY <1>2, <1>3

-----------------------------------------------------------------------------
(* Theorems                                                                *)

\* The invariant: after every phase of the bus, its toggle and what belongs to it are
\* where the number of edges since the phase says (gpmc_sync.sv:43-138).
THEOREM BridgeInvariant == PacedBus /\ Spec => []BridgeInv
<1>1. ASSUME PacedBus PROVE Spec => []BridgeInv
  <2>1. Init => BridgeInv
    BY <1>1, InitBridge
  <2>2. BridgeInv /\ [Next]_vars => BridgeInv'
    BY <1>1, NextBridge
  <2>3. QED
    BY <2>1, <2>2, PTL DEF Spec
<1>2. QED
  BY <1>1

\* The types hold; among them, that the bridge is never more than two writes behind the
\* bus (gpmc_sync.sv:49-61 with 103-132).
THEOREM BridgeTypes == PacedBus /\ Spec => []TypeOK
<1>1. BridgeInv => TypeOK
  BY DEF BridgeInv
<1>2. QED
  BY <1>1, BridgeInvariant, PTL

\* Every write request carries the address and the word of the oldest write on the bus
\* that has not been one: nothing is dropped, repeated or mixed, however long the
\* bursts and whichever words are read while they change (gpmc_sync.sv:49-61 with
\* 103-132).
THEOREM RequestsAreWrites == PacedBus /\ Spec => []RequestsAreTheWrites
<1>1. BridgeInv => RequestsAreTheWrites
  <2> SUFFICES ASSUME BridgeInv, ~reset, req, req_is_wr
               PROVE  owed # <<>> /\ Head(owed) = <<addr_cpu, wr_data>>
    BY DEF RequestsAreTheWrites
  <2>1. Paced /\ WriteOnTime /\ Writing
    BY DEF BridgeInv, Writing
  <2> DEFINE a == <<addr_cpu, wr_data>>
             b == OnItsWay
  <2>2. owed = <<a>> \/ owed = <<a, b>>
    BY <2>1 DEF WriteOnTime, Paced, Shown, Both
  <2> HIDE DEF a, b
  <2>3. owed # <<>> /\ Head(owed) = a
    BY <2>2, ShortSequences
  <2>4. QED
    BY <2>3 DEF a
<1>2. QED
  BY <1>1, BridgeInvariant, PTL

\* A word is on the bus when the processor samples it: it is the word of the register
\* whose address it gave, and zero for the window (gpmc_sync.sv:63-66 with 111-138).
THEOREM ReadsInTime == PacedBus /\ Spec => []ReadsSeeTheirRegister
<1>1. ASSUME PacedBus PROVE Spec => []ReadsSeeTheirRegister
  <2>1. BridgeInv => ReadsSeeTheirRegister
    <3> SUFFICES ASSUME BridgeInv, Sampling
                 PROVE  data_in_lcl = IF addr_lcl \in Registers THEN addr_lcl ELSE Zero
      BY DEF ReadsSeeTheirRegister
    <3>1. access = "reading" /\ pause >= 5
      BY <1>1, GapAssumption DEF Sampling, PacedBus, GapAssumption, BridgeInv, TypeOK
    <3>2. ReadOnTime
      BY <3>1 DEF BridgeInv, BusQuiet
    <3>3. QED
      BY <3>1, <3>2 DEF ReadOnTime
  <2>2. Spec => []BridgeInv
    BY <1>1, BridgeInvariant
  <2>3. QED
    BY <2>1, <2>2, PTL
<1>2. QED
  BY <1>1

=============================================================================
