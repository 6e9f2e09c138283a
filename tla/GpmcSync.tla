------------------------------- MODULE GpmcSync -------------------------------
(***************************************************************************)
(* hdl/gpmc_sync.sv: the bridge from the processor's bus to the registers  *)
(* and the FIFO window of the FPGA.                                        *)
(*                                                                         *)
(* The bus clock runs only during an access and has no relation to         *)
(* clk_100.  Each phase of an access flips a toggle, which two flops bring *)
(* over; address and data are read, unsynchronised, when the flip shows.   *)
(* Nothing is acknowledged to the bus: it all rests on the time between    *)
(* the phases of the bus, which is external (device tree, CONFIG 1 to 6).  *)
(* A step is a phase on the bus or an edge of clk_100; when both happen at *)
(* once, a word that changes may be read as anything.                      *)
(***************************************************************************)
EXTENDS Naturals, Sequences

CONSTANTS
  Registers, ID_REG,  (* addresses of registers; address 0 is one of them   *)
  Window,             (* the address of the FIFO window                     *)
  Data, Zero,         (* words; '0                                         *)
  PhaseGap,           (* edges of clk_100 between two phases, at least     *)
  ReadGap,            (* ... and between a read and the sampling of its word *)
  ResetAgain          (* TRUE: reset_100 may come back                     *)

ASSUME GapAssumption == PhaseGap \in Nat /\ ReadGap \in Nat /\ PhaseGap <= ReadGap
ASSUME AddressAssumption == ID_REG \in Registers /\ Window \notin Registers
ASSUME ZeroAssumption == Zero \in Data /\ Zero \notin Registers
ASSUME ResetAssumption == ResetAgain \in BOOLEAN

Addresses == Registers \cup {Window}
Kinds == {"address", "read", "write"}

VARIABLES
  access,             (* the access on the bus                             *)
  pause,              (* edges of clk_100 since its last phase             *)
  moving,             (* the kind of a phase since the last of them         *)
  addr_lcl, data_out_lcl,
  tgl, ms, cpu, q,    (* by kind: the toggle and its three flops           *)
  addr_cpu, wr_data, req, req_is_wr,
  data_in_lcl,        (* what a register holds is named by its address     *)
  rd_ack, wr_ack,     (* of the window                                     *)
  reset,
  owed                (* history: writes on the bus without a request yet  *)

busVars == <<access, pause, moving, addr_lcl, data_out_lcl, tgl>>
cpuVars == <<ms, cpu, q, addr_cpu, wr_data, req, req_is_wr, data_in_lcl,
             rd_ack, wr_ack, reset>>
vars == <<busVars, cpuVars, owed>>

AllZero == [k \in Kinds |-> 0]

Init ==
  /\ access = "none" /\ pause = 0 /\ moving = "none"
  /\ addr_lcl = ID_REG /\ data_out_lcl = Zero
  /\ tgl = AllZero
  /\ ms \in [Kinds -> {0, 1}] /\ cpu \in [Kinds -> {0, 1}] /\ q \in [Kinds -> {0, 1}]
  /\ addr_cpu = ID_REG /\ wr_data = Zero /\ req \in BOOLEAN /\ req_is_wr \in BOOLEAN
  /\ data_in_lcl = Zero /\ rd_ack = FALSE /\ wr_ack = FALSE
  /\ reset = TRUE
  /\ owed = <<>>

-----------------------------------------------------------------------------
(* The bus.  Software starts after the reset. *)

Phase(kind) ==
  /\ tgl' = [tgl EXCEPT ![kind] = 1 - @]
  /\ pause' = 0 /\ moving' = kind
  /\ UNCHANGED cpuVars

AddressPhase ==
  /\ access = "none" /\ pause >= PhaseGap /\ ~reset
  /\ Phase("address")
  /\ addr_lcl' \in Addresses
  /\ access' \in {"write", "read"}
  /\ UNCHANGED <<data_out_lcl, owed>>

\* The words of a burst all go to the window.
WritePhase ==
  /\ access = "write" /\ pause >= PhaseGap
  /\ Phase("write")
  /\ data_out_lcl' \in Data
  /\ access' \in {"none"} \cup {a \in {"write"} : addr_lcl = Window}
  /\ owed' = Append(owed, <<addr_lcl, data_out_lcl'>>)
  /\ UNCHANGED addr_lcl

ReadPhase ==
  /\ access = "read" /\ pause >= PhaseGap
  /\ Phase("read")
  /\ access' = "reading"
  /\ UNCHANGED <<addr_lcl, data_out_lcl, owed>>

\* The clock has another edge before the end of the access, and the word is asked for
\* again.
ReadPhaseAgain ==
  /\ access = "reading" /\ pause = PhaseGap
  /\ tgl' = [tgl EXCEPT !["read"] = 1 - @]
  /\ UNCHANGED <<access, pause, moving, addr_lcl, data_out_lcl, cpuVars, owed>>

Sampling == access = "reading" /\ pause >= ReadGap

Sample ==
  /\ Sampling
  /\ access' = "none" /\ pause' = 0
  /\ UNCHANGED <<moving, addr_lcl, data_out_lcl, tgl, cpuVars, owed>>

-----------------------------------------------------------------------------
(* clk_100 *)

\* Mutant: an edge of the toggle in one direction only.
ShowsRising(kind) == cpu[kind] = 1 /\ q[kind] = 0

Shows(kind) == cpu[kind] # q[kind]

\* A register answers in the cycle of the request, the window in the next (top.sv).
RegisterAcks == req /\ addr_cpu # Window

\* Read while it may be changing.
Captured(kind, word, words) == IF moving = kind THEN words ELSE {word}

\* Mutant: the old word is cleared when the next one is asked for.
ClearsOnRead == Shows("read")

Clears == Shows("address")

\* On an acknowledged write one bit is set to itself plus 2.
Synchronise ==
  /\ ms' = tgl
  /\ q' = cpu
  /\ cpu' = IF wr_ack \/ (RegisterAcks /\ req_is_wr)
            THEN [ms EXCEPT !["address"] = (cpu["address"] + 2) % 2] ELSE ms

Request ==
  /\ req' = (Shows("read") \/ Shows("write"))
  /\ req_is_wr' = Shows("write")
  /\ wr_data' \in IF Shows("write") THEN Captured("write", data_out_lcl, Data)
               ELSE {wr_data}
  /\ addr_cpu' \in IF Shows("address") THEN Captured("address", addr_lcl, Addresses)
                ELSE {addr_cpu}
  /\ data_in_lcl' = IF RegisterAcks /\ ~req_is_wr THEN addr_cpu
                    ELSE IF rd_ack \/ Clears THEN Zero ELSE data_in_lcl

WindowAck ==
  /\ rd_ack' = (req /\ ~req_is_wr /\ addr_cpu = Window)
  /\ wr_ack' = (req /\ req_is_wr /\ addr_cpu = Window)

InReset ==
  /\ ms' = AllZero /\ cpu' = AllZero /\ q' = AllZero
  /\ req' = FALSE /\ req_is_wr' = FALSE
  /\ addr_cpu' = ID_REG /\ wr_data' = Zero /\ data_in_lcl' = Zero
  /\ rd_ack' = FALSE /\ wr_ack' = FALSE
  /\ owed' = <<>>

Answered == IF req /\ req_is_wr /\ owed # <<>> THEN Tail(owed) ELSE owed

Tick ==
  /\ reset' \in BOOLEAN /\ (reset' => reset \/ ResetAgain)
  /\ \/ reset /\ InReset
     \/ ~reset /\ Synchronise /\ Request /\ WindowAck /\ owed' = Answered
  /\ pause' = IF pause < ReadGap THEN pause + 1 ELSE pause
  /\ moving' = "none"
  /\ UNCHANGED <<access, addr_lcl, data_out_lcl, tgl>>

Next == Tick \/ AddressPhase \/ WritePhase \/ ReadPhase \/ ReadPhaseAgain \/ Sample

\* The clock runs, out of reset.  The bus need not do anything.
Fairness == WF_vars(Tick /\ ~reset')

Spec == Init /\ [][Next]_vars /\ Fairness

-----------------------------------------------------------------------------
(* Properties *)

\* The bridge is never more than two writes behind the bus.
TypeOK ==
  /\ access \in {"none", "write", "read", "reading"}
  /\ pause \in 0 .. ReadGap /\ moving \in Kinds \cup {"none"}
  /\ addr_lcl \in Addresses /\ addr_cpu \in Addresses
  /\ data_out_lcl \in Data /\ wr_data \in Data
  /\ \A flops \in {tgl, ms, cpu, q} : flops \in [Kinds -> {0, 1}]
  /\ {req, req_is_wr, rd_ack, wr_ack, reset} \subseteq BOOLEAN
  /\ data_in_lcl \in Registers \cup {Zero}
  /\ Len(owed) <= 2 /\ \A n \in DOMAIN owed : owed[n] \in Addresses \X Data

\* A write request to the registers or the FIFO is the oldest write on the bus that has
\* not become one, with its own address and data: no word is dropped, repeated or mixed
\* with another, bursts included (gpmc_sync.sv:49-61 with 103-132).
RequestsAreTheWrites ==
  ~reset /\ req /\ req_is_wr => owed # <<>> /\ Head(owed) = <<addr_cpu, wr_data>>

\* And every write becomes one, without another access to push it
\* (gpmc_sync.sv:125-132).
WritesArrive == owed # <<>> ~> req /\ req_is_wr

\* When the processor samples the word of a read, the word of the address it gave is
\* on the bus, although it had to be fetched first and may be being fetched again
\* (gpmc_sync.sv:63-66 with 111-138).
ReadsSeeTheirRegister ==
  Sampling => data_in_lcl = IF addr_lcl \in Registers THEN addr_lcl ELSE Zero

=============================================================================
