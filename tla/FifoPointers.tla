---------------------------- MODULE FifoPointers ----------------------------
(***************************************************************************)
(* The pointer arithmetic of hdl/fifo/fifo_counter_half.sv: what the two   *)
(* sides of the pixel FIFO make of their own pointer and of the other's.   *)
(*                                                                         *)
(* WithTopBit says what the registers keep of a pointer.  FALSE: what is   *)
(* built; naddr_nx is declared without the bit above the RAM address.      *)
(* TRUE: also that bit, as the header of fifo_counter_half.sv describes    *)
(* and as FifoCounterHalf.vhd, its VHDL original, is written.              *)
(*                                                                         *)
(* A pointer here always has the bit, if only as history: whatever the     *)
(* hardware makes of one, it makes of what Kept or Slot leaves of it.      *)
(***************************************************************************)
EXTENDS Naturals

CONSTANTS
  Depth,        (* 2**ADDR_WIDTH, the words in the RAM                      *)
  WithTopBit

ASSUME DepthAssumption == Depth \in Nat /\ Depth >= 2
ASSUME WithTopBitAssumption == WithTopBit \in BOOLEAN
-----------------------------------------------------------------------------
(* Pointer arithmetic, ADDR_WIDTH+1 bits wide *)

\* naddr_nx++
Advance(p, nadvance) ==
  IF ~nadvance THEN p ELSE IF p + 1 = 2 * Depth THEN 0 ELSE p + 1

Diff(a, b) == IF a >= b THEN a - b ELSE a + 2 * Depth - b

\* Mutant: both sides use the remote pointer as it comes.
TopBitKept(p) == p

\* nrem_addr on the write side: nrem_addr_raw ^ 2**ADDR_WIDTH
TopBitFlipped(p) == IF p < Depth THEN p + Depth ELSE p - Depth

\* addr[ADDR_WIDTH-1:0]
Slot(p) == IF p < Depth THEN p ELSE p - Depth

\* naddr <= naddr_nx: what the register holds, and the crossing passes on
Kept(p) == IF WithTopBit THEN p ELSE Slot(p)

\* ncount of the two sides, the one from its own pointer and the other's
EmptyCount(own, rem) == Diff(TopBitFlipped(Kept(rem)), Kept(own))
FullCount(own, rem) == Diff(Kept(rem), Kept(own))
=============================================================================
