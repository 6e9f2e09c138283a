-------------------------------- MODULE Relay --------------------------------
(***************************************************************************)
(* What hdl/fifo/fifo_counter_half.sv needs from vector_xing, and no more: *)
(* dst is only ever overwritten by the whole of the last value published   *)
(* in src, and a value that stays published arrives.  Values may be        *)
(* skipped; they never arrive out of order or mixed.                       *)
(***************************************************************************)

CONSTANTS
  Data,     (* the values that are published            *)
  Zero      (* what src and dst hold at reset           *)

VARIABLES src, dst

rvars == <<src, dst>>

Init == src = Zero /\ dst = Zero

Publish(v) == src' = v /\ UNCHANGED dst

Arrive == dst' = src /\ UNCHANGED src

Next == (\E v \in Data : Publish(v)) \/ Arrive

Safe == Init /\ [][Next]_rvars

Live == WF_rvars(Arrive)

Spec == Safe /\ Live

=============================================================================
