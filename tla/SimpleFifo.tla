----------------------------- MODULE SimpleFifo -----------------------------
(***************************************************************************)
(* hdl/fifo/simple_fifo.sv with the fifo_counter_half on each side and the *)
(* dual-port RAM: the pixel FIFO between the processor bus (iclk, clk_100) *)
(* and the LED strings (oclk, clk_20).                                     *)
(*                                                                         *)
(* Each side keeps its own pointer and sees the other one through a        *)
(* vector_xing.  Of that crossing only what module Relay states is kept    *)
(* here (VectorXing shows that the crossing implements it): a pointer is   *)
(* published, and a published pointer arrives some edges later.            *)
(***************************************************************************)
EXTENDS FifoPointers, Sequences

CONSTANTS
  Data,         (* the words                                                *)
  Zero          (* the only word of the RAM that is initialised, RAM[0]     *)

ASSUME FifoDataAssumption == Zero \in Data

VARIABLES
  (* the write side: write_counters and the crossing that leaves it *)
  iaddr,          (* naddr: the next slot to write (see Kept)               *)
  empty_count,    (* ncount, the output iempty_count                        *)
  ioverflow,      (* nerr                                                   *)
  iaddr_sent,     (* the write pointer held in the crossing                 *)
  oaddr_seen,     (* nrem_addr_raw: the read pointer as the write side sees it *)
  ireset,
  (* the read side *)
  oaddr, full_count, ounderflow, oaddr_sent, iaddr_seen, oreset,
  (* dp_ram *)
  ram,
  oaddr_q,        (* the read address, registered                           *)
  odata,          (* odata_q                                                *)
  ord_q, ord_qq,  (* the read enable on its way to odata_valid              *)
  (* history *)
  pending,        (* the words written and not shown yet                    *)
  erred           (* ioverflow or ounderflow was raised                     *)

wrvars == <<iaddr, empty_count, ioverflow, iaddr_sent, oaddr_seen, ireset, ram>>
rdvars == <<oaddr, full_count, ounderflow, oaddr_sent, iaddr_seen, oreset,
            oaddr_q, odata, ord_q, ord_qq>>
vars == <<wrvars, rdvars, pending, erred>>

Slots == 0 .. Depth - 1
Ptr   == 0 .. 2 * Depth - 1

Init ==
  /\ iaddr = 0 /\ empty_count = 0 /\ ioverflow = FALSE
  /\ iaddr_sent = 0 /\ oaddr_seen = 0 /\ ireset = TRUE
  /\ oaddr = 0 /\ full_count = 0 /\ ounderflow = FALSE
  /\ oaddr_sent = 0 /\ iaddr_seen = 0 /\ oreset = TRUE
  /\ ram \in [Slots -> Data] /\ ram[0] = Zero
  /\ oaddr_q = 0 /\ odata \in Data /\ ord_q = FALSE /\ ord_qq = FALSE
  /\ pending = <<>> /\ erred = FALSE

-----------------------------------------------------------------------------
(* One edge of each clock.  Both reset inputs are held at power-up and     *)
(* released at any edge of their own clock, in either order (top.sv).      *)

Release(reset) == reset' \in BOOLEAN /\ (reset' => reset)

\* Mutant: the count leaves out the word that is being written.
WriteCountersLate(iwr) ==
  IF ireset
  THEN iaddr' = 0 /\ empty_count' = 0 /\ ioverflow' = FALSE
  ELSE /\ iaddr' = Advance(iaddr, iwr)
       /\ empty_count' = EmptyCount(iaddr, oaddr_seen)
       /\ ioverflow' = (iwr /\ empty_count = 0)

WriteCounters(iwr) ==
  IF ireset
  THEN iaddr' = 0 /\ empty_count' = 0 /\ ioverflow' = FALSE
  ELSE /\ iaddr' = Advance(iaddr, iwr)
       /\ empty_count' = EmptyCount(iaddr', oaddr_seen)
       /\ ioverflow' = (iwr /\ empty_count = 0)

\* Mutant: the count is only brought up to date by a read.
ReadCountersOnAdvance(ord) ==
  IF oreset
  THEN oaddr' = 0 /\ full_count' = 0 /\ ounderflow' = FALSE
  ELSE /\ oaddr' = Advance(oaddr, ord)
       /\ full_count' = IF ord THEN FullCount(oaddr', iaddr_seen) ELSE full_count
       /\ ounderflow' = (ord /\ full_count = 0)

ReadCounters(ord) ==
  IF oreset
  THEN oaddr' = 0 /\ full_count' = 0 /\ ounderflow' = FALSE
  ELSE /\ oaddr' = Advance(oaddr, ord)
       /\ full_count' = FullCount(oaddr', iaddr_seen)
       /\ ounderflow' = (ord /\ full_count = 0)

\* The ends of the two crossings that are clocked by iclk.
WriteXings ==
  /\ iaddr_sent' \in IF ireset THEN {0} ELSE {iaddr_sent, iaddr}
  /\ oaddr_seen' \in IF ireset THEN {0} ELSE {oaddr_seen, oaddr_sent}

\* Mutant: the pointer is published as it will be after this edge.
ReadXingsAhead ==
  /\ oaddr_sent' \in IF oreset THEN {0} ELSE {oaddr_sent, oaddr'}
  /\ iaddr_seen' \in IF oreset THEN {0} ELSE {iaddr_seen, iaddr_sent}

ReadXings ==
  /\ oaddr_sent' \in IF oreset THEN {0} ELSE {oaddr_sent, oaddr}
  /\ iaddr_seen' \in IF oreset THEN {0} ELSE {iaddr_seen, iaddr_sent}

RamWrite(iwr, idata) ==
  ram' = IF iwr THEN [ram EXCEPT ![Slot(iaddr)] = idata] ELSE ram

\* Mutant: the RAM is read at the address of this cycle, not of the one before.
RamReadEarly(ord) ==
  /\ oaddr_q' = Slot(oaddr)
  /\ odata' = ram[Slot(oaddr)]
  /\ ord_q' = ord
  /\ ord_qq' = ord_q

RamRead(ord) ==
  /\ oaddr_q' = Slot(oaddr)
  /\ odata' = ram[oaddr_q]
  /\ ord_q' = ord
  /\ ord_qq' = ord_q

WriteEdge(iwr, idata) ==
  /\ WriteCounters(iwr) /\ WriteXings /\ RamWrite(iwr, idata) /\ Release(ireset)

ReadEdge(ord) ==
  /\ ReadCounters(ord) /\ ReadXings /\ RamRead(ord) /\ Release(oreset)

-----------------------------------------------------------------------------
(* The users.  They may read and write whatever the counts say, but each   *)
(* is in the same reset as its side of the FIFO.                           *)

Write(iwr, idata) == (iwr => ~ireset) /\ WriteEdge(iwr, idata)

Read(ord) == (ord => ~oreset) /\ ReadEdge(ord)

\* The words not shown: one leaves when ord_q registers it, one joins with iwr.
AfterShow == IF ord_q THEN Tail(pending) ELSE pending

WriteTick(iwr) ==
  \E idata \in Data :
    /\ ~erred
    /\ Write(iwr, idata)
    /\ UNCHANGED rdvars
    /\ pending' = IF iwr THEN Append(pending, idata) ELSE pending
    /\ erred' = ioverflow'

ReadTick(ord) ==
  /\ ~erred
  /\ Read(ord)
  /\ UNCHANGED wrvars
  /\ pending' = AfterShow
  /\ erred' = ounderflow'

BothTick(iwr, ord) ==
  \E idata \in Data :
    /\ ~erred
    /\ Write(iwr, idata)
    /\ Read(ord)
    /\ pending' = IF iwr THEN Append(AfterShow, idata) ELSE AfterShow
    /\ erred' = (ioverflow' \/ ounderflow')

\* fifo_counter_half.sv:99-104: the first error is enough to corrupt data, so the
\* model ends there.
Corrupted == erred /\ UNCHANGED vars

Next == \/ \E iwr \in BOOLEAN : WriteTick(iwr)
        \/ \E ord \in BOOLEAN : ReadTick(ord)
        \/ \E iwr, ord \in BOOLEAN : BothTick(iwr, ord)
        \/ Corrupted

\* The edges at which the users do nothing.  There always is a next one: a bus cycle of
\* the processor takes several edges of clk_100, and the strings shift a word out for
\* many edges of clk_20.  Nothing makes the users read or write.
IdleWriteEdge == WriteTick(FALSE) \/ BothTick(FALSE, FALSE)
IdleReadEdge  == ReadTick(FALSE) \/ BothTick(FALSE, FALSE)

\* Both resets are released.  What vector_xing gives: a side publishes its pointer again
\* and again (VectorXing, EventCrossesOnce), and what stays published arrives
\* (LastWordArrives).
Fairness ==
  /\ WF_vars(IdleWriteEdge /\ ~ireset')
  /\ WF_vars(IdleReadEdge /\ ~oreset')
  /\ WF_vars(IdleWriteEdge /\ iaddr_sent' = iaddr)
  /\ WF_vars(IdleReadEdge /\ oaddr_sent' = oaddr)
  /\ WF_vars(IdleWriteEdge /\ oaddr_seen' = oaddr_sent)
  /\ WF_vars(IdleReadEdge /\ iaddr_seen' = iaddr_sent)

Spec == Init /\ [][Next]_vars /\ Fairness

-----------------------------------------------------------------------------
(* Properties *)

TypeOK ==
  /\ {iaddr, iaddr_sent, iaddr_seen, oaddr, oaddr_sent, oaddr_seen} \subseteq Ptr
  /\ empty_count \in Ptr /\ full_count \in Ptr
  /\ ioverflow \in BOOLEAN /\ ounderflow \in BOOLEAN
  /\ ireset \in BOOLEAN /\ oreset \in BOOLEAN
  /\ ram \in [Slots -> Data] /\ oaddr_q \in Slots /\ odata \in Data
  /\ ord_q \in BOOLEAN /\ ord_qq \in BOOLEAN
  /\ pending \in Seq(Data) /\ erred \in BOOLEAN

\* A side that is still in reset has not moved, and shows its user nothing.
QuietInReset ==
  /\ ireset => iaddr = 0 /\ iaddr_sent = 0 /\ oaddr_seen = 0 /\ empty_count = 0
  /\ oreset => oaddr = 0 /\ oaddr_sent = 0 /\ iaddr_seen = 0 /\ full_count = 0 /\ ~ord_q

One(b) == IF b THEN 1 ELSE 0

\* The six copies of the two pointers, and the words between each and the next.
Freed   == Diff(oaddr_sent, oaddr_seen)   \* read, and the write side is being told
Reading == Diff(oaddr, oaddr_sent)        \* read, not published yet
Offered == Diff(iaddr_seen, oaddr)        \* known to the read side
Sent    == Diff(iaddr_sent, iaddr_seen)   \* written, and the read side is being told
Written == Diff(iaddr, iaddr_sent)        \* written, not published yet

Unread == Offered + Sent + Written

Used == Freed + Reading + Unread

\* The copies lie on the circle of pointers in this order, on an arc no longer than the
\* RAM, and the counts, without the top bit if pointers are kept without it, are no
\* larger than the gaps they stand for.
PointersInOrder ==
  /\ Kept(empty_count) + Used <= Depth
  /\ Kept(full_count) <= Offered
  /\ One(ord_q) <= Reading
  /\ Len(pending) = One(ord_q) + Unread

\* The inductive invariant of the FIFO until its first error.
FifoInv == TypeOK /\ QuietInReset /\ (~erred => PointersInOrder)

\* simple_fifo.sv:22-23 and :37-38: until an error is flagged the counts are promises.
\* That many more words fit, and that many are there to be read, although each side
\* counts with an old copy of the other side's pointer.  Of the counts as built this
\* says as much as their bits below the top one do.
CountsArePromises ==
  ~erred => /\ Kept(empty_count) + Len(pending) <= Depth
            /\ Kept(full_count) + One(ord_q) <= Len(pending)

Queue == INSTANCE BoundedQueue WITH
           q <- pending, out <- (IF ord_qq THEN <<odata>> ELSE <<>>), err <- erred

\* simple_fifo.sv:1-3 and :22-40: the FIFO is a queue of Depth words.  Until ioverflow
\* or ounderflow is raised no word is overwritten, lost, repeated or reordered: the
\* first error is always flagged, at the edge that makes it.
QueueUntilError == Queue!Spec

\* A written word is offered to the reader in the end, whatever the clocks do.
WordsBecomeVisible == pending # <<>> ~> (full_count > 0 \/ pending = <<>> \/ erred)

\* Space is offered to the writer in the end; a read side still in reset is no excuse.
SpaceBecomesVisible == Len(pending) < Depth ~> (empty_count > 0 \/ Len(pending) = Depth \/ erred)

=============================================================================
