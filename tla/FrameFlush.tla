----------------------------- MODULE FrameFlush -----------------------------
(***************************************************************************)
(* The way of a picture from the frame buffer to the LEDs: the drawing     *)
(* programs and their exit (mod_ctrl.rs, movie_ctrl.rs), flush             *)
(* (display.rs), the ioctl of the kernel driver (led-driver.c), the DMA    *)
(* engine, the pixel FIFO and the strings that take whole frames from it.  *)
(*                                                                         *)
(* One frame buffer serves all: the engine reads it while the next picture *)
(* is drawn.  No frame marks: a lost word shifts all that follows.         *)
(*                                                                         *)
(* The FIFO is the one of SimpleFifo with both pointers known to both      *)
(* sides at once: what the crossings delay could only delay the poll and   *)
(* the strings.  As built the counts say Depth too much while the write    *)
(* pointer has wrapped and the read pointer has not; misled counts the     *)
(* steps that went by such a count and should not have.  A slot that is    *)
(* read keeps no word: whoever reads it again gets a stale one.  What the  *)
(* driver only logs is left out.                                           *)
(***************************************************************************)
EXTENDS FifoPointers, Sequences

CONSTANTS FRAME_SIZE_WORDS,   \* 8142
          PageWords,          \* words in a descriptor at most, 2048
          EmptyAtExit,        \* 8000
          Drawings,           \* drawings are numbered modulo this
          MaxMishaps          \* bound: restarts of the program and misled steps, together

ASSUME FlushAssumption ==
    /\ FRAME_SIZE_WORDS \in Nat \ {0} /\ PageWords \in Nat \ {0}
    /\ FRAME_SIZE_WORDS <= Depth /\ Depth < 2 * FRAME_SIZE_WORDS
    /\ EmptyAtExit \in 0 .. Depth
    /\ Drawings \in Nat /\ Drawings >= 3 /\ MaxMishaps \in Nat

Slots == 0 .. FRAME_SIZE_WORDS - 1

\* A word: its place in the frame, the drawing that was flushed, and the drawing
\* that wrote it.
Word == [slot : Slots, of : 0 .. Drawings - 1, drawing : 0 .. Drawings - 1, blank : BOOLEAN]
Stale == [slot |-> FRAME_SIZE_WORDS, of |-> 0, drawing |-> 0, blank |-> FALSE]

\* What is still told of a word once it has left the FIFO.
Content(word) == [slot |-> word.slot, of |-> word.of, blank |-> word.blank]
Contents == {Content(word) : word \in Word \cup {Stale}}

VARIABLES
    at,           \* where the program is
    last,         \* whether it is blanking the LEDs before its end
    drawing,      \* the number of the drawing in progress
    undrawn,      \* the words it has still to write
    fb,           \* by slot: which drawing wrote it, and whether that was a fill(0)
    next,         \* in the ioctl: buf_start
    submitted,    \* descriptors submitted
    issued,       \* descriptors issued
    iaddr, oaddr, \* the pointers of the pixel FIFO
    ram,          \* its words
    taken,        \* the contents the strings have taken of a frame
    dark,         \* whether the last whole frame they took was blank
    overrun,      \* history: a word was written over one not read yet
    misled,       \* history: steps that went by a count that said too much
    stray,        \* history: words are with the engine that nothing waits for
    restarts

progVars == <<at, last, drawing, undrawn, fb, next, restarts>>
dmaVars == <<submitted, issued>>
fifo == <<iaddr, oaddr, ram>>
stringVars == <<taken, dark>>
vars == <<progVars, dmaVars, fifo, stringVars, overrun, misled, stray>>

Init ==
    /\ at = "fill" /\ last = FALSE
    /\ drawing = 1 /\ undrawn = Slots
    /\ fb = [i \in Slots |-> [drawing |-> 0, blank |-> FALSE]]
    /\ next = 0
    /\ submitted = <<>> /\ issued = <<>>
    /\ iaddr = 0 /\ oaddr = 0 /\ ram = [s \in 0 .. Depth - 1 |-> Stale]
    /\ taken = <<>> /\ dark = FALSE
    /\ overrun = FALSE /\ misled = 0 /\ stray = FALSE /\ restarts = 0
----------------------------------------------------------------------------
(* The programs.  The order of the words follows from fb_idx; here it is any. *)
DrawWord ==
    /\ at \in {"fill", "draw"}
    /\ \E i \in undrawn :
        /\ fb' = [fb EXCEPT ![i] = [drawing |-> drawing, blank |-> at = "fill"]]
        /\ undrawn' = undrawn \ {i}
    /\ UNCHANGED <<at, last, drawing, next, restarts, dmaVars, fifo, stringVars, overrun, misled, stray>>

\* The next drawing: a picture, or a fill(0).
StartDrawing(a) ==
    /\ at' = a
    /\ drawing' = (drawing + 1) % Drawings
    /\ undrawn' = Slots

\* The buffer is blanked before the first picture, without a flush.
FirstPicture ==
    /\ at = "fill" /\ undrawn = {} /\ ~last
    /\ StartDrawing("draw")
    /\ UNCHANGED <<last, fb, next, restarts, dmaVars, fifo, stringVars, overrun, misled, stray>>

FlushDue == undrawn = {} /\ (at = "draw" \/ (at = "fill" /\ last))

\* Mutant: flush does not sleep.
SleepNot ==
    /\ FlushDue
    /\ at' = "poll"
    /\ UNCHANGED <<last, drawing, undrawn, fb, next, restarts, dmaVars, fifo, stringVars, overrun, misled, stray>>

\* The program sleeps and goes on.  Nothing but such sleeps waits for the engine.
SleepOver == stray' = (stray \/ issued # <<>>)

\* 2 ms.  "Remove me once FIFO overruns are resolved".
Sleep ==
    /\ FlushDue
    /\ at' = "poll"
    /\ SleepOver
    /\ UNCHANGED <<last, drawing, undrawn, fb, next, restarts, dmaVars, fifo, stringVars, overrun, misled>>

empty_count == EmptyCount(iaddr, oaddr)
full_count == FullCount(oaddr, iaddr)

\* The words that are in the FIFO.
held == Diff(iaddr, oaddr)

\* The program goes by the empty count; it is misled if that says too much and there
\* is not the room it asked for.
GoesByEmpty(words) ==
    misled' = IF empty_count > Depth - held /\ held + words > Depth THEN misled + 1 ELSE misled

\* Mutant: room for half a frame will do.
RoomForHalf == 2 * empty_count >= FRAME_SIZE_WORDS

RoomForFrame == empty_count >= FRAME_SIZE_WORDS

Poll ==
    /\ at = "poll" /\ RoomForFrame
    /\ at' = "ioctl" /\ next' = 0
    /\ GoesByEmpty(FRAME_SIZE_WORDS)
    /\ UNCHANGED <<last, drawing, undrawn, fb, restarts, dmaVars, fifo, stringVars, overrun, stray>>

\* What follows a flush: the next picture, the end, or, after the last flush, a
\* sleep and the wait for the FIFO to run empty.
AfterFlush ==
    \/ ~last /\ StartDrawing("draw")
    \/ ~last /\ at' = "ending" /\ UNCHANGED <<drawing, undrawn>>
    \/ last /\ at' = "wait" /\ UNCHANGED <<drawing, undrawn>>

\* Mutant: the buffer is flushed once more, but not blanked.
BlankNothing ==
    /\ at = "ending"
    /\ last' = TRUE
    /\ at' = "fill" /\ undrawn' = {}
    /\ SleepOver
    /\ UNCHANGED <<drawing, fb, next, restarts, dmaVars, fifo, stringVars, overrun, misled>>

\* After 5 ms for the last picture.
Blank ==
    /\ at = "ending"
    /\ last' = TRUE
    /\ StartDrawing("fill")
    /\ SleepOver
    /\ UNCHANGED <<fb, next, restarts, dmaVars, fifo, stringVars, overrun, misled>>

\* After 5 ms for the blank frame.
Leave ==
    /\ at = "wait" /\ empty_count >= EmptyAtExit
    /\ at' = "exited"
    /\ SleepOver /\ GoesByEmpty(EmptyAtExit)
    /\ UNCHANGED <<last, drawing, undrawn, fb, next, restarts, dmaVars, fifo, stringVars, overrun>>

\* Killed, or a panic elsewhere; a process inside the ioctl finishes it first.
Crash ==
    /\ at \notin {"ioctl", "exited", "down"}
    /\ restarts + misled < MaxMishaps
    /\ at' = "down"
    /\ UNCHANGED <<last, drawing, undrawn, fb, next, restarts, dmaVars, fifo, stringVars, overrun, misled, stray>>

\* The driver, the engine and the FPGA know nothing of it.
Restart ==
    /\ at = "down" /\ restarts + misled < MaxMishaps
    /\ restarts' = restarts + 1
    /\ last' = FALSE
    /\ StartDrawing("fill")
    /\ UNCHANGED <<fb, next, dmaVars, fifo, stringVars, overrun, misled, stray>>
----------------------------------------------------------------------------
(* ioctl_ledfb, which flush always gives the size of the frame. *)
Least(a, b) == IF a < b THEN a ELSE b

\* Mutant: the last one is not cut to the end of the frame.
ChunkUncut(start) == PageWords

Chunk(start) == Least(FRAME_SIZE_WORDS - start, PageWords)

Submit ==
    /\ at = "ioctl" /\ next < FRAME_SIZE_WORDS
    /\ submitted' = Append(submitted, [from |-> next, upto |-> next + Chunk(next), of |-> drawing])
    /\ next' = next + Chunk(next)
    /\ UNCHANGED <<at, last, drawing, undrawn, fb, restarts, issued, fifo, stringVars, overrun, misled, stray>>

\* No descriptor, or one that cannot be submitted: the ioctl returns an error and
\* the program panics.  What was submitted before stays with the channel.
SubmitFails ==
    /\ at = "ioctl" /\ next < FRAME_SIZE_WORDS
    /\ at' = "down"
    /\ stray' = (stray \/ next > 0)
    /\ UNCHANGED <<last, drawing, undrawn, fb, next, restarts, dmaVars, fifo, stringVars, overrun, misled>>

IssuePending == issued' = issued \o submitted /\ submitted' = <<>>

\* Mutant: whole pages only.
IssueWholePages ==
    /\ at = "ioctl" /\ next + PageWords > FRAME_SIZE_WORDS
    /\ IssuePending
    /\ AfterFlush
    /\ UNCHANGED <<last, fb, next, restarts, fifo, stringVars, overrun, misled, stray>>

Issue ==
    /\ at = "ioctl" /\ next = FRAME_SIZE_WORDS
    /\ IssuePending
    /\ AfterFlush
    /\ UNCHANGED <<last, fb, next, restarts, fifo, stringVars, overrun, misled, stray>>
----------------------------------------------------------------------------
(* The engine.  Its channel is public: other users of it issue what is pending. *)
OthersIssue ==
    /\ submitted # <<>>
    /\ IssuePending
    /\ UNCHANGED <<progVars, fifo, stringVars, overrun, misled, stray>>

DmaWord ==
    /\ issued # <<>>
    /\ LET chunk == Head(issued)
           slot == Slot(iaddr)
       IN  /\ ram' = [ram EXCEPT ![slot] = [slot |-> chunk.from, of |-> chunk.of,
                         drawing |-> fb[chunk.from].drawing, blank |-> fb[chunk.from].blank]]
           /\ overrun' = (overrun \/ ram[slot] # Stale)
           /\ issued' = (IF chunk.from + 1 = chunk.upto THEN Tail(issued)
                         ELSE [issued EXCEPT ![1].from = @ + 1])
    /\ iaddr' = Advance(iaddr, TRUE)
    /\ UNCHANGED <<progVars, submitted, oaddr, stringVars, misled, stray>>
----------------------------------------------------------------------------
(* The strings start on a frame when the count says that all of it is in the *)
(* FIFO, and then take word after word.                                      *)
TakeWord ==
    /\ full_count >= (IF taken = <<>> THEN FRAME_SIZE_WORDS ELSE 1)
    /\ ram' = [ram EXCEPT ![Slot(oaddr)] = Stale]
    /\ oaddr' = Advance(oaddr, TRUE)
    /\ LET now == Append(taken, Content(ram[Slot(oaddr)]))
       IN  IF Len(now) < FRAME_SIZE_WORDS THEN taken' = now /\ UNCHANGED dark
           ELSE taken' = <<>> /\ dark' = \A i \in DOMAIN now : now[i].blank
    /\ misled' = IF held = 0 THEN misled + 1 ELSE misled
    /\ UNCHANGED <<progVars, dmaVars, iaddr, overrun, stray>>
----------------------------------------------------------------------------
Program == \/ DrawWord \/ FirstPicture \/ Sleep \/ Poll \/ Submit \/ Issue \/ Blank \/ Leave
Engine == DmaWord

\* What an ioctl that failed has left with the channel goes out before the next frame,
\* and from then on no frame is in its place; what a sleep was too short for adds to
\* the next frame and tears it.  The model ends there.
Going == ~stray /\ misled + restarts <= MaxMishaps

Next == /\ Going
        /\ Program \/ Engine \/ TakeWord \/ SubmitFails \/ OthersIssue \/ Crash \/ Restart

\* A program that runs goes on, and so do the engine and the strings; programs
\* need not crash, nor calls fail, nor anybody start the program again.
Fairness == WF_vars(Going /\ Program) /\ WF_vars(Going /\ Engine) /\ WF_vars(Going /\ TakeWord)

Spec == Init /\ [][Next]_vars /\ Fairness
----------------------------------------------------------------------------
TypeOK ==
    /\ at \in {"fill", "draw", "poll", "ioctl", "ending", "wait", "exited", "down"}
    /\ undrawn \subseteq Slots /\ next \in 0 .. FRAME_SIZE_WORDS
    /\ iaddr \in 0 .. 2 * Depth - 1 /\ oaddr \in 0 .. 2 * Depth - 1
    /\ \A s \in DOMAIN ram : ram[s] \in Word \cup {Stale}
    /\ taken \in Seq(Contents) /\ Len(taken) < FRAME_SIZE_WORDS

(* While no count misleads, no word is overwritten, over any number of        *)
(* frames, crashes and failed calls: one poll per frame is enough, because    *)
(* nothing is on its way when it is made (display.rs:173-183,                 *)
(* led-driver.c:59-96).                                                       *)
NeverOverruns == misled = 0 => ~overrun

(* While no count misleads, the strings get every frame whole and in place,   *)
(* also one they start on before all of it is in the FIFO: the n-th word they *)
(* take is the n-th of a flush and all of a frame are of the same flush, also *)
(* of one before a crash (led-driver.c:59-96, parallel_strings.v:66-94).      *)
FramesStayWhole ==
    misled = 0 => \A i \in DOMAIN taken : taken[i].slot = i - 1 /\ taken[i].of = taken[1].of

Newer(word) == (Drawings + word.drawing - word.of) % Drawings

(* A frame is torn by the next picture at most: the engine reads the buffer   *)
(* while that one is drawn, but is done before another is; only a program     *)
(* started again may add its blanking and first picture (mod_ctrl.rs:47,70-92).*)
TornByTheNextAtMost ==
    restarts = 0 => \A s \in DOMAIN ram : Newer(ram[s]) <= 1

(* While no count misleads, flush returns: its poll cannot wait for room that *)
(* the strings, themselves waiting for a whole frame, never make              *)
(* (display.rs:178-180).                                                      *)
FlushReturns == at = "poll" ~> at \in {"draw", "ending", "wait", "down"} \/ stray \/ misled > 0

(* A program that ends, and was not misled by a count up to its last one,     *)
(* leaves the LEDs dark for good (mod_ctrl.rs:108-120, movie_ctrl.rs:56-68).  *)
LeavesTheDark == [](at = "exited" /\ ~stray /\ misled = 0 => <>[]dark)
============================================================================
