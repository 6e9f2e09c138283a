# Cloud ceiling: models, checks and proofs

This directory holds TLA+ models of the cloud ceiling, the LED installation in
this repository: an FPGA that drives strings of addressable LEDs, the Linux
driver that moves frames to it, and the Rust servers that draw the frames. TLC
checks the models on small instances; TLAPS proves the most important facts for
every value of the constants. `PROJECT.json` is the index: components, runs,
mutants, the map from definitions to source lines, hazards and theorems.

    tlc -config VectorXingSlow.cfg VectorXing     # one run
    tlapm SimpleFifoProofs.tla                    # one proof module

## 1. The system

    HTTP client -> server.rs -> broadcast channel -> mod_ctrl / movie_ctrl -> frame buffer
                       |                                                          | ioctl
                       `-> broadcast channel -> led_ctrl -> registers             v
                                                     |                 led-driver.c (DMA)
                                                     v                            |
      FPGA:   gpmc_sync -> register map -> FIFO write port  <--------------------'
              clk_100         |                 | simple_fifo (clk_100 -> clk_20)
                              |                 v
                              |          parallel_strings -> string_driver x 23 -> color LEDs
                              `-------> extra_strings    -> string_driver x 4  -> white LEDs

| Component | State it keeps | Operations | Talks to |
|---|---|---|---|
| Clock crossings `event_xing`, `vector_xing` | toggle flop and two synchronisers per event, word register on each side | accept an event or word, see it, acknowledge it | used by the FIFO for both pointers, by `top` for underflow and the white color strobe |
| Pixel FIFO `simple_fifo`, `fifo_counter_half`, `dp_ram` | a pointer, a count and an error flag per side, RAM, read pipeline | write, read, publish pointer, count | written by the register map (clk_100), read by `parallel_strings` (clk_20); `empty_count` is polled by software |
| Color strings `parallel_strings`, `string_driver` | frame counters, 48-bit shift register, round-robin position, a bit state machine per string | start a frame when the FIFO holds one, pop words, repack them to pixels, hand each pixel to its string, blank | pops the FIFO on `full_count`; drivers answer with an early `ready` |
| White strings `extra_strings` | pixel counter, frame flag | send one color to every white LED | color registers of clk_100, read live; strobe through `event_xing` |
| Top level `top` | two double-synchronised resets, acknowledge flops, microphone shift register | release resets, latch status, shift a word out | wires everything |
| Bus bridge `gpmc_sync` | address and data registers and three toggles on the bus clock; synchronisers, request strobes on clk_100 | address phase, read, write | processor bus on one side, register map on the other |
| Kernel driver `led-driver.c` | buffer, its size, frame count, DMA channel | mmap, ioctl (queue one frame in 4096-byte chunks), DMA callback, init, exit | user space; DMA engine; FIFO window |
| Display access `display.rs` | mapped registers and buffer | flush: sleep, poll `empty_count`, ioctl; white registers | driver and registers |
| Render loop `mod_ctrl.rs` | variables, list of render blocks, frame number | drain commands, draw, flush | command channel, display |
| Movie loop `movie_ctrl.rs` | frame number | one message, one frame | command channel, display |
| White LEDs `led_ctrl.rs` | current color | fade to a color | command channel, registers |
| HTTP server `server.rs` | two senders | one route per message kind | clients, channels |
| Render blocks `blocks/*.rs` | parameters | pure functions of the variables | called per pixel by the render loop |

What is hard in it: two clocks with no fixed phase and resets released at
different times; counts computed from pointers that are several edges old;
a pipeline that reads ahead on a ready signal raised early on purpose; a frame
buffer shared between a renderer and a DMA engine with no completion signal;
bounded broadcast channels whose receivers sleep; and a stream with no frame
marker, in which one lost or surplus word shifts every later picture.

What makes each part correct:

* crossings: each event or word crosses exactly once, whole, in order;
* FIFO: a queue; counts that err on the safe side; the first error is flagged;
* color strings: pixel k of a frame reaches LED k/n of string k mod n, one
  frame per frame, a blanking pulse between two frames on every string;
* white strings: every LED receives the whole color once per request;
* bus bridge: each bus write becomes one request with its own address and data;
* driver and display: the FIFO receives whole frames, in order, never more than
  it has room for, each the picture that was drawn;
* controllers: an accepted command takes effect, and a burst of commands does
  not end a service.

## 2. What is modelled

### `EventXing`, `VectorXing`: the clock crossings

`EventXing` has one variable per flop of `event_xing.sv` and one operator per
`always_ff` block (`IFlops`, `OFlops`, `ISample`, `OSample`). A synchroniser's
first flop looks at the other domain. When both clocks tick in the same step it
may catch the value from before or from after the edge, which is what a
metastable flop settles to. `VectorXing` adds the word registers of
`vector_xing.sv`, the clocks and the resets, and has one action per clock event:
`ITick`, `OTick`, `BothTick`. `iticks` counts sender edges within one receiver
period; `IMin` and `IMax` bound them and so give the clock ratio. If the word
register changes at the very edge at which it is captured, the captured word is
arbitrary (`CapturedWords`). Resets are held at power-up and released at any
edge of their own clock, in either order (`top.sv:58-75`).

`EagerPush` wires `ipush` to `iready`, as `fifo_counter_half` does; without it
the user of the sending side pushes what and when it likes.

Three abstract specifications say what the crossings promise:

* `EventMailbox`: send, see, acknowledge, in that order, for ever;
* `VectorMailbox`: the header of `vector_xing.sv`, every word delivered once;
* `Relay`: what the FIFO needs and no more, that the far register is only ever
  overwritten by the whole of the last published word, and that this happens.

| Run | Clocks | What it shows |
|---|---|---|
| `vector_xing_slow` | 0..2 sender edges per receiver period (clk_20 to clk_100 is 0..1) | the toggle ring invariant, `VectorMailbox` including liveness, the stable word register |
| `vector_xing_fast` | 5..6 sender edges (clk_100 to clk_20), eager push | `EventMailbox` including liveness, `Relay` |
| `vector_xing_stable` | as above | expected violation: the comment at `vector_xing.sv:58-59` does not hold at this ratio |

The expected violation is instructive: the acknowledgement is combinational on
the receiving side, so at 5:1 it is back within the receiver cycle in which the
event shows, and the next word is registered before the capture. The capture
takes that newer word, whole. A pointer crossing does not mind: it only skips an
intermediate value. That is why the FIFO is modelled on `Relay` and not on
`VectorMailbox`.

Three words are enough to tell the word before, the word being sent and the word
after apart. All other state is flops, so the instances are exhaustive in
everything but the word set.

### `SimpleFifo`: the pixel FIFO

One variable per register of the two `fifo_counter_half` instances and of
`dp_ram`. The pointer arithmetic is in `FifoPointers`, which `FrameFlush` shares. The pointer crossings are reduced to `Relay`: a pointer is published
at some edge, and what is published arrives at some later edge. Every legal
timing of the real crossing is a behaviour of that. The users read and write
whatever the counts say, so overflow and underflow happen; the model stops at
the first flagged error because `fifo_counter_half.sv:99-104` promises nothing
beyond it. `pending`, the words written and not shown yet, and `erred` are
history variables that nothing in the model reads but the stop.

`WithTopBit` selects the pointer width: FALSE is the width `fifo_counter_half.sv:84`
computes, and so what is built; TRUE is the width the header comment describes and
`FifoCounterHalf.vhd` implements. A pointer of the model always has the extra bit,
as history; `Kept` and `Slot` say what the registers and the RAM have of it, and the
counts are made of that only (`EmptyCount`, `FullCount`).

| Run | Instance | What it shows |
|---|---|---|
| `simple_fifo` | depth 2, two word values, wide pointers | the inductive invariant, the counts as promises, eventual visibility of words and of space, refinement of `BoundedQueue` up to the first flagged error |
| `simple_fifo_truncated` | the same, truncated pointers | expected violation: words are overwritten and no error is flagged |

Depth 2 with two values reaches every full, empty and wrapped position with
words that can be told apart. The three safety properties are proved for every
depth and every word set (section 3), so the small run is there for the two
liveness properties and for the mutants.

The truncation means that a full FIFO reports `empty_count = Depth`. With the
installed sizes (8192 words, frames of 8142) the second frame written wraps the
pointer; from then on `full_count` can exceed what is there by 8192, so the
strings start before the frame has arrived, and `empty_count` can exceed the
room. `display.rs:174` sleeps 2 ms until "FIFO overruns are resolved". What comes of
it with frames, polls and strings around it is in `FrameFlush`, which takes the
pointers as built.

### `StringDriver`, `ParallelStrings`: the color strings

A driver is a record with the registers of `string_driver.v`, and `DriverStep` is
one clock edge of it: the shifter (`ShiftStep`) and then the pulse generator
(`PulseStep`), which sees the old shifter registers as the two `always` blocks
do. `ParallelStrings` has one variable per register of `parallel_strings.v` and
one operator per `always` block; they all tick together, so there is one action,
`Tick`. Pulse lengths are the ones computed for the 50 ns clock.

The data is abstracted as far as the properties allow. A byte is its place in
the stream, modulo two frames; a pixel is three bytes, and the shift register is
six of them, so that repacking 16 to 24 bits is modelled exactly. Whether a bit
is one or zero is chosen when it is sent: it decides only how long the line is
high (at 50 ns a one and a zero take the same 25 ticks in all). `line[s]` is a history variable,
the bits put on the wire of string `s` since its last blanking. The FIFO is its
read side: `known` words can be read, `full_count` is that number a clock edge
later, and a word comes out two edges after the read. That `full_count` never
claims a word that is not there is `CountsNeverLie` of `SimpleFifo`.

| Run | Instance | What it shows |
|---|---|---|
| `parallel_strings` | 3 strings of 2 LEDs, room for one frame and one word | every bit in its place, whole frames taken, complete frames shown |
| `parallel_strings_last` | the same | expected violation: the last pixel of a frame is flushed to the wrong string |

Three strings make an odd number of bytes in a column, the case
`parallel_strings.v:75-79` is careful about; two LEDs give a first, a last and a
wrapping column; the spare word makes "1.5 frames" (line 69) happen, and with it
frames that follow each other at once. Pixels have 2 bits in place of 24, which
is enough for a first and a last bit. Both formats of the shift register
(`shift_reg_sel`) occur, with every string as the target.

Three things the model shows and the installed system gets around:

* the last pixel of the last string is lost in every frame (`parallel_strings_last`).
  In the flush branch `active_string` is not advanced, so the flushed pixel is
  offered to the string before, which is busy. `FrameIsShown` therefore excepts
  that pixel;
* a frame that is complete before the LEDs have been cleared starts between two
  of the clearing pixels and loses pixels (`EveryBitInPlace` with `QuietStart` set
  to FALSE). The test bench waits for the clearing, and so does the constant in
  the runs;
* with 2 or 10 strings the register `bytes_remaining` is too narrow for its first
  value (`RegisterModulus`); `WholeFramesTaken` fails with two strings.

### `ExtraStrings`: the white strings

One variable per register of `extra_strings.v`, with `DriverStep` of
`StringDriver` for the driver. All drivers see the same signals and a one takes
as long as a zero, so one driver and its line stand for every string. The color
is a register of clk_100 read live; a pixel that is loaded at the edge at which
the register changes is the word before, the word after or a mixture
(`Captured`). The strobe of the high half crosses through `event_xing`, of which
`crossing` keeps where it is: idle, sent, returning. `WriteLow` and `WriteHigh`
come at any time, and the reset may come back at any edge, when the crossing
loses or invents an event.

| Run | Instance | What it shows |
|---|---|---|
| `extra_strings` | 3 LEDs, 3 bits, two colors and a mixture | every LED gets the same bits of the color however requests and resets fall; a color written while the strings are idle reaches them |

Three bits are a first, a middle and a last one; three LEDs are the first, one
with a neighbour on each side, and the last. The properties are stated the way
the code has them, which is not quite the way its names suggest:

* the blanking pulse is delayed until it meets the first pixel at the driver and
  takes the place of its first bit, so every LED is one bit out of step. This is
  what `display.rs:97` ("MSB being ignored? TODO") halves the values for;
* the last LED of a string gets no pixel (`pixels_remaining` starts at N-1), and
  the one before it lacks a bit;
* a request during a frame starts a new one in the middle of it, and a request
  while the strobe is still crossing is lost: two commands without a fade may
  leave some LEDs with the first color. Steps of a fade are 10 ms apart and a
  frame of 118 LEDs takes less than 4 ms, so a fade does not suffer from it.

### `GpmcSync`: the processor bus bridge

The flops of `gpmc_sync.sv` by kind of phase (`tgl`, `ms`, `cpu`, `q` for address,
read and write), and the bus, which is external: an address phase and then one
write, a burst of writes to the FIFO window, or a read that is sampled at the
end. The bus clock runs only during an access and nothing is acknowledged to it,
so everything rests on time: `PhaseGap` is the least number of edges of clk_100
between two phases and `ReadGap` that between a read and its sampling. A word
that changes in the step in which it is captured may be read as anything.

| Run | Instance | What it shows |
|---|---|---|
| `gpmc_sync` | two registers and the window, two words, `PhaseGap` 3, `ReadGap` 5 | each bus write becomes one request with its own address and data, bursts included, and becomes one without a later access to push it; a read is sampled with the word of its own register |

The numbers are the device tree's: 40 ns between phases are 3 to 5 edges of
clk_100, and 60 ns from a read to its sampling at least 5. There is little to
spare: the run fails with `PhaseGap` 2 and with `ReadGap` 3. It
fails too with `ResetAgain` TRUE, because a reset clears the flops behind the
toggles and not the toggles: after an odd number of writes the last one is
repeated, which in the FIFO window is one word too many for every later picture.
The line `addr_valid_cpu <= addr_valid_cpu + 2`, on one bit, delays an address by
an edge and no more.

### `FrameFlush`: from the frame buffer to the FIFO

The drawing programs and their exit, `flush` of `display.rs`, the ioctl of
`led-driver.c`, the DMA engine, the FIFO and the strings that take whole frames
out of it, in one module, because they share one frame buffer and no completion
signal. `Submit` is one pass of the ioctl's loop, `Issue` its end, `SubmitFails`
its error paths, `DmaWord` one word of the engine, `OthersIssue` the fact that the
channel was requested as a public one. A word carries its place in the frame,
which flush it was part of, and which drawing wrote it (the last is dropped when the
strings take it: `TornByTheNextAtMost` asks in the FIFO, before that). `Crash` and `Restart` may
come at any point of the program outside the ioctl. Both sides know both pointers at
once here: what the crossings of `SimpleFifo` delay only delays the poll and the
strings. The DMA callback only logs.

The run takes the pointers as built. From the moment the write pointer has wrapped
until the read pointer has, both counts say `Depth` too much. Most of the time
that does no harm, and the model shows when: the strings start on a frame before
it is all there but never catch up with the engine, or the poll reads more room than
there is although there is enough. `misled` counts the steps that went by such a count
and should not have: a poll or an exit that goes on, on an `empty_count` above the room
there is, without the room it asks for, and a word taken from an empty FIFO.
`NeverOverruns`, `FramesStayWhole`, `FlushReturns` and `LeavesTheDark` speak of what happens up to the first of them. They say no more
because no more is true: without `misled = 0` TLC finds the overrun, and a
`flush` that waits for ever (two flushes pass the poll before the strings start;
then both counts are below a frame and neither side moves). Nothing in the code
rules such a step out: the sleep of `flush` only makes it rarer. `TypeOK` and
`TornByTheNextAtMost` hold without the condition.

The sleeps are just that: 2 ms before the poll, 5 ms at the end. They wait for
the engine if they are long enough, which nothing checks. When one is over with descriptors
still issued, `stray` becomes true and the model ends, as it does after an ioctl that
fails with descriptors submitted: what is left goes out in front of or among the next frame.
So the properties hold in every state up to and including that one, and the
model does not assume that a sleep is long enough; what it does not show is what
the LEDs do afterwards. Without the sleep (`SleepNot`, which goes on and does not
end there) room is claimed twice.

| Run | Instance | What it shows |
|---|---|---|
| `frame_flush` | frames of 3 words in chunks of 2, FIFO of 4 words, pointers as built, one restart or one misled step | up to the first misled step: no word is overwritten, frames stay whole, flush returns, the program leaves the LEDs dark; in any case: a picture is torn by the next one at most |

A frame of three words in pages of two has a whole chunk and a cut one, as 8142
words in pages of 2048 do; a FIFO of four holds a frame and less than two, as 8192
does; three drawings tell the flushed picture, the next, and any other apart.

`MaxMishaps` bounds restarts and misled steps together. One is enough for what the
properties say, which ends at the first misled step, and for the first restart.

### `FrameLayout`, `RenderVars`, `RenderBlocks`, `ModCtrl`, `RenderLoop`: drawing

`FrameLayout` has the three index functions of `constants.rs` and, on the
receiving side, where the n-th LED of a string hangs. `RenderVars` is
`var_types.rs` and `RenderState` with the readers from JSON; `RenderBlocks` the nine
blocks, each with its `from_obj` (`BlockFits`, `block_factory`) and its `execute`;
`ModCtrl` applies a command and draws a pixel; `RenderLoop` draws frame after frame
of one configuration. A panic is a field of the state.

Numbers are whole multiples of 1/`ONE` and powers have whole exponents. Where the
rounding of f32 decides something, the phase of the dither, `F32` rounds to a
mantissa of `Mantissa`. `color_interp` finds its segment through the list of
indices but then uses the position in that list as the index; the model does the
same.

| Run | Instance | What it shows |
|---|---|---|
| `render_loop` | 12 by 4 LEDs, 16 frames, 8 configurations | each LED shows the function of its own place and frame, hues come back through the textbook conversion, dithered light adds up over its period, triangle waves do not jump |

Twelve columns take a hue once round in steps of a twelfth, so every sector and
sector border is met; four rows are two strings, each with its two directions;
sixteen frames are two periods of the dither, and `Mantissa` is small enough for
the phase to leave the exact range within them. `ONE` is 240, which makes the
products that occur whole. The configurations follow those in
`src/rust/configs`, with one that lacks a stanza and ends in a panic.

### `LedCtrl`, `Server`, `Ceiling`: the two programs

`Ceiling` composes the tasks of `cloud_ceiling` and `movie_ceiling`: connections and
the accept loop (`Connect`, `AcceptFails`, `Disconnect`, `Handle`), the render loop
(`TakeCommand`, `EndDrain`, `Draw`), the movie loop (`ShowImage`, `EndMovie`), `Exit`, and
the white LED task (`LedTake`, `LedFade`, `LedSet`, `LedEnd`). `Server` says what each
route does with a request: answer, send, or panic; `LedCtrl` is the arithmetic of
`led_ctrl.rs` and of the white register, with the exponent 2.2 taken as 2; the power of a
negative brightness is `NaN`, and so is every color faded from or to it, which the
register shows as dark. The two tokio channels, external, keep the newest `Capacity` messages and tell a receiver
once that it lost some. A frame is drawn in one step, since nobody else reads the
renderer's data, and what becomes of it is in `FrameFlush`.

| Run | Instance | What it shows |
|---|---|---|
| `ceiling` | 2 by 2 LEDs, channels of two, one client, four workloads | what ends a task, which commands take effect and in which order, and the picture and white color they lead to |

The four workloads are: configurations and variables with refused requests; the
renderer with a frame limit and commands that do not fit; the movie program with
two images, a short one and a message of another kind; white LEDs at two
temperatures with and without a fade, a negative brightness, and a temperature out of range. `Misfits` names the
requests after which a panic is allowed. `want` and `lastWhite` are histories of what
the server accepted. With a channel of two, bursts overflow it. `frame` wraps at
`FrameModulus`, as the u32 does.

What the model shows on the way:

* a lag ends the drain of a frame (`mod_ctrl.rs:58`) but ends the white LED task and
  the movie loop for good (`led_ctrl.rs:32`, `movie_ctrl.rs:26`). Once a burst has filled
  the channel, one more command per frame makes every later drain lag too;
* a burst before the first drain pushes out the initial configuration, and the
  renderer panics in its first frame;
* a client that is gone before its address is asked for ends the accept loop
  (`server.rs:236`).

`TasksEndForACause` says that there is no other cause. The properties on commands
except a channel that has overflowed, and nothing else.

### Fairness

* `VectorXing`: both clocks tick for ever (weak fairness of each), and a reset
  that can be released at infinitely many edges is released (strong fairness;
  the PLL locks).
* `SimpleFifo`: there is always a later edge at which the users do nothing,
  because a bus cycle takes several edges of clk_100 and a word is shifted out
  for many edges of clk_20. At such edges resets are released, pointers are
  published and arrive. That is exactly what `EventCrossesOnce` and
  `LastWordArrives` establish for the crossing. Nothing obliges the users to
  read or write.
* `ParallelStrings`: the clock ticks and the reset is released. The fair tick is
  one at which no word arrives, so fairness does not complete a frame that
  software never finished.
* `ExtraStrings`: the clock ticks, out of reset too, and a strobe on its way
  arrives. Software need not write.
* `GpmcSync`: the clock ticks, out of reset. The bus need not do anything.
* `FrameFlush`: a running program goes on, the engine transfers what was issued,
  the strings take what is complete. Programs need not crash, calls need not
  fail, nobody need start the program again.
* `Ceiling`: a thread that can run does, and a fade is over after its delay.
  Clients need not do anything. The condition for the main thread is written
  out as `MainCanRun`, which is what enables it.
* `RenderLoop`: none; only safety is asked of it.

## 3. Proofs

Each proof module assumes no more than the named assumptions on the constants.

`VectorXingProofs`:

* `RingInvariant`: `XingInv` is inductive as it stands. Its core, `OneEdgeInRing`,
  says that of the four hops of the toggle ring at most one is out of step; the
  part about resets is needed because a domain in reset holds its flops at zero
  while the other one runs.
* `EventExactlyOnce`: every step of the ring is a step of `EventMailbox` or a
  stutter, from that invariant.
* `StableWhenSlow`, `WordExactlyOnce`: with `IMax <= 2`. The strengthening counts
  sender edges since the event was first visible, so the returning
  acknowledgement cannot be used before the capture.
* `WordsInOrderWhenFast`: with eager push and `IMin >= 5`, the word register never
  changes at the capturing edge itself.

`SimpleFifoProofs`, for either pointer width. With the extra bit the theorems hold
whatever the users do. As built the counts do not tell the users when to stop, and
the theorems say what the users have to keep to instead: for the counts, to
what has reached their side (`AsTold`); for the queue, not to write to a full FIFO and
not to read from an empty one (`Fits`). That they need it is the run
`simple_fifo_truncated`:

* `FifoInvariant`: the six pointer copies, walked round the circle of `2 * Depth`
  positions, are separated by gaps that add up, with the empty count, to at most
  `Depth`. `CountsArePromises` is not inductive: it says nothing about the copies
  in flight, and a count is computed from those. `FifoInv` bounds every gap, so
  each action moves length from one gap to the next and the sum stays bounded.
* `CountsNeverLie`: `CountsArePromises` from that invariant. As built it is a
  statement about the bits of a count below the top one; the top one is what lies.
* `ImplementsQueue`: the FIFO implements `BoundedQueue`. The pointers alone do not
  say which words are where, so the invariant adds `WordsInPlace`: the words not
  shown yet lie in the RAM one after the other, the first in the slot whose
  address is in the read pipeline, if a read is on its way, and at the read
  pointer otherwise. A read edge drops the first word (`DropFirst`), a write
  that `Fits` has less than `Depth` words before it and so overwrites none of them
  (`AddLast`). With the extra bit every access that raises no error fits, by
  `FifoInv` (`WideFits`).

`StringDriverProofs` has what the two modules below share: one clock edge of a driver
register by register (`DriverFields`), and how its registers go together
(`DriverSound`, `DriverStaysSound`). It also says how long a driver is busy: `ToReady` counts
the edges until it takes the next pixel, goes down by one at every edge and is
`PixelTicks` after a load (`DriverAdvances`), when ones and zeros take the same time
(`SamePulses`, true at 50 ns).

`ExtraStringsProofs`, for every clock that resolves a pulse, every number of LEDs,
bits and colors:

* `ExtraInvariant`, `WhiteTypes`, `SameBits`: `EveryLedTheSameBits` alone is not inductive.
  `ExtraInv` adds where a blanking pulse can be: a request raises `h_blank` for one
  edge, which meets the driver when it is ready, when it has been loaded and not
  yet started, or when it is blanking, and never between two bits of a pixel
  (`BlankFindsFirstBit`); the bits on the wire are then in step with `bit_count`.

`ParallelStringsProofs`, assuming `CountsFit`, that the register of `bytes_remaining` holds
its first value. `RegisterModulus` makes it a hypothesis on `N_STRINGS`: it is true of
the 23 strings of `top.sv` and of the 3 of the runs, and false where 3 N + 2 is a
power of two (2 and 10 strings), where the code fails:

* `CountInvariant`, `ColorTypes`, `WholeFrames`: `pixels_remaining` and `bytes_remaining` are
  one number, the bytes of the frame that are left (`Rest`). While a frame is read,
  the read pointer and `Rest` add up to the frame (`CountInv`). `Rest` goes down by two
  with each read whichever of the two counters changes, also across the end of a
  column in the middle of a word, and ends at five with the last access.
* `StringsInvariant`, `EveryBit`: every bit on a wire is in its place in one frame, whenever
  words arrive. This needs `Design`: besides `CountsFit`, at least three strings
  (two do not fit the counter), two bits a pixel, `SamePulses`, and `QuietStart`, without
  which the property is false (section 2). The invariant has four layers on top of
  `CountInv`. `PipeInv`: the words that are asked for, that have left the FIFO and that
  are in the shift register follow the read pointer, and each delayed flag belongs to
  the word it is late for (`Delayed`). `OfferInv`: the pixel in the shift register is for
  the string whose turn it is, and no word replaces it before that string takes it.
  That needs `ConvoyInv`: the read control looks whether a string is ready two or
  three edges before its pixel is there, and only for every word that completes a
  pixel, so the proof has to bound how far the strings lag one another (`ConvoyOf`:
  six edges from string to string at most, and less for the string whose turn it is,
  depending on where its word is). `SendInv` says in every phase (clearing, waiting,
  blanking, dealing, flushing) how many pixels each string has taken, and that they
  were the first of its own. `WirePrefix` goes from pixels to bits.

`FrameFlushProofs`, for either pointer width, from the sizes of `FlushAssumption` (a
frame fits into the FIFO, two do not). `RoomInvariant` has two parts: `ChainInv` holds in
every state, and `RoomInv` while no count has misled anybody. Which pointers the
counts are made of matters at two places only: a poll that is not misled has the
room it asked for, and a word that is taken without being misled is there.

* `RoomInvariant`, `TypesHold`, `NothingOverrun`: `NeverOverruns` is not inductive. What
  keeps it is that the room found by a poll stays reserved: words in the FIFO,
  words still with the engine and words the ioctl has not submitted yet are
  together never more than the FIFO holds (`RoomForTheRest`), the descriptors are a
  contiguous chain up to where the ioctl is (`ChainInOrder`), and slots that do not
  hold unread words are free (`NothingBeyond`).
* `FramesAreWhole`: at most three frames are on their way at a time, one being
  taken, one in the FIFO, one being transferred. `FrameInv` says of which flush
  each is (a witness function from 0..2), and that the words taken, the words in
  the RAM and the descriptors follow each other without a gap across them.
* `TornAtMostOnce`: what is on its way was flushed in the drawing in progress or in
  the one before (`OnTheirWay`), and the buffer holds words of these two only
  (`BufferOfTwo`). A new drawing starts only when everything on its way is of the
  last one, which the sleep of `flush` and the wait of the exit see to
  (`AtItsPlace`), so the two never become three. None of this needs a count to
  be true. Restarts are the limit: the first one breaks it, and the property says so.

`GpmcSyncProofs`, assuming `PacedBus`: three edges of clk_100 between two phases, five
before a word is sampled (the numbers of the device tree or slower), and no
second reset:

* `BridgeInvariant`, `BridgeTypes`: `BridgeInv` tells where the flip of each toggle is, by the
  edges since the last phase (`AddressOnTime`, `WriteOnTime`, `ReadOnTime`). Nothing
  weaker is inductive: a phase is only safe because the flips before it have
  arrived, and an acknowledged write holds the flop of the address back by one
  edge, which the third edge of the pause absorbs.
* `RequestsAreWrites`: what is owed is the request that shows, followed by the write
  on its way, so a write request is always the oldest owed one.
* `ReadsInTime`: an answer takes the five edges, and the second request of a long
  access finds the first under way and changes nothing.

`CeilingProofs`, for every workload, capacity and number of clients (`MisfitsAssumption`
and `RendererAssumption` say what `Misfits` must at least contain: the requests that
make the LED task, `movie_main` or the renderer panic):

* `TasksInvariant`, `LedTaskEndsForACause`, `MovieEndsForACause`: what a task ends over was
  accepted earlier, and may lie in the channel meanwhile, so `TasksInv` carries the
  cause along: everything that waits fits, or a misfit was accepted (`WaitingFit`), and
  a receiver that is told of a loss has had one (`ChannelsOK`). That nobody is left to
  send is for good, since the accept loop never starts again (`NoSenderComesBack`).
  These are the LED half of `TasksEndForACause` and its movie case.
* `NobodyPanicsWithoutCause`: all of `TasksEndForACause`. The renderer can panic long after
  the command that made it possible, on a block that reads what is not there, so
  `RendererAssumption` reads off the configurations in use which settings are safe with
  every one of them. `RendererServes` is inductive: the lists of variables are as long as a
  configuration in use makes them, the blocks are its blocks, and the scalars that
  choose the mode of an image lookup hold one that `to_u8` takes, which drawing leaves
  alone (`DrawnServes`). Until the first command is taken the renderer has nothing to
  draw with; that is safe because the initial configuration heads the channel
  (`FirstWaits`), which a burst before the first drain breaks. Configurations with
  `color_interp` are outside the assumption: that an interpolated channel stays between
  0 and 255 is a matter of its numbers. TLC evaluates the assumption for the instance.
* `WhiteIsTheLastAccepted`: the last command is the newest in the channel, or in the
  task, or in the register (`LastOnItsWay`). `WhiteFollowsCommands` goes on from there
  with the arithmetic of one command, which depends on `ONE` and stays with TLC.
* `DitherAveragesOut`, for every color, place and frame: the arithmetic of
  `DitherAverages`. The phase moves by three with each frame, so eight frames go through
  all eight (`AllPhases`), and eight floors spread over one step add up to the floor of
  eight times the color (`EightFloors`, Hermite's identity). It asks for an eighth to be
  exact (`ONE % 8 = 0`, as it is in an f32) and the phase too. What it takes for
  granted is that the blocks before the dither give the same color and the same place
  in the eight frames; `RenderLoop` checks the whole pixel.
* for every picture size: `LedsShowTheirPlace` (the index function of the Rust code and
  the order in which the FPGA deals out pixels agree), `PlacesAreApart`.

* `TypeCorrect`, for any lists of variables, blocks, commands and pixels, and whatever
  JSON is sent (`JsonAssumption`: a body that is JSON is a JSON value, as `json::parse`
  makes it). `TypesInv` adds to `TypeOK` what waits in the channels, which is made of
  checked requests (`MessageTyped`), and the colors the LED task holds. The rest is one
  lemma for each thing that makes data: each block (`ComputedTyped`), each setter, the
  readers from JSON, one pixel, one frame, one image.
* `CommandsInOrder`: `CommandsTakeEffectInOrder` with the types is inductive. It compares
  two renderers in the variables that drawing does not own, so the proof is about
  renderers that differ only there (`Alike`): a command does the same to both
  (`ApplyAlike`), hence so does the list of those that wait (`AppliedAlike`), and drawing
  takes a renderer to one like it (`DrawFrameAlike`).
* `ImageAsItHangs`: each place is visited once (`PlacesDiffer`, `EveryPlaceIsDrawn`), what
  is put there stays, since no two places share a byte (`PutShows`, `Painted`), and
  it is what the LED of the place shows (`LedShowsPlace`).
* `PictureIsOfTheCommands`: a pixel is compared with the one drawn on its own. A block
  that reads the same computes the same, or panics on both (`ComputesAlike`), so along
  blocks that feed forward the variables differ at most in what is still to be
  written (`ExecutedReads`), which in the end is nothing. They start alike because
  drawing changes outputs and coordinates only (`PixelsAlike`) and the coordinates are
  those of the place: `mod_ctrl.rs` sets the frame number once a frame and the column
  once a column, and no block writes to them in between (`PlacedAt`, `EveryPixelDrawn`).
  Without `FeedsForward` it is false; the run `render_loop` has such blocks.

* `NothingOfTheOldFrame`: every byte of the frame is one of the three of a place that
  drawing visits (`EveryByteIsOfAPlace`), and what is put there stays (`FrameShown`), so
  frames drawn from the same variables have the same bytes (`ShownAlike`). The variables
  do not depend on the buffer (`SameVariables`). It holds of any blocks, also those that do not
  feed forward.

These five are about folds: the blocks of a pixel, the pixels of a frame, the
commands in the channel, the factors of a power. `FoldLeft` chooses a function on the
sets of indices; `FoldExists` shows that there is one and `FoldChain` that the fold
ends a chain of values in which each follows from the one before. What holds along
such a chain is `UpTo`, which comes from a least counterexample (`LeastElement`, well
founded induction on the naturals with the set of counterexamples in the place of a
predicate, so no theorem with an operator parameter is cited).

Only model-checked: liveness everywhere, which is out of the prover's reach as
is anything that needs ENABLED; that the truncated pointers do fail; the properties of `RenderLoop`,
whose hue and triangles are arithmetic of f32 at the `ONE` of its instances (its
pictures are made by the operators `PictureIsOfTheCommands` is about, frame by frame
where `RenderLoop` goes pixel by pixel); of `Ceiling`, the mix of the white LEDs,
claimed up to brightness 1: above, `display.rs` cuts each channel off on its own.

## 4. Not modelled, and why

* A second reset in `SimpleFifo` and `ParallelStrings` (the PLL can lose its lock,
  `top.sv:73`). `ExtraStrings` has it for its own side, `GpmcSync` for the bus.
* The status flags (`top.sv:121`, the two are swapped): two wires into generated
  code, read by nothing here. The microphone shifter: read by nothing here.
* `led-driver.c`: refused buffer sizes (`flush` always passes the size of the frame),
  mmap, start-up and removal of the module, the frame counter it logs.
* Analogue timing: whether 500 ns of blanking is enough for the LED chip
  (`string_driver.v:29`; the comment and test bench ask for more) is not a question
  about states. How long the 2 ms and 5 ms sleeps are is not one either: `FrameFlush` ends
  where one was too short.
* The exact values of floating-point powers; the model keeps what depends on the
  order and rounding of operations and drops the rest.
* `hdl/pll.v` (a vendor primitive), the register map (generated from
  `docs/regs.rdl`), the test benches, the device tree beyond its bus timing, the
  Python clients, and the animations, which are in neither binary.
* The parity and redundant FIFOs of the VHDL originals, which are not built.
* hyper, tokio, the Linux DMA engine and the processor's memory controller are
  modelled from how this code uses them, and marked external.

## 5. What could come next

1. A reset that comes back in `SimpleFifo` and `ParallelStrings`: the property to ask
   for is by how much the picture is offset after it.
2. A proof of the mix of white LEDs, with a bound on `ONE` for its rounding.
3. The status flags, once something reads them.
