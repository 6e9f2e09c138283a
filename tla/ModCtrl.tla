------------------------------ MODULE ModCtrl ------------------------------
(***************************************************************************)
(* What the render loop of mod_ctrl.rs does to its data: apply a command   *)
(* (modular_msg.rs), and draw one pixel.  The renderer's data is a record  *)
(* of the variables st and the list of blocks.                             *)
(***************************************************************************)
EXTENDS RenderBlocks, FrameLayout

NewRenderer == [st |-> NoVariables, blocks |-> <<>>]

IsRenderer(r) ==
    /\ r \in [st : Variables, blocks : Seq(Range(r.blocks))]
    /\ \A b \in Range(r.blocks) : IsBlock(b)

ConfigFits(obj) ==
    /\ Has(obj, "vars") /\ StanzasFit(obj.vars)
    /\ Has(obj, "primitives") /\ Is(obj.primitives, "arr")
    /\ \A b \in Range(obj.primitives.arr) : BlockFits(b)

update_cfg(r, obj) ==
    IF ~ConfigFits(obj) THEN [r EXCEPT !.st = Panicked(r.st)]
    ELSE [st |-> from_obj(r.st, obj.vars),
          blocks |-> [i \in DOMAIN obj.primitives.arr |-> block_factory(obj.primitives.arr[i])]]

\* A command is a whole configuration or one variable: a record with a field
\* named for the variant.
Config(obj) == [config |-> obj]
VarMsg(kind, index, value) == [f \in {"index", kind} |-> IF f = "index" THEN index ELSE value]
Variant(msg) == CHOOSE f \in DOMAIN msg : f # "index"
Value(msg) == msg[Variant(msg)]

Apply(r, msg) ==
    IF Variant(msg) = "config" THEN update_cfg(r, Value(msg))
    ELSE [r EXCEPT !.st = SetVariable(r.st, Variant(msg), msg.index, Value(msg))]
----------------------------------------------------------------------------
\* Mutant: the column is set once a frame.
PlacedOnce(st, frame, x, y) ==
    LET framed == IF x = 0 /\ y = 0 THEN set_scalar(set_scalar(st, 0, F32(frame * ONE)), 1, 0) ELSE st
    IN  set_scalar(framed, 2, y * ONE)

\* The frame number is set once a frame, the column once a column: a block that
\* writes to one of them is felt until then.
Placed(st, frame, x, y) ==
    LET framed == IF x = 0 /\ y = 0 THEN set_scalar(st, 0, F32(frame * ONE)) ELSE st
        column == IF y = 0 THEN set_scalar(framed, 1, x * ONE) ELSE framed
    IN  set_scalar(column, 2, y * ONE)

\* The variables after the blocks of one pixel; get_color(0) needs a color.
PixelState(r, frame, x, y) ==
    LET st == FoldLeft(execute, Placed(r.st, frame, x, y), r.blocks)
    IN  IF InRange(st, "color", 0) THEN st ELSE Panicked(st)

\* The three bytes of a pixel, blue, red, green.
PutPixel(fb, x, y, c) ==
    LET idx == fb_idx(x, y)
    IN  [fb EXCEPT ![idx] = c.b, ![idx + 1] = c.r, ![idx + 2] = c.g]

BlankFrame == [i \in 0 .. FRAME_SIZE_BYTES - 1 |-> 0]

\* The pixels of a frame in drawing order: column by column.
Pixel(n) == <<n \div STRING_COUNT, n % STRING_COUNT>>
DrawingOrder == [i \in 1 .. PIXEL_COUNT |-> Pixel(i - 1)]

\* What is drawn is a pair: the variables afterwards and the frame buffer.
DrawPixel(r, fb, frame, x, y) ==
    LET st == PixelState(r, frame, x, y)
    IN  [st |-> st, fb |-> IF st.panicked THEN fb ELSE PutPixel(fb, x, y, Get(st, "color", 0))]

DrawNth(r, frame, drawn, at) ==
    IF drawn.st.panicked THEN drawn
    ELSE DrawPixel([r EXCEPT !.st = drawn.st], drawn.fb, frame, at[1], at[2])

DrawFrame(r, fb, frame) ==
    FoldLeft(LAMBDA drawn, at : DrawNth(r, frame, drawn, at), [st |-> r.st, fb |-> fb], DrawingOrder)
----------------------------------------------------------------------------
(* A picture is meant to be a function of frame, column and row.  That can  *)
(* be told from the blocks when none of them reads what is left over from   *)
(* the pixel before: each variable a block reads is written earlier in the  *)
(* list, or by no block at all, and the coordinates are left alone.         *)
Writes(b) == <<Signatures[b.type].output, b.o>>

\* color_interp in fact reads by position (see ColorInterp).
ReadsInFact(b) ==
    Reads(b) \cup (IF b.type # "color_interp" THEN {}
                   ELSE {<<"scalar", x>> : x \in Range(b.l.point)}
                        \cup {<<k, x>> : k \in {"scalar", "color"}, x \in 0 .. Len(b.l.point) - 1})

FeedsForward(blocks) ==
    \A n \in DOMAIN blocks :
        /\ Writes(blocks[n]) \notin {<<"scalar", c>> : c \in 0 .. 2}
        /\ \A m \in n .. Len(blocks) : Writes(blocks[m]) \in ReadsInFact(blocks[n]) =>
                                           \E k \in 1 .. n - 1 : Writes(blocks[k]) = Writes(blocks[m])

\* The color of a pixel drawn on its own: all coordinates set, nothing before it.
ColorAt(r, frame, x, y) ==
    LET at == set_scalar(set_scalar(set_scalar(r.st, 0, F32(frame * ONE)), 1, x * ONE), 2, y * ONE)
    IN  Get(FoldLeft(execute, at, r.blocks), "color", 0)

\* Every LED shows the pixel of the place where it hangs.
ShowsPicture(fb, r, frame) ==
    \A s \in 0 .. Strings - 1, n \in Positions :
        LedColor(fb, s, n) = ColorAt(r, frame, HangsAtColumn(n), HangsAtRow(s, n))
============================================================================
