---------------------------- MODULE RenderBlocks ----------------------------
(***************************************************************************)
(* The render blocks of blocks/*.rs: how each is read from JSON            *)
(* (block_factory and the from_obj functions) and what execute does to the *)
(* variables.  A block is a record: its type, the indices of its inputs    *)
(* (i), lists of indices (l), fixed parameters (p) and output index (o).   *)
(***************************************************************************)
EXTENDS RenderVars

CONSTANT Mantissa         \* whole numbers below this are exact in an f32: 2^24

ASSUME MantissaAssumption == Mantissa \in Nat \ {0}

\* What a from_obj reads: the kind of variable each input indexes, the lists of
\* indices, the parameters, and the kind of the output o.
Signature(inputs, lists, params, output) ==
    [inputs |-> inputs, lists |-> lists, params |-> params, output |-> output]

Curved == {"gamma", "rc", "gc", "bc"}
Wave == [k \in {"f", "min", "max", "i"} |-> "scalar"]

ColorInterpSig == Signature([val |-> "scalar"], {"color", "point"}, {}, "color")
DitherSig == Signature([i |-> "rcolor", x |-> "scalar", y |-> "scalar"], {}, Curved, "color")
\* x and y are parsed and never used.
GammaSig == Signature([i |-> "rcolor", x |-> "unread", y |-> "unread"], {}, Curved, "color")
ImageLookupSig ==
    Signature([k \in {"width", "height", "x", "y", "mode", "data"} |->
                  IF k = "data" THEN "data" ELSE "scalar"], {}, {}, "color")
ScalarAddSig == Signature([a |-> "scalar", b |-> "scalar"], {}, {}, "scalar")
ScalarHsv2RgbSig == Signature([k \in {"h", "s", "v"} |-> "scalar"], {}, {}, "rcolor")
ScalarMaccSig == Signature(<<>>, {"m", "x"}, {}, "scalar")
ScalarRampSig == Signature(Wave, {}, {}, "scalar")
ScalarTriangleSig == Signature(Wave, {}, {}, "scalar")

Signatures ==
    [color_interp |-> ColorInterpSig, dither |-> DitherSig, gamma |-> GammaSig,
     image_lookup |-> ImageLookupSig, scalar_add |-> ScalarAddSig,
     scalar_hsv2rgb |-> ScalarHsv2RgbSig, scalar_macc |-> ScalarMaccSig,
     scalar_ramp |-> ScalarRampSig, scalar_triangle |-> ScalarTriangleSig]

Types == DOMAIN Signatures

IsBlock(b) ==
    /\ b.type \in Types
    /\ LET sig == Signatures[b.type]
       IN  b \in [type : {b.type}, i : [DOMAIN sig.inputs -> Nat], l : [sig.lists -> Seq(Nat)],
                  p : [sig.params -> Int], o : Nat]
    /\ b.type = "scalar_macc" => Len(b.l.m) = Len(b.l.x)

Section(obj, name) == IF Has(obj, name) /\ Is(obj[name], "obj") THEN obj[name].obj ELSE <<>>

\* What block_factory and the from_obj of the type take without a panic.
BlockFits(v) ==
    /\ Is(v, "obj")
    /\ Has(v.obj, "type") /\ Is(v.obj.type, "str") /\ v.obj.type.str \in Types
    /\ LET sig == Signatures[v.obj.type.str]
           in == Section(v.obj, "inputs")
           list(k) == in[k].arr
       IN  /\ \A k \in DOMAIN sig.inputs : Has(in, k) /\ IsUsize(in[k])
           /\ \A k \in sig.lists : Has(in, k) /\ Is(in[k], "arr")
                                  /\ \A x \in Range(list(k)) : IsUsize(x)
           /\ v.obj.type.str = "scalar_macc" => Len(list("m")) = Len(list("x"))
           /\ \A k \in sig.params : Has(Section(v.obj, "params"), k)
                                   /\ Is(v.obj.params.obj[k], "num")
           /\ Has(Section(v.obj, "outputs"), "o") /\ IsUsize(v.obj.outputs.obj.o)

block_factory(v) ==
    LET sig == Signatures[v.obj.type.str]
        in == v.obj.inputs.obj
    IN  [type |-> v.obj.type.str,
         i |-> [k \in DOMAIN sig.inputs |-> AsUsize(in[k])],
         l |-> [k \in sig.lists |-> [n \in DOMAIN in[k].arr |-> AsUsize(in[k].arr[n])]],
         p |-> [k \in sig.params |-> v.obj.params.obj[k].num],
         o |-> AsUsize(v.obj.outputs.obj.o)]
----------------------------------------------------------------------------
(* What a block reads. *)
In(st, b, k) == Get(st, "scalar", b.i[k])

Reads(b) ==
    {<<Signatures[b.type].inputs[k], b.i[k]>> :
        k \in {j \in DOMAIN b.i : Signatures[b.type].inputs[j] # "unread"}}
    \cup (IF b.type = "dither" THEN {<<"scalar", 0>>} ELSE {})
    \cup (IF b.type = "scalar_macc" THEN {<<"scalar", x>> : x \in Range(b.l.m) \cup Range(b.l.x)} ELSE {})

Readable(st, b) == \A r \in Reads(b) : InRange(st, r[1], r[2])
----------------------------------------------------------------------------
(* Scalar blocks. *)
ScalarAdd(st, b) == In(st, b, "a") + In(st, b, "b")

ScalarMacc(st, b) ==
    FoldLeft(Plus, 0, [n \in DOMAIN b.l.m |->
        Times(Get(st, "scalar", b.l.m[n]), Get(st, "scalar", b.l.x[n]))])

\* Mutant: the remainder keeps the sign of the phase.
FractionSigned(st, b) ==
    LET phase == Times(In(st, b, "i"), In(st, b, "f"))
    IN  IF phase < 0 THEN -((-phase) % ONE) ELSE phase % ONE

\* phase.rem_euclid(1.0)
Fraction(st, b) == Times(In(st, b, "i"), In(st, b, "f")) % ONE
Magnitude(st, b) == In(st, b, "max") - In(st, b, "min")

ScalarRamp(st, b) == Times(Fraction(st, b), Magnitude(st, b)) + In(st, b, "min")

ScalarTriangle(st, b) ==
    Times(2 * Abs(Fraction(st, b) - ONE \div 2), Magnitude(st, b)) + In(st, b, "min")
----------------------------------------------------------------------------
(* Color blocks. *)
\* Mutant: every sector rises.
SecondChannelRising(c, hp) == Times(c, hp % ONE)

\* The channel that rises or falls within the sector, above the smallest.
SecondChannel(c, hp) == Times(c, ONE - Abs((hp % (2 * ONE)) - ONE))

ScalarHsv2Rgb(st, b) ==
    LET v == Clamp(In(st, b, "v"), 0, ONE)
        c == Times(v, Clamp(In(st, b, "s"), 0, ONE))
        m == v - c
        hp == 6 * In(st, b, "h")
        x == SecondChannel(c, hp)
        Rgb(red, green, blue) == [r |-> red, g |-> green, b |-> blue]
    IN  CASE Floor(hp) % 6 = 0 -> Rgb(c + m, x + m, m)
          [] Floor(hp) % 6 = 1 -> Rgb(x + m, c + m, m)
          [] Floor(hp) % 6 = 2 -> Rgb(m, c + m, x + m)
          [] Floor(hp) % 6 = 3 -> Rgb(m, x + m, c + m)
          [] Floor(hp) % 6 = 4 -> Rgb(x + m, m, c + m)
          [] Floor(hp) % 6 = 5 -> Rgb(c + m, m, x + m)

\* A power with a whole exponent stands for the gamma curve.
Pow(v, g) == FoldLeft(Times, ONE, [n \in 1 .. Floor(g) |-> v])

Coefficient == [r |-> "rc", g |-> "gc", b |-> "bc"]

\* 255.0 * coefficient * rcolor.pow(gamma)
Curve(st, b, k) ==
    255 * Times(b.p[Coefficient[k]], Pow(Get(st, "rcolor", b.i.i)[k], b.p.gamma))

Quantised(st, b, offset) == [k \in Channels |-> Clamp(Floor(Curve(st, b, k) + offset), 0, 255)]

Gamma(st, b) == Quantised(st, b, 0)

dither_add == <<0, 4, 2, 6, 1, 5, 3, 7>>

\* A sum kept in an f32: exact below Mantissa, to even whole numbers up to twice
\* that, where the instances end; a tie goes to a multiple of four.
F32(v) ==
    LET n == Floor(v)
    IN  IF n < Mantissa THEN v
        ELSE ONE * (CASE n % 2 = 0 -> n [] n % 4 = 1 -> n - 1 [] OTHER -> n + 1)

\* Mutant: the phase the comment gives, which does not move with the frames.
DitherPhaseAsCommented(st, b) == Round(In(st, b, "x") + In(st, b, "y")) % Len(dither_add)

\* The cast to usize makes a negative sum zero.
DitherPhase(st, b) ==
    LET place == F32(In(st, b, "x") + F32(5 * In(st, b, "y")))
        sum == Round(F32(place + F32(3 * Get(st, "scalar", 0))))
    IN  (IF sum < 0 THEN 0 ELSE sum) % Len(dither_add)

Dither(st, b) == Quantised(st, b, (ONE * dither_add[DitherPhase(st, b) + 1]) \div Len(dither_add))
----------------------------------------------------------------------------
(* Interpolation between colors.  The lists are searched through their      *)
(* indices, but what is found is then used as an index itself.              *)
Segments(st, b) ==
    {j \in DOMAIN b.l.point :
        /\ \A k \in 1 .. j : InRange(st, "scalar", b.l.point[k])
        /\ In(st, b, "val") <= Get(st, "scalar", b.l.point[j])
        /\ \A k \in 1 .. j - 1 : In(st, b, "val") > Get(st, "scalar", b.l.point[k])}

\* The first point at or above the value, less one; none below the first
\* point, beyond the last, or where the variables end.
Interpolates(st, b) ==
    \E j \in Segments(st, b) : j > 1 /\ InRange(st, "scalar", j - 1) /\ InRange(st, "color", j - 1)

Infinity == 1024 * ONE
Black == [k \in Channels |-> 0]

Ratio(a, d) == CASE d > 0 -> (a * ONE) \div d
                 [] d < 0 -> ((-a) * ONE) \div (-d)
                 [] OTHER -> IF a > 0 THEN Infinity ELSE -Infinity

ColorInterp(st, b) ==
    LET i == (CHOOSE j \in Segments(st, b) : TRUE) - 2
        from == Get(st, "scalar", i)
        to == Get(st, "scalar", i + 1)
        alpha == Ratio(In(st, b, "val") - from, to - from)
    IN  IF In(st, b, "val") = from /\ to = from THEN Black     \* 0/0
        ELSE ColorAdd(ColorScale(Get(st, "color", i), ONE - alpha),
                      ColorScale(Get(st, "color", i + 1), alpha))
----------------------------------------------------------------------------
(* Image lookup.  A mode other than 1 is Single. *)
Mode(st, b) == LET m == In(st, b, "mode") IN IF m < 0 THEN -((-m) \div ONE) ELSE Floor(m)
ModeFits(st, b) == In(st, b, "mode") > -ONE /\ Mode(st, b) \in Byte

Extent(st, b, k) == Clamp(Round(In(st, b, k)), 1, 1024)

\* The column or row of the image, or -1 for none.
Cell(st, b, at, extent) ==
    IF Mode(st, b) = 1 THEN Round(at % (extent * ONE))
    ELSE IF at >= 0 /\ at < extent * ONE THEN Round(at) ELSE -1

ImageLookup(st, b) ==
    LET width == Extent(st, b, "width")
        i == Cell(st, b, In(st, b, "x"), width)
        j == Cell(st, b, (22 * In(st, b, "y")) \div 10, Extent(st, b, "height"))
        data == Get(st, "data", b.i.data)
        idx == 3 * (i + j * width)
    IN  IF i >= 0 /\ j >= 0 /\ idx + 2 < Len(data)
        THEN [r |-> data[idx + 1], g |-> data[idx + 2], b |-> data[idx + 3]]
        ELSE Black
----------------------------------------------------------------------------
Computes(st, b) ==
    /\ Readable(st, b)
    /\ b.type = "color_interp" => Interpolates(st, b)
    /\ b.type = "image_lookup" => ModeFits(st, b)

Computed(st, b) ==
    CASE b.type = "color_interp"    -> ColorInterp(st, b)
      [] b.type = "dither"          -> Dither(st, b)
      [] b.type = "gamma"           -> Gamma(st, b)
      [] b.type = "image_lookup"    -> ImageLookup(st, b)
      [] b.type = "scalar_add"      -> ScalarAdd(st, b)
      [] b.type = "scalar_hsv2rgb"  -> ScalarHsv2Rgb(st, b)
      [] b.type = "scalar_macc"     -> ScalarMacc(st, b)
      [] b.type = "scalar_ramp"     -> ScalarRamp(st, b)
      [] b.type = "scalar_triangle" -> ScalarTriangle(st, b)

execute(st, b) ==
    IF st.panicked \/ ~Computes(st, b) THEN Panicked(st)
    ELSE SetVariable(st, Signatures[b.type].output, b.o, Computed(st, b))
============================================================================
