----------------------------- MODULE RenderVars -----------------------------
(***************************************************************************)
(* The variables a picture is computed from: their types and arithmetic    *)
(* (var_types.rs), the lists that hold them (RenderState, render_block.rs) *)
(* and their initialisation from JSON.                                     *)
(*                                                                         *)
(* A scalar is a whole number of 1/ONE; the instances pick inputs whose    *)
(* products are whole, and where f32 would round matters F32 rounds.       *)
(*                                                                         *)
(* A JSON value is a record with one field that names its kind: num, str,  *)
(* b64 (a string that is valid base64: its bytes), arr, obj.               *)
(*                                                                         *)
(* A panic ends the task that runs the code, so nothing of the variables   *)
(* but the fact itself can be seen afterwards: the field panicked.         *)
(***************************************************************************)
EXTENDS Integers, Sequences, SequencesExt

CONSTANT ONE              \* the scalar 1.0

ASSUME OneAssumption == ONE \in Nat \ {0}

Clamp(v, lo, hi) == IF v < lo THEN lo ELSE IF v > hi THEN hi ELSE v
Abs(v) == IF v < 0 THEN -v ELSE v
Plus(a, b) == a + b
Times(a, b) == (a * b) \div ONE
Floor(v) == v \div ONE

\* f32::round, half away from zero.
Round(v) == IF v < 0 THEN -((ONE - 2 * v) \div (2 * ONE)) ELSE (2 * v + ONE) \div (2 * ONE)

----------------------------------------------------------------------------
(* Colors. *)
Channels == {"r", "g", "b"}
Byte == 0 .. 255

ColorAdd(c, d) == [k \in Channels |-> Clamp(c[k] + d[k], 0, 255)]
ColorScale(c, m) == [k \in Channels |-> Clamp(Round(m * c[k]), 0, 255)]

----------------------------------------------------------------------------
(* Reading JSON.  as_usize and as_u8 drop a fraction and refuse a sign. *)
Is(v, kind) == kind \in DOMAIN v
Has(obj, key) == key \in DOMAIN obj
HasNumbers(v, keys) == Is(v, "obj") /\ \A k \in keys : Has(v.obj, k) /\ Is(v.obj[k], "num")

IsUsize(v) == Is(v, "num") /\ v.num >= 0
AsUsize(v) == Floor(v.num)

\* A value as json::parse makes it, and what it is made of.
JsonShape(v) ==
    /\ Is(v, "num") => v.num \in Int
    /\ Is(v, "b64") => v.b64 \in Seq(Byte)
    /\ Is(v, "arr") => v.arr \in Seq(Range(v.arr))

Members(v) ==
    (IF Is(v, "arr") THEN Range(v.arr) ELSE {})
    \cup (IF Is(v, "obj") THEN {v.obj[k] : k \in DOMAIN v.obj} ELSE {})

\* Values are read at most six deep, as a configuration is.
Json1(v) == JsonShape(v)
Json2(v) == JsonShape(v) /\ \A m \in Members(v) : Json1(m)
Json3(v) == JsonShape(v) /\ \A m \in Members(v) : Json2(m)
Json4(v) == JsonShape(v) /\ \A m \in Members(v) : Json3(m)
Json5(v) == JsonShape(v) /\ \A m \in Members(v) : Json4(m)
Json(v) == JsonShape(v) /\ \A m \in Members(v) : Json5(m)

Kinds == {"scalar", "position", "color", "rcolor", "data"}
Stanza == [scalar |-> "float", position |-> "position", color |-> "color",
           rcolor |-> "rcolor", data |-> "data"]

\* from_obj of each type: what it takes without a panic, and what it makes.
PositionFits(v) == HasNumbers(v, {"x", "y"})
ColorFits(v) == HasNumbers(v, Channels) /\ \A k \in Channels : Floor(v.obj[k].num) \in Byte
RealColorFits(v) == HasNumbers(v, Channels)
DataFits(v) == Is(v, "b64")

Fits(kind, v) ==
    CASE kind = "scalar"   -> Is(v, "num")
      [] kind = "position" -> PositionFits(v)
      [] kind = "color"    -> ColorFits(v)
      [] kind = "rcolor"   -> RealColorFits(v)
      [] kind = "data"     -> DataFits(v)

FromJson(kind, v) ==
    CASE kind = "scalar"   -> v.num
      [] kind = "position" -> [k \in {"x", "y"} |-> v.obj[k].num]
      [] kind = "color"    -> [k \in Channels |-> Floor(v.obj[k].num)]
      [] kind = "rcolor"   -> [k \in Channels |-> v.obj[k].num]
      [] kind = "data"     -> v.b64
----------------------------------------------------------------------------
(* RenderState. *)
Values == [scalar |-> Int, position |-> [{"x", "y"} -> Int], color |-> [Channels -> Byte],
           rcolor |-> [Channels -> Int], data |-> Seq(Byte)]

Variables == [scalar : Seq(Values.scalar), position : Seq(Values.position), color : Seq(Values.color),
              rcolor : Seq(Values.rcolor), data : Seq(Values.data), panicked : BOOLEAN]

NoVariables == [scalar |-> <<>>, position |-> <<>>, color |-> <<>>, rcolor |-> <<>>,
                data |-> <<>>, panicked |-> FALSE]

Panicked(st) == [st EXCEPT !.panicked = TRUE]

\* Indices count from zero.
InRange(st, kind, i) == i < Len(st[kind])
Get(st, kind, i) == st[kind][i + 1]

\* Mutant: scalars do not check the index either.
set_scalar_unchecked(st, i, v) ==
    IF InRange(st, "scalar", i) THEN [st EXCEPT !.scalar[i + 1] = v] ELSE Panicked(st)

\* The five setters: only scalars check the index.
set_scalar(st, i, v) == IF InRange(st, "scalar", i) THEN [st EXCEPT !.scalar[i + 1] = v] ELSE st

SetVariable(st, kind, i, v) ==
    IF kind = "scalar" THEN set_scalar(st, i, v)
    ELSE IF InRange(st, kind, i) THEN [st EXCEPT ![kind][i + 1] = v]
    ELSE Panicked(st)

StanzasFit(vars) ==
    /\ Is(vars, "obj")
    /\ \A kind \in Kinds :
        /\ Has(vars.obj, Stanza[kind])
        /\ Is(vars.obj[Stanza[kind]], "arr")
        /\ \A v \in Range(vars.obj[Stanza[kind]].arr) : Fits(kind, v)

from_obj(st, vars) ==
    IF ~StanzasFit(vars) THEN Panicked(st)
    ELSE LET list(kind) == vars.obj[Stanza[kind]].arr
         IN  [k \in DOMAIN st |-> IF k = "panicked" THEN st.panicked
                                  ELSE [i \in DOMAIN list(k) |-> FromJson(k, list(k)[i])]]
============================================================================
