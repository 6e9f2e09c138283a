----------------------------- MODULE MCCeiling -----------------------------
(* Requests and configurations for Ceiling, on a picture of two by two. *)
EXTENDS Ceiling

N(v) == [num |-> v * ONE]
Rgb(red, green, blue) == [obj |-> [r |-> N(red), g |-> N(green), b |-> N(blue)]]
Image == [b64 |-> [i \in 1 .. 12 |-> 10 * i]]
Mirrored == [b64 |-> [i \in 1 .. 12 |-> 10 * (13 - i)]]

Short == [b64 |-> [i \in 1 .. 11 |-> i]]

Vars == [obj |-> [float |-> [arr |-> [i \in 1 .. 6 |-> N(IF i = 5 THEN 2 ELSE IF i = 6 THEN 1 ELSE 0)]],
                  position |-> [arr |-> <<[obj |-> [x |-> N(0), y |-> N(1)]]>>],
                  color |-> [arr |-> <<Rgb(8, 5, 3)>>],
                  rcolor |-> [arr |-> <<>>],
                  data |-> [arr |-> <<Image>>]]]

\* The image, tiled, and shifted by scalar 3 and with the frames.
Shift == [obj |-> [type |-> [str |-> "scalar_macc"],
                   inputs |-> [obj |-> [m |-> [arr |-> <<N(5), N(5), N(5)>>], x |-> [arr |-> <<N(0), N(1), N(3)>>]]],
                   outputs |-> [obj |-> [o |-> N(6)]]]]

Lookup == [obj |-> [type |-> [str |-> "image_lookup"],
                    inputs |-> [obj |-> [width |-> N(4), height |-> N(4), x |-> N(6), y |-> N(2),
                                         mode |-> N(5), data |-> N(0)]],
                    outputs |-> [obj |-> [o |-> N(0)]]]]

Wider == [Vars EXCEPT !.obj.float.arr = Append(@, N(0))]

Scroll == [vars |-> Wider, primitives |-> [arr |-> <<Shift, Lookup>>]]
Static == [vars |-> Wider, primitives |-> [arr |-> <<>>]]
Incomplete == [vars |-> Wider]

Post(path, body) == [path |-> path, body |-> body]
SetVar(path, index, value) == Post(path, [obj |-> [index |-> N(index), value |-> value]])
SetWhite(temp, delay, percent) ==
    Post("set_white_led", [obj |-> [temp |-> N(temp), delay |-> N(delay), value |-> [num |-> percent]]])

ToStatic == Post("set_config", [obj |-> Static])
ToIncomplete == Post("set_config", [obj |-> Incomplete])
Shifted == SetVar("set_scalar", 3, N(1))
Moved == SetVar("set_scalar", 1, N(7))         \* a coordinate
NoSuchScalar == SetVar("set_scalar", 9, N(1))
Colored == SetVar("set_color", 0, Rgb(1, 2, 4))
OutOfRange == SetVar("set_position", 1, [obj |-> [x |-> N(0), y |-> N(0)]])
ShortImage == SetVar("set_data", 0, Short)
TooCold == SetWhite(0, 0, 100)

Refused == {Post("set_config", [text |-> 0]), Post("set_scalar", [binary |-> 0]),
            Post("set_scalar", [obj |-> [index |-> N(0)]]), Post("index.html", [text |-> 0])}

MCMisfits == {OutOfRange, ToIncomplete, ShortImage, TooCold}

Work(name, frames, posts) == [program |-> name, frame_cnt |-> frames, requests |-> posts]

MCWorkloads ==
    {Work("cloud_ceiling", 0, {ToStatic, Shifted, Colored} \cup Refused),
     Work("cloud_ceiling", 1, {Shifted, Moved, NoSuchScalar, OutOfRange, ToIncomplete}),
     Work("movie_ceiling", 0, {SetVar("set_data", 0, Image), SetVar("set_data", 0, Mirrored),
                               ShortImage, Colored}),
     Work("movie_ceiling", 0, {SetWhite(2450, 0, 100), SetWhite(3700, 1, 50),
                               SetWhite(5000, 0, -50), TooCold})}
============================================================================
