---------------------------- MODULE MCRenderLoop ----------------------------
(* Configurations for RenderLoop, after the ones in src/rust/configs. *)
EXTENDS RenderLoop

N(v) == [num |-> v]
Ns(seq) == [arr |-> [i \in DOMAIN seq |-> N(seq[i] * ONE)]]
Rgb(red, green, blue) == [obj |-> [r |-> N(red), g |-> N(green), b |-> N(blue)]]

Vars(floats, data) ==
    [obj |-> [float |-> [arr |-> [i \in DOMAIN floats |-> N(floats[i])]],
              position |-> [arr |-> <<[obj |-> [x |-> N(0), y |-> N(ONE)]]>>],
              color |-> [arr |-> <<Rgb(8 * ONE, 5 * ONE, 3 * ONE), Rgb(200 * ONE, 0, 0), Rgb(0, 200 * ONE, 0)>>],
              rcolor |-> [arr |-> <<Rgb(ONE \div 5, ONE \div 5, ONE \div 5)>>],
              data |-> [arr |-> data]]]

Block(type, inputs, o) ==
    [obj |-> [type |-> [str |-> type], inputs |-> [obj |-> inputs],
              outputs |-> [obj |-> [o |-> N(o * ONE)]]]]

Graded(type, inputs, o, gamma) ==
    [obj |-> [type |-> [str |-> type], inputs |-> [obj |-> inputs],
              params |-> [obj |-> [gamma |-> N(gamma * ONE), rc |-> N(ONE + ONE \div 2),
                                   gc |-> N(ONE - ONE \div 8), bc |-> N(ONE \div 2)]],
              outputs |-> [obj |-> [o |-> N(o * ONE)]]]]

Ix(k) == N(k * ONE)

Cfg(vs, blocks) == [vars |-> vs, primitives |-> [arr |-> blocks]]

Third == (2 * ONE) \div 3
Twelfth == ONE \div 12

\* Hue along x, y and time; brightness a triangle of another phase.
Floats == <<0, 0, 0, Twelfth, -3 * Twelfth, 2 * Twelfth, 0, ONE, 0, ONE, 0, ONE \div 2, Third \div 2>>

Macc(ms, xs, o) == Block("scalar_macc", [m |-> Ns(ms), x |-> Ns(xs)], o)
Hsv(h, s, v) == Block("scalar_hsv2rgb", [h |-> Ix(h), s |-> Ix(s), v |-> Ix(v)], 0)
Triangle == Block("scalar_triangle", [f |-> Ix(7), min |-> Ix(8), max |-> Ix(9), i |-> Ix(6)], 10)
Ramp == Block("scalar_ramp", [f |-> Ix(9), min |-> Ix(8), max |-> Ix(7), i |-> Ix(6)], 10)
Dithered(g) == Graded("dither", [i |-> Ix(0), x |-> Ix(1), y |-> Ix(2)], 0, g)
Corrected(g) == Graded("gamma", [i |-> Ix(0), x |-> Ix(1), y |-> Ix(2)], 0, g)

RainbowPulse == Cfg(Vars(Floats, <<>>),
    <<Macc(<<3, 4, 5>>, <<1, 0, 2>>, 6), Triangle, Hsv(6, 11, 10), Corrected(2)>>)

StillRainbow == Cfg(Vars(Floats, <<>>),
    <<Macc(<<3, 5>>, <<1, 2>>, 6), Hsv(6, 11, 9), Dithered(1)>>)

RampedHue == Cfg(Vars(Floats, <<>>),
    <<Macc(<<3, 4>>, <<1, 0>>, 6), Ramp,
      Block("scalar_add", [a |-> Ix(10), b |-> Ix(11)], 6), Hsv(10, 9, 9), Corrected(1)>>)

\* A 3 by 2 image that scrolls, tiled.
Scroll == Cfg(Vars(<<0, 0, 0, ONE, 3 * ONE, 2 * ONE, 0>>, <<[b64 |-> [i \in 1 .. 18 |-> 10 * i]]>>),
    <<Macc(<<3, 3>>, <<0, 1>>, 6),
      Block("image_lookup", [width |-> Ix(4), height |-> Ix(5), x |-> Ix(6), y |-> Ix(2),
                             mode |-> Ix(3), data |-> Ix(0)], 0)>>)

\* Once, not tiled, and what has no place in the image is black.
Single == Cfg(Vars(<<0, 0, 0, 0, 3 * ONE, 5 * ONE>>, <<[b64 |-> [i \in 1 .. 18 |-> 10 * i]]>>),
    <<Block("image_lookup", [width |-> Ix(4), height |-> Ix(5), x |-> Ix(1), y |-> Ix(2),
                             mode |-> Ix(3), data |-> Ix(0)], 0)>>)

\* Blocks are built, and then none of them writes a color.
Static == Cfg(Vars(<<0, 0, 0, 0>>, <<>>), <<Block("scalar_add", [a |-> Ix(0), b |-> Ix(1)], 3)>>)

Interpolated == Cfg(Vars(<<0, 0, 0, -ONE, 20 * ONE, 5 * ONE>>, <<>>),
    <<Block("color_interp", [color |-> Ns(<<1, 2>>), point |-> Ns(<<3, 4>>), val |-> Ix(5)], 0)>>)

\* As static.json: no data stanza, and the process ends.
Incomplete == [Static EXCEPT !.vars.obj = [k \in DOMAIN @ \ {"data"} |-> @[k]]]

MCConfigs == {Incomplete, RainbowPulse, StillRainbow, RampedHue, Scroll, Single, Static, Interpolated}
============================================================================
