------------------------------ MODULE MCScreen ------------------------------
(* Instances of Screen for TLC: a screen of 3 by 2 cells, tiles of 2 by 2,  *)
(* and words of 32.                                                         *)
EXTENDS Screen

CONSTANTS m, a    \* main and a worker

OneWorker   == {a}
OneLayer    == {"bg"}
TwoColors   == {0, 1}
TwoPalettes == {7, 8}
TwoSizes    == {<<3, 2>>, <<2, 1>>}
Pixels      == {"pixels"}

Draw(mode, x, y, fx, fy, mx, my, len) ==
  [mode |-> mode, layer |-> "bg", color |-> 1, x |-> x, y |-> y, fx |-> fx, fy |-> fy,
   mx |-> mx, my |-> my, len |-> len]

\* Pixels on the screen, in its margins and beyond, fills of every corner, from a margin
\* and from beyond it, flipped rows and columns of sprites that cross the edge, and
\* sprites off every side.
Shapes ==
       {Draw("pixel", x, 1, FALSE, FALSE, 0, 0, 0) : x \in {-1, 2, 4}}
  \cup {Draw("fill", 1, 1, f, ~f, 0, 0, 0) : f \in BOOLEAN}
  \cup {Draw("fill", x, 1, FALSE, FALSE, 0, 0, 0) : x \in {-1, -5}}
  \cup {Draw("sprite", 1, 1, f, f, 1, 0, 1) : f \in BOOLEAN}
  \cup {Draw("sprite", 1, 1, f, ~f, 0, 1, 1) : f \in BOOLEAN}
  \cup {Draw("sprite", c[1], c[2], FALSE, FALSE, 0, 0, 0) :
          c \in {<<-1, -1>>, <<3, 0>>, <<0, -3>>, <<0, 2>>}}

Dot  == {Draw("pixel", 1, 0, FALSE, FALSE, 0, 0, 0)}
=============================================================================
