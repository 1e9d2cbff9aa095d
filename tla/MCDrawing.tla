------------------------------- MODULE MCDrawing -------------------------------
(* Drawing for TLC, with the display and the positions of the program.      *)
EXTENDS Drawing

Position(x, y) == [nCX |-> x, nCY |-> y]

\* left, north, east, south, west, up, right, down
PositionsMC == <<Position(42, 10), Position(86, 10), Position(118, 23),
                 Position(118, 41), Position(86, 54), Position(42, 54),
                 Position(10, 41), Position(10, 23)>>

s_ButtonPosMC == [k \in 0..7 |-> PositionsMC[k + 1]]

\* All, and any two at most.
ButtonStatesMC == {0..7} \cup {{}} \cup {{j, k} : j, k \in 0..7}
=============================================================================
