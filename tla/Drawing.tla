-------------------------------- MODULE Drawing --------------------------------
(***************************************************************************)
(* The picture: DrawOLEDButtons (kernel.cpp) clears the frame buffer of    *)
(* COLED, draws the edges of an octagon with DrawLine and a small or, for  *)
(* a pressed button, a large square at each corner, pixel by pixel.        *)
(*                                                                         *)
(* Coordinates are unsigned words; DrawLine adds a signed step to them and *)
(* ends only where it meets its end point exactly.                         *)
(***************************************************************************)
EXTENDS Integers

CONSTANTS
    DisplayWidth, DisplayHeight,
    WordSize,           \* values of an unsigned
    NButtons,
    s_ButtonPos,        \* nCX and nCY of each button
    ButtonStates,       \* the sets of pressed buttons that are drawn
    PressedHalf, ReleasedHalf       \* nHalf of DrawButton

Buttons == 0..(NButtons - 1)

ASSUME DisplayAssumption ==
    /\ DisplayWidth \in Nat \ {0} /\ DisplayHeight \in Nat \ {0}
    /\ WordSize \in Nat /\ DisplayWidth < WordSize /\ DisplayHeight < WordSize

ASSUME ButtonsAssumption ==
    /\ NButtons \in Nat \ {0}
    /\ ButtonStates \subseteq SUBSET Buttons
    /\ ReleasedHalf \in Nat /\ PressedHalf \in Nat
    /\ ReleasedHalf < PressedHalf

\* Every square lies on the display.
ASSUME PositionAssumption ==
    \A i \in Buttons :
        /\ s_ButtonPos[i].nCX \in PressedHalf..(DisplayWidth - 1 - PressedHalf)
        /\ s_ButtonPos[i].nCY \in PressedHalf..(DisplayHeight - 1 - PressedHalf)

VARIABLES
    bButtons,           \* the buttons that are pressed
    pc,
    i,                  \* of the loops in DrawOLEDButtons
    row,                \* y of the loop in DrawFillRect
    line,               \* the parameters and locals of DrawLine
    m_DisplayBuffer     \* the bits that are on: <<byte, bit>>

vars == <<bButtons, pc, i, row, line, m_DisplayBuffer>>

Word(n) == n % WordSize

Abs(n) == IF n < 0 THEN -n ELSE n

\* DrawLine up to its loop.
Line_noStepLeft(nX0, nY0, nX1, nY1) ==
    [nX0 |-> nX0, nY0 |-> nY0, nX1 |-> nX1, nY1 |-> nY1, x |-> nX0, y |-> nY0,
     dx |-> Abs(nX1 - nX0), dy |-> Abs(nY1 - nY0),
     sx |-> IF nX0 < nX1 THEN 1 ELSE 0,
     sy |-> IF nY0 < nY1 THEN 1 ELSE -1,
     err |-> Abs(nX1 - nX0) - Abs(nY1 - nY0)]

Line(nX0, nY0, nX1, nY1) ==
    [nX0 |-> nX0, nY0 |-> nY0, nX1 |-> nX1, nY1 |-> nY1, x |-> nX0, y |-> nY0,
     dx |-> Abs(nX1 - nX0), dy |-> Abs(nY1 - nY0),
     sx |-> IF nX0 < nX1 THEN 1 ELSE -1,
     sy |-> IF nY0 < nY1 THEN 1 ELSE -1,
     err |-> Abs(nX1 - nX0) - Abs(nY1 - nY0)]

\* The bit of a pixel in the buffer; a byte is eight rows of a column.
Bit(x, y) == <<(y \div 8) * DisplayWidth + x, y % 8>>

DrawPixel(x, y) ==
    IF x >= DisplayWidth \/ y >= DisplayHeight THEN m_DisplayBuffer
    ELSE m_DisplayBuffer \cup {Bit(x, y)}

\* Without e2: the second test sees the error the first has changed.
Advance_noE2(l) ==
    LET stepX == 2 * l.err > -l.dy
        err == l.err - (IF stepX THEN l.dy ELSE 0)
        stepY == 2 * err < l.dx
    IN [l EXCEPT !.x = IF stepX THEN Word(@ + l.sx) ELSE @,
                 !.y = IF stepY THEN Word(@ + l.sy) ELSE @,
                 !.err = err + (IF stepY THEN l.dx ELSE 0)]

\* One step towards the end point: along one axis or along both.
Advance(l) ==
    LET e2 == 2 * l.err
        stepX == e2 > -l.dy
        stepY == e2 < l.dx
    IN [l EXCEPT !.x = IF stepX THEN Word(@ + l.sx) ELSE @,
                 !.y = IF stepY THEN Word(@ + l.sy) ELSE @,
                 !.err = @ - (IF stepX THEN l.dy ELSE 0)
                           + (IF stepY THEN l.dx ELSE 0)]

AtEnd(l) == l.x = l.nX1 /\ l.y = l.nY1

-----------------------------------------------------------------------------
\* What an earlier picture left in the buffer is still there.
Init ==
    /\ bButtons \in ButtonStates
    /\ pc = "Clear" /\ i = 0 /\ row = 0
    /\ line = Line(0, 0, 0, 0)
    /\ m_DisplayBuffer = {}

Cleared_not == m_DisplayBuffer

Cleared == {}

Clear ==
    /\ pc = "Clear" /\ pc' = "edge"
    /\ m_DisplayBuffer' = Cleared
    /\ i' = 0
    /\ UNCHANGED <<bButtons, row, line>>

\* The octagon: DrawLine from each button to the next.
Edge ==
    /\ pc = "edge"
    /\ IF i < NButtons
       THEN LET j == (i + 1) % NButtons IN
            /\ line' = Line(s_ButtonPos[i].nCX, s_ButtonPos[i].nCY,
                            s_ButtonPos[j].nCX, s_ButtonPos[j].nCY)
            /\ pc' = "edgeLine" /\ UNCHANGED i
       ELSE pc' = "button" /\ i' = 0 /\ UNCHANGED line
    /\ UNCHANGED <<bButtons, row, m_DisplayBuffer>>

nHalf == IF i \in bButtons THEN PressedHalf ELSE ReleasedHalf

\* DrawButton, DrawFillRect: the rows of a square.
Button ==
    /\ pc = "button"
    /\ IF i < NButtons
       THEN pc' = "row" /\ row' = Word(s_ButtonPos[i].nCY - nHalf)
       ELSE pc' = "Show" /\ UNCHANGED row
    /\ UNCHANGED <<bButtons, i, line, m_DisplayBuffer>>

Row ==
    LET nX == Word(s_ButtonPos[i].nCX - nHalf)
        nY == Word(s_ButtonPos[i].nCY - nHalf)
        nSize == nHalf * 2 + 1
    IN /\ pc = "row"
       /\ IF row < Word(nY + nSize)
          THEN /\ line' = Line(nX, row, Word(nX + nSize - 1), row)
               /\ pc' = "rowLine" /\ UNCHANGED i
          ELSE pc' = "button" /\ i' = i + 1 /\ UNCHANGED line
       /\ UNCHANGED <<bButtons, row, m_DisplayBuffer>>

\* The loop in DrawLine.
DrawLine ==
    /\ pc \in {"edgeLine", "rowLine"}
    /\ m_DisplayBuffer' = DrawPixel(line.x, line.y)
    /\ IF AtEnd(line)
       THEN \/ pc = "edgeLine" /\ pc' = "edge" /\ i' = i + 1 /\ UNCHANGED row
            \/ pc = "rowLine" /\ pc' = "row" /\ row' = Word(row + 1) /\ UNCHANGED i
       ELSE UNCHANGED <<pc, i, row>>
    /\ line' = IF AtEnd(line) THEN line ELSE Advance(line)
    /\ UNCHANGED bButtons

\* The next call, for another state of the buttons.
Redraw ==
    /\ pc = "Show" /\ pc' = "Clear"
    /\ bButtons' \in ButtonStates
    /\ UNCHANGED <<i, row, line, m_DisplayBuffer>>

Draw == Clear \/ Edge \/ Button \/ Row \/ DrawLine

Next == Draw \/ Redraw

Spec == Init /\ [][Next]_vars /\ WF_vars(Draw)

-----------------------------------------------------------------------------
(* Properties.                                                             *)

Pixels == (0..(DisplayWidth - 1)) \X (0..(DisplayHeight - 1))

Larger(m, n) == IF m < n THEN n ELSE m

Between(n, m, k) == (m <= n /\ n <= k) \/ (k <= n /\ n <= m)

\* The pixel lies half a pixel or less, along one axis, from the line through
\* two positions, and between them.
Nearest(p, from, to) ==
    LET dx == to.nCX - from.nCX
        dy == to.nCY - from.nCY
    IN /\ Between(p[1], from.nCX, to.nCX) /\ Between(p[2], from.nCY, to.nCY)
       /\ 2 * Abs((p[1] - from.nCX) * dy - (p[2] - from.nCY) * dx)
              <= Larger(Abs(dx), Abs(dy))

Following(k) == s_ButtonPos[(k + 1) % NButtons]

Square(k) ==
    {p \in Pixels :
        LET half == IF k \in bButtons THEN PressedHalf ELSE ReleasedHalf
        IN /\ Abs(p[1] - s_ButtonPos[k].nCX) <= half
           /\ Abs(p[2] - s_ButtonPos[k].nCY) <= half}

Edges == {p \in Pixels : \E k \in Buttons : Nearest(p, s_ButtonPos[k], Following(k))}

Lit == {p \in Pixels : Bit(p[1], p[2]) \in m_DisplayBuffer}

\* The edge from a button to the following one is drawn at a column, a row.
AtColumn(k, x) ==
    \E v \in 0..(DisplayHeight - 1) :
        <<x, v>> \in Lit /\ Nearest(<<x, v>>, s_ButtonPos[k], Following(k))

AtRow(k, y) ==
    \E v \in 0..(DisplayWidth - 1) :
        <<v, y>> \in Lit /\ Nearest(<<v, y>>, s_ButtonPos[k], Following(k))

\* Along which axes the edge has the most pixels.
Flat(k) == Abs(Following(k).nCX - s_ButtonPos[k].nCX) >= Abs(Following(k).nCY - s_ButtonPos[k].nCY)
Steep(k) == Abs(Following(k).nCX - s_ButtonPos[k].nCX) <= Abs(Following(k).nCY - s_ButtonPos[k].nCY)

\* The edge has no gap.
EdgeDrawn(k) ==
    /\ Flat(k) => \A x \in 0..(DisplayWidth - 1) :
           Between(x, s_ButtonPos[k].nCX, Following(k).nCX) => AtColumn(k, x)
    /\ Steep(k) => \A y \in 0..(DisplayHeight - 1) :
           Between(y, s_ButtonPos[k].nCY, Following(k).nCY) => AtRow(k, y)

\* The buffer has no bit but those of pixels.
OnlyPixels == m_DisplayBuffer = {Bit(p[1], p[2]) : p \in Lit}

NothingElse == Lit \subseteq Edges \cup UNION {Square(k) : k \in Buttons}

\* What is sent shows the buttons: their squares, small or large, edges that
\* nowhere leave the ideal line by more than half a pixel, with no gap, and
\* nothing else (DrawOLEDButtons and all it calls).
PictureShowsButtons ==
    pc = "Show" =>
        /\ OnlyPixels
        /\ NothingElse
        /\ \A k \in Buttons : Square(k) \subseteq Lit
        /\ \A k \in Buttons : EdgeDrawn(k)

\* Every pixel of a line is a nearest one, between its ends, so that the line
\* cannot miss its end point (DrawLine).
PixelsAreNearest ==
    Nearest(<<line.x, line.y>>,
            [nCX |-> line.nX0, nCY |-> line.nY0],
            [nCX |-> line.nX1, nCY |-> line.nY1])

\* How far the line has come on each axis.
StepsX == Abs(line.x - line.nX0)
StepsY == Abs(line.y - line.nY0)

\* The error is the drift from the ideal line, exactly, and the drift stays
\* within half a pixel.
LineInv ==
    /\ \A n \in {line.nX0, line.nY0, line.nX1, line.nY1, line.x, line.y} :
           n \in 0..(WordSize - 1)
    /\ line.dx = Abs(line.nX1 - line.nX0) /\ line.dy = Abs(line.nY1 - line.nY0)
    /\ line.sx = (IF line.nX0 < line.nX1 THEN 1 ELSE -1)
    /\ line.sy = (IF line.nY0 < line.nY1 THEN 1 ELSE -1)
    /\ Between(line.x, line.nX0, line.nX1) /\ Between(line.y, line.nY0, line.nY1)
    /\ line.err = (StepsY + 1) * line.dx - (StepsX + 1) * line.dy
    /\ 2 * Abs(StepsY * line.dx - StepsX * line.dy) <= Larger(line.dx, line.dy)

\* The inductive invariant, with the bounds of the buffer.
IInv ==
    /\ pc \in {"Clear", "edge", "edgeLine", "button", "row", "rowLine", "Show"}
    /\ i \in 0..NButtons /\ (pc \in {"edgeLine", "row", "rowLine"} => i \in Buttons)
    /\ row \in 0..(WordSize - 1)
    /\ LineInv
    /\ m_DisplayBuffer \subseteq
           (0..(DisplayWidth * ((DisplayHeight + 7) \div 8) - 1)) \X (0..7)

\* The edge that DrawLine is drawing, up to where it has come.
EdgeBegun ==
    /\ line.nX0 = s_ButtonPos[i].nCX /\ line.nX1 = Following(i).nCX
    /\ line.nY0 = s_ButtonPos[i].nCY /\ line.nY1 = Following(i).nCY
    /\ Flat(i) => \A x \in 0..(DisplayWidth - 1) :
           Between(x, line.nX0, line.x) /\ x # line.x => AtColumn(i, x)
    /\ Steep(i) => \A y \in 0..(DisplayHeight - 1) :
           Between(y, line.nY0, line.y) /\ y # line.y => AtRow(i, y)

\* The rows of the square that DrawFillRect has drawn.
SquareBegun ==
    /\ row \in (s_ButtonPos[i].nCY - nHalf)..(s_ButtonPos[i].nCY + nHalf + 1)
    /\ {p \in Square(i) : p[2] < row} \subseteq Lit

\* The row that DrawLine is drawing.
RowBegun ==
    /\ row <= s_ButtonPos[i].nCY + nHalf
    /\ line.nX0 = s_ButtonPos[i].nCX - nHalf /\ line.nX1 = s_ButtonPos[i].nCX + nHalf
    /\ line.nY0 = row /\ line.nY1 = row
    /\ {p \in Square(i) : p[2] = row /\ p[1] < line.x} \subseteq Lit

\* What is complete.
EdgeIsDrawn(k) ==
    \/ pc \in {"edge", "edgeLine"} /\ k < i
    \/ pc \in {"button", "row", "rowLine", "Show"}

SquareIsDrawn(k) ==
    \/ pc \in {"button", "row", "rowLine"} /\ k < i
    \/ pc = "Show"

\* How far the picture is: the second inductive invariant, which needs the
\* first.
PictureInv ==
    /\ OnlyPixels
    /\ pc # "Clear" => NothingElse
    /\ \A k \in Buttons : EdgeIsDrawn(k) => EdgeDrawn(k)
    /\ \A k \in Buttons : SquareIsDrawn(k) => Square(k) \subseteq Lit
    /\ pc = "edgeLine" => EdgeBegun
    /\ pc \in {"row", "rowLine"} => SquareBegun
    /\ pc = "rowLine" => RowBegun

\* Every picture is finished (the loop in DrawLine has no other end).
DrawingEnds == pc = "Clear" ~> pc = "Show"
=============================================================================
