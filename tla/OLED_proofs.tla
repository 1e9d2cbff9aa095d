------------------------------ MODULE OLED_proofs ------------------------------
(***************************************************************************)
(* Proofs about the OLED driver.  About Drawing, for every display, every  *)
(* set of positions and every line between unsigned coordinates: DrawLine  *)
(* only draws nearest pixels, every round of its loop comes closer to the  *)
(* end point, DrawPixel only writes into the buffer, what is sent shows    *)
(* the pressed buttons and nothing else, and every step leaves less to do  *)
(* of the picture.  About Display, for every set of button states, every   *)
(* number of parts of a frame and every number of refusals: an accepted    *)
(* frame is one drawing, and the display comes to rest on the pressed      *)
(* buttons.                                                                *)
(***************************************************************************)
EXTENDS Drawing, Display, TLAPS

-----------------------------------------------------------------------------
(* Facts about % that the solvers need as lemmas.                          *)

\* Quotient and remainder.
LEMMA DivMod ==
  ASSUME NEW m \in Nat \ {0}, NEW x \in Int
  PROVE  /\ x = (m * (x \div m)) + (x % m)
         /\ x % m \in 0..m - 1
         /\ x \div m \in Int
  BY SMT

\* A number written as a multiple of m and a rest has this rest.
LEMMA RemainderOf ==
  ASSUME NEW m \in Nat \ {0}, NEW q \in Int, NEW r \in 0..m - 1
  PROVE  (m * q + r) % m = r
  BY SMT

\* The remainder of a division is unique.
LEMMA RemainderUnique ==
  ASSUME NEW m \in Nat \ {0}, NEW p \in Int, NEW q \in Int,
         NEW r \in 0..m - 1, NEW s \in 0..m - 1,
         m * p + r = m * q + s
  PROVE  r = s
  BY SMT

\* Adding one may be done before or after taking the remainder.
LEMMA RemainderSuccessor ==
  ASSUME NEW m \in Nat \ {0}, NEW a \in Nat
  PROVE  (a + 1) % m = ((a % m) + 1) % m
  <1> DEFINE r == a % m
             q == a \div m
  <1>1. a = m * q + r /\ r \in 0..m - 1 /\ q \in Int
    BY DivMod
  <1> HIDE DEF r, q
  <1>2. CASE r + 1 < m
    <2>1. (m * q + (r + 1)) % m = r + 1 /\ (m * 0 + (r + 1)) % m = r + 1
      BY <1>1, <1>2, RemainderOf
    <2>2. m * q + (r + 1) = a + 1 /\ m * 0 + (r + 1) = r + 1
      BY <1>1
    <2> QED
      BY <2>1, <2>2 DEF r
  <1>3. CASE r + 1 = m
    <2>1. (m * (q + 1) + 0) % m = 0 /\ (m * 1 + 0) % m = 0
      BY <1>1, <1>3, RemainderOf
    <2>2. m * (q + 1) + 0 = a + 1
      BY <1>1, <1>3
    <2>3. m * 1 + 0 = r + 1
      BY <1>3
    <2> QED
      BY <2>1, <2>2, <2>3 DEF r
  <1> QED
    BY <1>1, <1>2, <1>3

-----------------------------------------------------------------------------
(* Drawing.                                                                *)

\* The assumption on the display, under one name.
LEMMA DisplayFacts ==
  /\ DisplayWidth \in Nat \ {0} /\ DisplayHeight \in Nat \ {0}
  /\ WordSize \in Nat /\ DisplayWidth < WordSize /\ DisplayHeight < WordSize
  BY DisplayAssumption

\* A multiple of something not larger.
LEMMA ProductMono ==
  ASSUME NEW m \in Nat, NEW n \in Nat, NEW k \in Nat, m <= n
  PROVE  m * k <= n * k
  OBVIOUS

\* One more of something.
LEMMA ProductStep ==
  ASSUME NEW m \in Int, NEW k \in Int
  PROVE  m * k \in Int /\ (m + 1) * k = m * k + k
  OBVIOUS

\* Signs of a product.
LEMMA ProductSigns ==
  ASSUME NEW m \in Int, NEW k \in Int
  PROVE  (-m) * k = -(m * k) /\ m * (-k) = -(m * k) /\ (-m) * (-k) = m * k
  OBVIOUS

\* The error and the drift, a steps along x and b along y.
OnLine(dx, dy, a, b, err) ==
  /\ err = (b + 1) * dx - (a + 1) * dy
  /\ 2 * Abs(b * dx - a * dy) <= Larger(dx, dy)

\* The two tests of the loop.
TestX(dy, err) == 2 * err > -dy
TestY(dx, err) == 2 * err < dx

\* The loop of DrawLine does not step past the end on either axis, it does
\* step on one, and the drift stays small.
LEMMA LoopStep ==
  ASSUME NEW dx \in Nat, NEW dy \in Nat, NEW a \in 0..dx, NEW b \in 0..dy,
         NEW err, OnLine(dx, dy, a, b, err), a # dx \/ b # dy,
         NEW a2, a2 = (IF TestX(dy, err) THEN a + 1 ELSE a),
         NEW b2, b2 = (IF TestY(dx, err) THEN b + 1 ELSE b)
  PROVE  /\ a2 \in 0..dx /\ b2 \in 0..dy
         /\ a2 # a \/ b2 # b
         /\ OnLine(dx, dy, a2, b2,
                   err - (IF TestX(dy, err) THEN dy ELSE 0)
                       + (IF TestY(dx, err) THEN dx ELSE 0))
  <1> USE DEF OnLine, TestX, TestY
  <1>1. PICK P \in Int : P = a * dy
    BY ProductStep
  <1>2. PICK Q \in Int : Q = b * dx
    BY ProductStep
  <1>3. (a + 1) * dy = P + dy /\ (b + 1) * dx = Q + dx
    BY <1>1, <1>2, ProductStep
  <1>4. (a + 1 + 1) * dy = P + dy + dy /\ (b + 1 + 1) * dx = Q + dx + dx
    BY <1>3, ProductStep, a + 1 \in Int, b + 1 \in Int
  <1>5. err = Q + dx - P - dy
    BY <1>3
  <1>6. ASSUME a = dx PROVE ~(2 * err > -dy)
    <2>1. b + 1 <= dy /\ b + 1 \in Nat
      BY <1>6
    <2>2. (b + 1) * dx <= dy * dx
      BY <2>1, ProductMono
    <2>3. dy * dx = P
      BY <1>1, <1>6
    <2>4. Q + dx <= P
      BY <1>3, <2>2, <2>3
    <2> QED
      BY <1>5, <2>1, <2>4
  <1>7. ASSUME b = dy PROVE ~(2 * err < dx)
    <2>1. a + 1 <= dx /\ a + 1 \in Nat
      BY <1>7
    <2>2. (a + 1) * dy <= dx * dy
      BY <2>1, ProductMono
    <2>3. dx * dy = Q
      BY <1>2, <1>7
    <2>4. P + dy <= Q
      BY <1>3, <2>2, <2>3
    <2> QED
      BY <1>5, <2>1, <2>4
  <1>8. a2 \in 0..dx /\ b2 \in 0..dy
    BY <1>6, <1>7
  <1>9. a2 # a \/ b2 # b
    BY <1>5
  <1>10. PICK D \in Int : D = Q - P
    OBVIOUS
  <1>11. 2 * D <= Larger(dx, dy) /\ -2 * D <= Larger(dx, dy)
    BY <1>1, <1>2, <1>10 DEF Abs, Larger
  <1>12. (b2 * dx) - (a2 * dy) = D + (IF 2 * err < dx THEN dx ELSE 0)
                                  - (IF 2 * err > -dy THEN dy ELSE 0)
    BY <1>1, <1>2, <1>3, <1>10
  <1>13. 2 * Abs(b2 * dx - a2 * dy) <= Larger(dx, dy)
    <2>1. err = D + dx - dy
      BY <1>5, <1>10
    <2> QED
      BY <1>11, <1>12, <2>1 DEF Abs, Larger
  <1>14. err - (IF 2 * err > -dy THEN dy ELSE 0) + (IF 2 * err < dx THEN dx ELSE 0)
                = (b2 + 1) * dx - (a2 + 1) * dy
    BY <1>3, <1>4, <1>5
  <1> QED
    BY <1>8, <1>9, <1>13, <1>14

\* Arithmetic on unsigned stays in the word.
LEMMA WordFacts ==
  /\ WordSize \in Nat \ {0}
  /\ \A n \in Int : Word(n) \in 0..(WordSize - 1)
  /\ \A n \in 0..(WordSize - 1) : Word(n) = n
  <1>1. WordSize \in Nat \ {0}
    BY DisplayFacts
  <1>2. ASSUME NEW n \in Int PROVE Word(n) \in 0..(WordSize - 1)
    BY <1>1, DivMod DEF Word
  <1>3. ASSUME NEW n \in 0..(WordSize - 1) PROVE Word(n) = n
    <2>1. (WordSize * 0 + n) % WordSize = n
      BY <1>1, RemainderOf
    <2> QED
      BY <1>1, <2>1 DEF Word
  <1> QED
    BY <1>1, <1>2, <1>3

\* What DrawLine starts with.
LEMMA NewLine ==
  ASSUME NEW nX0 \in 0..(WordSize - 1), NEW nY0 \in 0..(WordSize - 1),
         NEW nX1 \in 0..(WordSize - 1), NEW nY1 \in 0..(WordSize - 1),
         line' = Line(nX0, nY0, nX1, nY1)
  PROVE  LineInv'
  <1>0. Abs(nX1 - nX0) \in Nat /\ Abs(nY1 - nY0) \in Nat
    BY DisplayFacts DEF Abs
  <1>1. PICK dx \in Nat : dx = Abs(nX1 - nX0)
    BY <1>0
  <1>2. PICK dy \in Nat : dy = Abs(nY1 - nY0)
    BY <1>0
  <1>3. StepsX' = 0 /\ StepsY' = 0
    BY DEF StepsX, StepsY, Line, Abs
  <1>4. line'.dx = dx /\ line'.dy = dy /\ line'.err = dx - dy
    BY <1>1, <1>2, Zenon DEF Line
  <1>5. 2 * Abs(0 * dx - 0 * dy) <= Larger(dx, dy)
    BY DEF Abs, Larger
  <1>6. dx - dy = (0 + 1) * dx - (0 + 1) * dy
    OBVIOUS
  <1>7. (line.err = (StepsY + 1) * line.dx - (StepsX + 1) * line.dy)'
    BY <1>3, <1>4, <1>6, Zenon
  <1>8. (2 * Abs(StepsY * line.dx - StepsX * line.dy) <= Larger(line.dx, line.dy))'
    BY <1>3, <1>4, <1>5, Zenon DEF Abs, Larger
  <1>9. /\ line'.nX0 = nX0 /\ line'.nY0 = nY0 /\ line'.nX1 = nX1 /\ line'.nY1 = nY1
        /\ line'.x = nX0 /\ line'.y = nY0
        /\ line'.sx = (IF nX0 < nX1 THEN 1 ELSE -1)
        /\ line'.sy = (IF nY0 < nY1 THEN 1 ELSE -1)
    BY DEF Line
  <1> QED
    BY <1>1, <1>2, <1>4, <1>7, <1>8, <1>9 DEF LineInv, Between, Abs

\* One axis: a coordinate between its ends, the steps it has made, and a step
\* of it that is not the last.
LEMMA AxisStep ==
  ASSUME NEW from \in 0..(WordSize - 1), NEW to \in 0..(WordSize - 1),
         NEW at \in 0..(WordSize - 1), Between(at, from, to),
         NEW s, s = (IF from < to THEN 1 ELSE -1)
  PROVE  /\ Abs(at - from) \in 0..Abs(to - from)
         /\ (at = to) <=> (Abs(at - from) = Abs(to - from))
         /\ Abs(to - at) = Abs(to - from) - Abs(at - from)
         /\ at # to => /\ Word(at + s) = at + s
                       /\ Word(at + s) \in 0..(WordSize - 1)
                       /\ Between(Word(at + s), from, to)
                       /\ Abs(Word(at + s) - from) = Abs(at - from) + 1
  <1>1. WordSize \in Nat
    BY DisplayFacts
  <1>2. at # to => at + s \in 0..(WordSize - 1)
    BY <1>1 DEF Between
  <1>3. at # to => Word(at + s) = at + s
    BY <1>2, WordFacts
  <1>4. /\ Abs(at - from) \in 0..Abs(to - from)
        /\ (at = to) <=> (Abs(at - from) = Abs(to - from))
        /\ Abs(to - at) = Abs(to - from) - Abs(at - from)
    BY <1>1 DEF Between, Abs
  <1>5. at # to => /\ Between(at + s, from, to)
                  /\ Abs(at + s - from) = Abs(at - from) + 1
    BY <1>1 DEF Between, Abs
  <1> QED
    BY <1>2, <1>3, <1>4, <1>5

\* A round of the loop in DrawLine keeps the line on the ideal one and comes
\* closer to its end.
LEMMA LoopRound ==
  ASSUME LineInv, ~AtEnd(line), line' = Advance(line)
  PROVE  /\ LineInv'
         /\ Abs(line'.nX1 - line'.x) + Abs(line'.nY1 - line'.y)
                < Abs(line.nX1 - line.x) + Abs(line.nY1 - line.y)
  <1>1. PICK dx \in Nat, dy \in Nat, a \in Nat, b \in Nat :
            /\ dx = line.dx /\ dy = line.dy /\ a = StepsX /\ b = StepsY
            /\ a \in 0..dx /\ b \in 0..dy
    <2>1. StepsX \in 0..line.dx /\ StepsY \in 0..line.dy
      BY AxisStep, SMTT(60) DEF LineInv, StepsX, StepsY
    <2>2. line.dx \in Nat /\ line.dy \in Nat
      BY DEF LineInv, Abs
    <2> QED
      BY <2>1, <2>2
  <1>2. PICK err \in Int : err = line.err /\ err = (b + 1) * dx - (a + 1) * dy
    <2>1. (b + 1) * dx \in Int /\ (a + 1) * dy \in Int
      BY <1>1, ProductStep, a + 1 \in Int, b + 1 \in Int
    <2> QED
      BY <1>1, <2>1 DEF LineInv
  <1>3. OnLine(dx, dy, a, b, err)
    BY <1>1, <1>2, Zenon DEF LineInv, OnLine
  <1>4. /\ (line.x = line.nX1) <=> (a = dx)
        /\ (line.y = line.nY1) <=> (b = dy)
    BY <1>1, AxisStep, SMTT(60) DEF LineInv, StepsX, StepsY
  <1>5. a # dx \/ b # dy
    BY <1>4 DEF AtEnd
  <1> DEFINE stepX == TestX(dy, err)
             stepY == TestY(dx, err)
  <1>17. PICK a2, b2 : /\ a2 = (IF stepX THEN a + 1 ELSE a)
                       /\ b2 = (IF stepY THEN b + 1 ELSE b)
    OBVIOUS
  <1>6. /\ a2 \in 0..dx /\ b2 \in 0..dy
        /\ a2 # a \/ b2 # b
        /\ OnLine(dx, dy, a2, b2,
                  err - (IF stepX THEN dy ELSE 0) + (IF stepY THEN dx ELSE 0))
    <2>1. a \in 0..dx /\ b \in 0..dy
      BY <1>1
    <2> QED
      BY <1>3, <1>5, <1>17, <2>1, LoopStep, SMTT(120)
  <1>7. /\ \A f \in {"nX0", "nY0", "nX1", "nY1", "dx", "dy", "sx", "sy"} :
               line'[f] = line[f]
        /\ line'.x = IF stepX THEN Word(line.x + line.sx) ELSE line.x
        /\ line'.y = IF stepY THEN Word(line.y + line.sy) ELSE line.y
        /\ line'.err = err - (IF stepX THEN dy ELSE 0) + (IF stepY THEN dx ELSE 0)
    BY <1>1, <1>2 DEF Advance, TestX, TestY
  <1>8. stepX => line.x # line.nX1
    BY <1>1, <1>4, <1>6, <1>17
  <1>9. stepY => line.y # line.nY1
    BY <1>1, <1>4, <1>6, <1>17
  <1>10. /\ line'.x \in 0..(WordSize - 1) /\ Between(line'.x, line.nX0, line.nX1)
         /\ Abs(line'.x - line.nX0) = a2
    <2>1. CASE stepX
      <3>1. line.x # line.nX1 /\ line'.x = Word(line.x + line.sx) /\ a2 = a + 1
        BY <1>7, <1>8, <1>17, <2>1
      <3> QED
        <4>1. /\ Word(line.x + line.sx) \in 0..(WordSize - 1)
              /\ Between(Word(line.x + line.sx), line.nX0, line.nX1)
              /\ Abs(Word(line.x + line.sx) - line.nX0) = StepsX + 1
          <5>1. /\ line.nX0 \in 0..(WordSize - 1) /\ line.nX1 \in 0..(WordSize - 1)
                /\ line.x \in 0..(WordSize - 1)
                /\ Between(line.x, line.nX0, line.nX1)
                /\ line.sx = (IF line.nX0 < line.nX1 THEN 1 ELSE -1)
            BY DEF LineInv
          <5> QED
            BY <3>1, <5>1, AxisStep DEF StepsX
        <4> QED
          BY <1>1, <3>1, <4>1
    <2>2. CASE ~stepX
      <3>1. line'.x = line.x /\ a2 = a
        BY <1>7, <1>17, <2>2
      <3> QED
        BY <1>1, <3>1 DEF LineInv, StepsX
    <2> QED
      BY <2>1, <2>2
  <1>11. /\ line'.y \in 0..(WordSize - 1) /\ Between(line'.y, line.nY0, line.nY1)
         /\ Abs(line'.y - line.nY0) = b2
    <2>1. CASE stepY
      <3>1. line.y # line.nY1 /\ line'.y = Word(line.y + line.sy) /\ b2 = b + 1
        BY <1>7, <1>9, <1>17, <2>1
      <3> QED
        <4>1. /\ Word(line.y + line.sy) \in 0..(WordSize - 1)
              /\ Between(Word(line.y + line.sy), line.nY0, line.nY1)
              /\ Abs(Word(line.y + line.sy) - line.nY0) = StepsY + 1
          <5>1. /\ line.nY0 \in 0..(WordSize - 1) /\ line.nY1 \in 0..(WordSize - 1)
                /\ line.y \in 0..(WordSize - 1)
                /\ Between(line.y, line.nY0, line.nY1)
                /\ line.sy = (IF line.nY0 < line.nY1 THEN 1 ELSE -1)
            BY DEF LineInv
          <5> QED
            BY <3>1, <5>1, AxisStep DEF StepsY
        <4> QED
          BY <1>1, <3>1, <4>1
    <2>2. CASE ~stepY
      <3>1. line'.y = line.y /\ b2 = b
        BY <1>7, <1>17, <2>2
      <3> QED
        BY <1>1, <3>1 DEF LineInv, StepsY
    <2> QED
      BY <2>1, <2>2
  <1>12. StepsX' = a2 /\ StepsY' = b2
    BY <1>7, <1>10, <1>11 DEF StepsX, StepsY
  <1> HIDE DEF stepX, stepY
  <1>13. LineInv'
    <2>1. (line.err = (StepsY + 1) * line.dx - (StepsX + 1) * line.dy)'
      <3>1. line'.err = (b2 + 1) * dx - (a2 + 1) * dy
        BY <1>6, <1>7 DEF OnLine
      <3> QED
        BY <1>1, <1>7, <1>12, <3>1, Zenon
    <2>2. (2 * Abs(StepsY * line.dx - StepsX * line.dy) <= Larger(line.dx, line.dy))'
      BY <1>1, <1>6, <1>7, <1>12, Zenon DEF OnLine
    <2> QED
      BY <1>7, <1>10, <1>11, <2>1, <2>2 DEF LineInv, Abs, Between
  <1>14. /\ Abs(line.nX1 - line.x) = dx - a /\ Abs(line.nY1 - line.y) = dy - b
         /\ Abs(line'.nX1 - line'.x) = dx - a2 /\ Abs(line'.nY1 - line'.y) = dy - b2
    <2>1. /\ Abs(line.nX1 - line.x) = dx - a /\ Abs(line.nY1 - line.y) = dy - b
      BY <1>1, AxisStep, SMTT(60) DEF LineInv, StepsX, StepsY
    <2>2. /\ Abs(line'.nX1 - line'.x) = dx - a2
          /\ Abs(line'.nY1 - line'.y) = dy - b2
      BY <1>1, <1>7, <1>10, <1>11, AxisStep, SMTT(60) DEF LineInv
    <2> QED
      BY <2>1, <2>2
  <1>15. a2 \in Nat /\ b2 \in Nat /\ a2 >= a /\ b2 >= b /\ (a2 # a \/ b2 # b)
    BY <1>1, <1>6, <1>17
  <1>16. Abs(line'.nX1 - line'.x) + Abs(line'.nY1 - line'.y)
            < Abs(line.nX1 - line.x) + Abs(line.nY1 - line.y)
    <2>1. (dx - a2) + (dy - b2) < (dx - a) + (dy - b)
      BY <1>1, <1>15
    <2> QED
      BY <1>14, <2>1, Zenon
  <1> QED
    BY <1>13, <1>16

\* DrawPixel writes into the buffer or not at all.
LEMMA PixelInBuffer ==
  ASSUME NEW x \in Nat, NEW y \in Nat, x < DisplayWidth, y < DisplayHeight
  PROVE  Bit(x, y) \in
           (0..(DisplayWidth * ((DisplayHeight + 7) \div 8) - 1)) \X (0..7)
  <1>1. PICK w \in Nat, h \in Nat : w = DisplayWidth /\ h = DisplayHeight
    BY DisplayFacts
  <1>2. PICK p \in Nat, q \in Nat : p = y \div 8 /\ q = (h + 7) \div 8 /\ p + 1 <= q
    BY <1>1
  <1>3. (p + 1) * w <= q * w
    BY <1>2, ProductMono
  <1>4. p * w \in Nat /\ (p + 1) * w = p * w + w /\ q * w = w * q
    BY ProductStep
  <1>5. p * w + x \in 0..(w * q - 1)
    BY <1>1, <1>3, <1>4
  <1>6. y % 8 \in 0..7
    OBVIOUS
  <1> QED
    BY <1>1, <1>2, <1>5, <1>6, Zenon DEF Bit

\* Nothing is drawn at the start.
LEMMA InitIInv == Init => IInv
  <1> SUFFICES ASSUME Init PROVE IInv
    OBVIOUS
  <1>1. LineInv
    BY DisplayFacts DEF Init, Line, LineInv, StepsX, StepsY, Abs, Between, Larger
  <1> QED
    BY <1>1, DisplayFacts, ButtonsAssumption DEF Init, IInv

\* The coordinates of the calls in DrawOLEDButtons are words.
LEMMA Positions ==
  ASSUME NEW k \in Buttons
  PROVE  /\ s_ButtonPos[k].nCX \in 0..(WordSize - 1)
         /\ s_ButtonPos[k].nCY \in 0..(WordSize - 1)
         /\ nHalf \in Nat
  BY DisplayFacts, ButtonsAssumption, PositionAssumption DEF nHalf

\* Every step preserves the invariant.
LEMMA StepIInv == IInv /\ [Next]_vars => IInv'
  <1> SUFFICES ASSUME IInv, [Next]_vars PROVE IInv'
    OBVIOUS
  <1> USE DEF IInv
  <1>1. UNCHANGED line => LineInv'
    BY DEF LineInv, StepsX, StepsY
  <1>2. NButtons \in Nat \ {0}
    BY ButtonsAssumption
  <1>3. CASE Clear
    BY <1>1, <1>2, <1>3 DEF Clear, Cleared
  <1>4. CASE Edge
    <2>1. CASE i < NButtons
      <3>1. i \in Buttons /\ (i + 1) % NButtons \in Buttons
        BY <1>2, <2>1, DivMod DEF Buttons
      <3>2. LineInv'
        BY <1>4, <2>1, <3>1, Positions, NewLine DEF Edge
      <3> QED
        BY <1>4, <2>1, <3>1, <3>2 DEF Edge
    <2>2. CASE ~(i < NButtons)
      BY <1>1, <1>2, <1>4, <2>2 DEF Edge
    <2> QED
      BY <2>1, <2>2
  <1>5. CASE Button
    <2>1. CASE i < NButtons
      <3>1. i \in Buttons
        BY <1>2, <2>1 DEF Buttons
      <3>2. s_ButtonPos[i].nCY - nHalf \in Int
        BY <3>1, Positions, DisplayFacts
      <3> QED
        BY <1>1, <1>5, <2>1, <3>1, <3>2, WordFacts DEF Button
    <2>2. CASE ~(i < NButtons)
      BY <1>1, <1>5, <2>2 DEF Button
    <2> QED
      BY <2>1, <2>2
  <1>6. CASE Row
    <2>1. i \in Buttons /\ i + 1 \in 0..NButtons
      BY <1>2, <1>6 DEF Row, Buttons
    <2> DEFINE nX == Word(s_ButtonPos[i].nCX - nHalf)
               nSize == nHalf * 2 + 1
    <2>2. nX \in 0..(WordSize - 1) /\ Word(nX + nSize - 1) \in 0..(WordSize - 1)
      <3>1. s_ButtonPos[i].nCX - nHalf \in Int /\ nSize \in Int
        BY <2>1, Positions, DisplayFacts
      <3>2. nX \in 0..(WordSize - 1)
        BY <3>1, WordFacts
      <3>3. nX + nSize - 1 \in Int
        BY <3>1, <3>2, DisplayFacts
      <3> QED
        BY <3>2, <3>3, WordFacts
    <2>3. \/ line' = Line(nX, row, Word(nX + nSize - 1), row) /\ pc' = "rowLine" /\ i' = i
          \/ line' = line /\ pc' = "button" /\ i' = i + 1
      BY <1>6 DEF Row
    <2>4. LineInv'
      BY <1>1, <2>2, <2>3, NewLine
    <2> QED
      BY <1>6, <2>1, <2>3, <2>4 DEF Row
  <1>7. CASE DrawLine
    <2>1. LineInv'
      BY <1>1, <1>7, LoopRound DEF DrawLine
    <2>2. m_DisplayBuffer' \subseteq
             (0..(DisplayWidth * ((DisplayHeight + 7) \div 8) - 1)) \X (0..7)
      <3>1. line.x \in Nat /\ line.y \in Nat
        BY DisplayFacts DEF LineInv
      <3>2. CASE line.x >= DisplayWidth \/ line.y >= DisplayHeight
        BY <1>7, <3>2 DEF DrawLine, DrawPixel
      <3>3. CASE ~(line.x >= DisplayWidth \/ line.y >= DisplayHeight)
        <4>1. line.x < DisplayWidth /\ line.y < DisplayHeight
          BY <3>1, <3>3, DisplayFacts
        <4>2. m_DisplayBuffer' = m_DisplayBuffer \cup {Bit(line.x, line.y)}
          BY <1>7, <3>3 DEF DrawLine, DrawPixel
        <4> QED
          BY <3>1, <4>1, <4>2, PixelInBuffer
      <3> QED
        BY <3>2, <3>3
    <2>3. i' \in 0..NButtons /\ (pc' \in {"edgeLine", "row", "rowLine"} => i' \in Buttons)
      BY <1>2, <1>7 DEF DrawLine, Buttons
    <2>4. row' \in 0..(WordSize - 1)
      <3>1. row + 1 \in Int
        BY DisplayFacts
      <3> QED
        BY <1>7, <3>1, WordFacts DEF DrawLine
    <2> QED
      BY <1>7, <2>1, <2>2, <2>3, <2>4 DEF DrawLine
  <1>8. CASE Redraw
    BY <1>1, <1>8 DEF Redraw
  <1>9. CASE UNCHANGED vars
    BY <1>1, <1>9 DEF vars
  <1> QED
    BY <1>3, <1>4, <1>5, <1>6, <1>7, <1>8, <1>9 DEF Next, Draw

\* The inductive invariant holds: DrawPixel never writes outside of
\* m_DisplayBuffer, whatever the positions.
THEOREM IInvHolds == Spec => []IInv
  BY InitIInv, StepIInv, PTL DEF Spec

\* Both distances along an axis go the same way.
LEMMA AxisSigns ==
  ASSUME NEW at \in Int, NEW from \in Int, NEW to \in Int, Between(at, from, to)
  PROVE  \/ at - from = Abs(at - from) /\ to - from = Abs(to - from)
         \/ at - from = -Abs(at - from) /\ to - from = -Abs(to - from)
  BY DEF Between, Abs

\* A line whose error is right is on the ideal line.
LEMMA LineIsNearest == LineInv => PixelsAreNearest
  <1> SUFFICES ASSUME LineInv PROVE PixelsAreNearest
    OBVIOUS
  <1>0. /\ line.x \in Int /\ line.nX0 \in Int /\ line.nX1 \in Int
        /\ line.y \in Int /\ line.nY0 \in Int /\ line.nY1 \in Int
    BY DisplayFacts DEF LineInv
  <1>9. line.dx \in Nat /\ line.dy \in Nat /\ StepsX \in Nat /\ StepsY \in Nat
    BY <1>0 DEF LineInv, StepsX, StepsY, Abs
  <1>1. PICK dx \in Nat, dy \in Nat, a \in Nat, b \in Nat :
            dx = line.dx /\ dy = line.dy /\ a = StepsX /\ b = StepsY
    BY <1>9
  <1>2. PICK X \in Int, Y \in Int, DX \in Int, DY \in Int :
            /\ X = line.x - line.nX0 /\ Y = line.y - line.nY0
            /\ DX = line.nX1 - line.nX0 /\ DY = line.nY1 - line.nY0
    BY DisplayFacts DEF LineInv
  <1>3. /\ \/ X = a /\ DX = dx
           \/ X = -a /\ DX = -dx
        /\ \/ Y = b /\ DY = dy
           \/ Y = -b /\ DY = -dy
    <2>1. \/ X = a /\ DX = dx
          \/ X = -a /\ DX = -dx
      <3>1. /\ Between(line.x, line.nX0, line.nX1)
            /\ a = Abs(line.x - line.nX0) /\ dx = Abs(line.nX1 - line.nX0)
        BY <1>1 DEF LineInv, StepsX
      <3> QED
        BY <1>0, <1>2, <3>1, AxisSigns
    <2>2. \/ Y = b /\ DY = dy
          \/ Y = -b /\ DY = -dy
      <3>1. /\ Between(line.y, line.nY0, line.nY1)
            /\ b = Abs(line.y - line.nY0) /\ dy = Abs(line.nY1 - line.nY0)
        BY <1>1 DEF LineInv, StepsY
      <3> QED
        BY <1>0, <1>2, <3>1, AxisSigns
    <2> QED
      BY <2>1, <2>2
  <1>4. PICK P \in Int, Q \in Int : P = a * dy /\ Q = b * dx
    BY ProductStep
  <1>5. \/ X * DY = P /\ Y * DX = Q
        \/ X * DY = -P /\ Y * DX = -Q
    <2>1. /\ (-a) * dy = -P /\ a * (-dy) = -P /\ (-a) * (-dy) = P
          /\ (-b) * dx = -Q /\ b * (-dx) = -Q /\ (-b) * (-dx) = Q
      BY <1>4, ProductSigns
    <2> QED
      BY <1>3, <1>4, <2>1
  <1>6. 2 * Abs(Q - P) <= Larger(dx, dy)
    BY <1>1, <1>4 DEF LineInv
  <1>7. Abs(DX) = dx /\ Abs(DY) = dy
    BY <1>3 DEF Abs
  <1>8. 2 * Abs(X * DY - Y * DX) <= Larger(Abs(DX), Abs(DY))
    BY <1>5, <1>6, <1>7 DEF Abs
  <1> QED
    BY <1>2, <1>8, Zenon DEF PixelsAreNearest, Nearest, LineInv

\* DrawLine draws only nearest pixels between its ends, for every line between
\* unsigned coordinates.
THEOREM PixelsAreNearestHolds == Spec => []PixelsAreNearest
  <1>1. IInv => PixelsAreNearest
    BY LineIsNearest DEF IInv
  <1> QED
    BY <1>1, IInvHolds, PTL

\* What is left to go of a line.
ToGo == Abs(line.nX1 - line.x) + Abs(line.nY1 - line.y)

\* Every round of DrawLine's loop but the last comes closer to the end point:
\* no line is drawn for ever.
THEOREM EveryRoundGoesOn ==
  Spec => [][DrawLine /\ ~AtEnd(line) => ToGo' < ToGo]_vars
  <1>1. IInv /\ [Next]_vars => [DrawLine /\ ~AtEnd(line) => ToGo' < ToGo]_vars
    BY LoopRound DEF IInv, DrawLine, ToGo
  <1> QED
    BY <1>1, IInvHolds, PTL DEF Spec

-----------------------------------------------------------------------------
(* The picture.                                                            *)

\* Different pixels have different bits.
LEMMA BitInjective ==
  ASSUME NEW x \in 0..(DisplayWidth - 1), NEW y \in Nat,
         NEW u \in 0..(DisplayWidth - 1), NEW v \in Nat,
         Bit(x, y) = Bit(u, v)
  PROVE  x = u /\ y = v
  <1>1. PICK w \in Nat : w = DisplayWidth
    BY DisplayFacts
  <1>2. PICK p \in Nat, q \in Nat : p = y \div 8 /\ q = v \div 8
    OBVIOUS
  <1>3. p * w + x = q * w + u /\ y % 8 = v % 8
    BY <1>1, <1>2, Zenon DEF Bit
  <1>4. p * w \in Int /\ q * w \in Int /\ (p + 1) * w = p * w + w /\ (q + 1) * w = q * w + w
    BY ProductStep
  <1>5. ~(p < q)
    <2>1. p < q => (p + 1) * w <= q * w
      BY ProductMono, p + 1 \in Nat
    <2> QED
      BY <1>1, <1>3, <1>4, <2>1
  <1>6. ~(q < p)
    <2>1. q < p => (q + 1) * w <= p * w
      BY ProductMono, q + 1 \in Nat
    <2> QED
      BY <1>1, <1>3, <1>4, <2>1
  <1>7. p = q
    BY <1>5, <1>6
  <1>8. x = u
    BY <1>1, <1>3, <1>4, <1>7
  <1> QED
    BY <1>2, <1>3, <1>7, <1>8

\* DrawPixel lights one pixel of the display and no other.
LEMMA PixelLit ==
  ASSUME NEW x \in 0..(DisplayWidth - 1), NEW y \in 0..(DisplayHeight - 1),
         m_DisplayBuffer' = m_DisplayBuffer \cup {Bit(x, y)}
  PROVE  /\ Lit' = Lit \cup {<<x, y>>}
         /\ OnlyPixels => OnlyPixels'
  <1>1. <<x, y>> \in Pixels
    BY DEF Pixels
  <1>2. ASSUME NEW p \in Pixels PROVE p \in Lit' <=> (p \in Lit \/ p = <<x, y>>)
    <2>1. PICK u \in 0..(DisplayWidth - 1), v \in 0..(DisplayHeight - 1) : p = <<u, v>>
      BY DEF Pixels
    <2>2. Bit(u, v) = Bit(x, y) => u = x /\ v = y
      BY BitInjective, DisplayFacts, u \in 0..(DisplayWidth - 1), v \in Nat, y \in Nat
    <2> QED
      BY <2>1, <2>2 DEF Lit
  <1>3. Lit' = Lit \cup {<<x, y>>}
    BY <1>1, <1>2 DEF Lit
  <1>4. ASSUME OnlyPixels PROVE OnlyPixels'
    <2>1. m_DisplayBuffer = {Bit(p[1], p[2]) : p \in Lit}
      BY <1>4 DEF OnlyPixels
    <2>2. PICK pt : pt = <<x, y>> /\ pt[1] = x /\ pt[2] = y
      <3>1. <<x, y>>[1] = x /\ <<x, y>>[2] = y
        OBVIOUS
      <3> QED
        BY <3>1, Zenon
    <2>3. {Bit(p[1], p[2]) : p \in Lit \cup {pt}}
             = {Bit(p[1], p[2]) : p \in Lit} \cup {Bit(pt[1], pt[2])}
      BY Zenon
    <2> QED
      BY <1>3, <2>1, <2>2, <2>3, Zenon DEF OnlyPixels
  <1> QED
    BY <1>3, <1>4

\* What is drawn of an edge stays drawn while more is drawn.
LEMMA EdgeStays ==
  ASSUME Lit \subseteq Lit', NEW k
  PROVE  /\ \A x : AtColumn(k, x) => AtColumn(k, x)'
         /\ \A y : AtRow(k, y) => AtRow(k, y)'
         /\ EdgeDrawn(k) => EdgeDrawn(k)'
  <1>1. ASSUME NEW x, AtColumn(k, x) PROVE AtColumn(k, x)'
    BY <1>1 DEF AtColumn
  <1>2. ASSUME NEW y, AtRow(k, y) PROVE AtRow(k, y)'
    BY <1>2 DEF AtRow
  <1> QED
    BY <1>1, <1>2 DEF EdgeDrawn

\* A step that neither draws nor changes the buttons.
LEMMA SamePicture ==
  ASSUME UNCHANGED <<m_DisplayBuffer, bButtons>>
  PROVE  /\ Lit' = Lit
         /\ OnlyPixels => OnlyPixels'
         /\ NothingElse => NothingElse'
         /\ \A k : EdgeDrawn(k) => EdgeDrawn(k)'
         /\ \A k : Square(k)' = Square(k)
  <1>1. Lit' = Lit
    BY DEF Lit
  <1>2. \A k : Square(k)' = Square(k)
    BY DEF Square
  <1> QED
    BY <1>1, <1>2, EdgeStays DEF OnlyPixels, NothingElse

\* Where a square lies, and that its coordinates are computed without wrapping.
LEMMA SquareFacts ==
  ASSUME i \in Buttons
  PROVE  /\ nHalf \in Nat
         /\ s_ButtonPos[i].nCX \in Int /\ s_ButtonPos[i].nCY \in Int
         /\ 0 <= s_ButtonPos[i].nCX - nHalf
         /\ s_ButtonPos[i].nCX + nHalf <= DisplayWidth - 1
         /\ 0 <= s_ButtonPos[i].nCY - nHalf
         /\ s_ButtonPos[i].nCY + nHalf <= DisplayHeight - 1
         /\ Word(s_ButtonPos[i].nCX - nHalf) = s_ButtonPos[i].nCX - nHalf
         /\ Word(s_ButtonPos[i].nCY - nHalf) = s_ButtonPos[i].nCY - nHalf
  <1>1. nHalf \in Nat /\ nHalf <= PressedHalf /\ PressedHalf \in Nat
    BY ButtonsAssumption DEF nHalf
  <1>2. /\ s_ButtonPos[i].nCX \in PressedHalf..(DisplayWidth - 1 - PressedHalf)
        /\ s_ButtonPos[i].nCY \in PressedHalf..(DisplayHeight - 1 - PressedHalf)
    BY PositionAssumption
  <1>3. PICK h \in Nat, cx \in Int, cy \in Int :
            /\ h = nHalf /\ cx = s_ButtonPos[i].nCX /\ cy = s_ButtonPos[i].nCY
            /\ 0 <= cx - h /\ cx + h <= DisplayWidth - 1
            /\ 0 <= cy - h /\ cy + h <= DisplayHeight - 1
    BY <1>1, <1>2, DisplayFacts
  <1>4. cx - h \in 0..(WordSize - 1) /\ cy - h \in 0..(WordSize - 1)
    BY <1>3, DisplayFacts
  <1>5. Word(cx - h) = cx - h /\ Word(cy - h) = cy - h
    BY <1>4, WordFacts
  <1> QED
    BY <1>3, <1>5, Zenon

\* The ends of the row, and the end of the rows, do not wrap either.
LEMMA RowFacts ==
  ASSUME i \in Buttons
  PROVE  /\ Word(Word(s_ButtonPos[i].nCX - nHalf) + (nHalf * 2 + 1) - 1)
               = s_ButtonPos[i].nCX + nHalf
         /\ Word(Word(s_ButtonPos[i].nCY - nHalf) + (nHalf * 2 + 1))
               = s_ButtonPos[i].nCY + nHalf + 1
  <1>1. PICK h \in Nat, cx \in Int, cy \in Int :
            /\ h = nHalf /\ cx = s_ButtonPos[i].nCX /\ cy = s_ButtonPos[i].nCY
            /\ 0 <= cx - h /\ cx + h <= DisplayWidth - 1
            /\ 0 <= cy - h /\ cy + h <= DisplayHeight - 1
            /\ Word(cx - h) = cx - h /\ Word(cy - h) = cy - h
    BY SquareFacts
  <1>2. cx - h + (h * 2 + 1) - 1 = cx + h /\ cy - h + (h * 2 + 1) = cy + h + 1
    OBVIOUS
  <1>3. cx + h \in 0..(WordSize - 1) /\ cy + h + 1 \in 0..(WordSize - 1)
    BY <1>1, DisplayFacts
  <1>4. Word(cx + h) = cx + h /\ Word(cy + h + 1) = cy + h + 1
    BY <1>3, WordFacts
  <1> QED
    BY <1>1, <1>2, <1>4, Zenon

\* The loop steps on the longer axis in every round, on both when they are
\* equal.
LEMMA LongerAxis ==
  ASSUME NEW dx \in Nat, NEW dy \in Nat, NEW a \in 0..dx, NEW b \in 0..dy,
         NEW err, OnLine(dx, dy, a, b, err), a # dx \/ b # dy
  PROVE  /\ dx >= dy => TestX(dy, err)
         /\ dx <= dy => TestY(dx, err)
  <1>1. PICK P \in Int, Q \in Int : P = a * dy /\ Q = b * dx
    BY ProductStep
  <1>2. (a + 1) * dy = P + dy /\ (b + 1) * dx = Q + dx
    BY <1>1, ProductStep
  <1>3. err = Q - P + dx - dy
    BY <1>2 DEF OnLine
  <1>4. 2 * (Q - P) <= Larger(dx, dy) /\ -2 * (Q - P) <= Larger(dx, dy)
    BY <1>1 DEF OnLine, Abs, Larger
  <1>5. dx > dy => TestX(dy, err)
    BY <1>3, <1>4 DEF TestX, Larger
  <1>6. dx < dy => TestY(dx, err)
    BY <1>3, <1>4 DEF TestY, Larger
  <1>7. ASSUME dx = dy PROVE TestX(dy, err) /\ TestY(dx, err)
    <2>1. dx > 0
      BY <1>7
    <2>2. Q - P = (b - a) * dx
      BY <1>1, <1>7
    <2>3. ~(b - a >= 1)
      <3>1. b - a >= 1 => 1 * dx <= (b - a) * dx
        BY ProductMono, b - a \in Int
      <3> QED
        BY <1>4, <1>7, <2>1, <2>2, <3>1 DEF Larger
    <2>4. ~(a - b >= 1)
      <3>1. a - b >= 1 => 1 * dx <= (a - b) * dx
        BY ProductMono, a - b \in Int
      <3>2. P - Q = (a - b) * dx
        BY <1>1, <1>7
      <3> QED
        BY <1>4, <1>7, <2>1, <3>1, <3>2 DEF Larger
    <2>5. Q - P = 0
      BY <2>2, <2>3, <2>4
    <2> QED
      BY <1>3, <1>7, <2>1, <2>5 DEF TestX, TestY
  <1> QED
    BY <1>5, <1>6, <1>7

\* DrawLine's loop goes on by one on the longer axis of the line.
LEMMA LoopAdvances ==
  ASSUME LineInv, ~AtEnd(line), line' = Advance(line)
  PROVE  /\ LineInv'
         /\ \A f \in {"nX0", "nY0", "nX1", "nY1"} : line'[f] = line[f]
         /\ line.dx >= line.dy => line'.x = line.x + line.sx
         /\ line.dx <= line.dy => line'.y = line.y + line.sy
  <1>1. PICK dx \in Nat, dy \in Nat, a \in Nat, b \in Nat :
            /\ dx = line.dx /\ dy = line.dy /\ a = StepsX /\ b = StepsY
            /\ a \in 0..dx /\ b \in 0..dy
    <2>1. StepsX \in 0..line.dx /\ StepsY \in 0..line.dy
      BY AxisStep DEF LineInv, StepsX, StepsY
    <2>2. line.dx \in Nat /\ line.dy \in Nat
      BY DEF LineInv, Abs
    <2> QED
      BY <2>1, <2>2
  <1>2. PICK err : err = line.err /\ OnLine(dx, dy, a, b, err)
    BY <1>1, Zenon DEF LineInv, OnLine
  <1>3. /\ (line.x = line.nX1) <=> (a = dx)
        /\ (line.y = line.nY1) <=> (b = dy)
    BY <1>1, AxisStep, SMTT(60) DEF LineInv, StepsX, StepsY
  <1>4. a # dx \/ b # dy
    BY <1>3 DEF AtEnd
  <1>5. PICK a2, b2 : /\ a2 = (IF TestX(dy, err) THEN a + 1 ELSE a)
                      /\ b2 = (IF TestY(dx, err) THEN b + 1 ELSE b)
    OBVIOUS
  <1>6. a2 \in 0..dx /\ b2 \in 0..dy
    <2>1. a \in 0..dx /\ b \in 0..dy
      BY <1>1
    <2> QED
      BY <1>2, <1>4, <1>5, <2>1, LoopStep, SMTT(120)
  <1>7. /\ dx >= dy => TestX(dy, err)
        /\ dx <= dy => TestY(dx, err)
    <2>1. a \in 0..dx /\ b \in 0..dy
      BY <1>1
    <2> QED
      BY <1>2, <1>4, <2>1, LongerAxis
  <1>8. /\ \A f \in {"nX0", "nY0", "nX1", "nY1"} : line'[f] = line[f]
        /\ TestX(dy, err) => line'.x = Word(line.x + line.sx)
        /\ TestY(dx, err) => line'.y = Word(line.y + line.sy)
    BY <1>1, <1>2 DEF Advance, TestX, TestY
  <1>9. ASSUME TestX(dy, err) PROVE line'.x = line.x + line.sx
    <2>1. line.x # line.nX1
      BY <1>1, <1>3, <1>5, <1>6, <1>9
    <2>2. /\ line.nX0 \in 0..(WordSize - 1) /\ line.nX1 \in 0..(WordSize - 1)
          /\ line.x \in 0..(WordSize - 1)
          /\ Between(line.x, line.nX0, line.nX1)
          /\ line.sx = (IF line.nX0 < line.nX1 THEN 1 ELSE -1)
      BY DEF LineInv
    <2> QED
      BY <1>8, <1>9, <2>1, <2>2, AxisStep, SMTT(60)
  <1>10. ASSUME TestY(dx, err) PROVE line'.y = line.y + line.sy
    <2>1. line.y # line.nY1
      BY <1>1, <1>3, <1>5, <1>6, <1>10
    <2> QED
      BY <1>8, <1>10, <2>1, AxisStep DEF LineInv
  <1> QED
    BY <1>1, <1>7, <1>8, <1>9, <1>10, LoopRound

\* What is new of an axis when the line goes on by one, and what is left when
\* it is at its end.
LEMMA Passed ==
  ASSUME NEW from \in Int, NEW to \in Int, NEW at \in Int, NEW n \in Int,
         Between(at, from, to)
  PROVE  /\ \A s \in Int : /\ s = (IF from < to THEN 1 ELSE -1)
                           /\ Between(n, from, at + s) /\ n # at + s
                           /\ Between(at + s, from, to)
                           => n = at \/ (Between(n, from, at) /\ n # at)
         /\ at = to /\ Between(n, from, to)
              => n = at \/ (Between(n, from, at) /\ n # at)
  BY DEF Between

\* The pixel that is drawn of an edge is on the display and a nearest one.
LEMMA EdgePixel ==
  ASSUME LineInv, EdgeBegun, i \in Buttons
  PROVE  /\ line.x \in 0..(DisplayWidth - 1) /\ line.y \in 0..(DisplayHeight - 1)
         /\ Nearest(<<line.x, line.y>>, s_ButtonPos[i], Following(i))
         /\ Flat(i) <=> line.dx >= line.dy
         /\ Steep(i) <=> line.dx <= line.dy
  <1>1. PICK j \in Buttons : j = (i + 1) % NButtons
    BY ButtonsAssumption, DivMod DEF Buttons
  <1>2. /\ \A k \in Buttons : /\ s_ButtonPos[k].nCX \in 0..(DisplayWidth - 1)
                              /\ s_ButtonPos[k].nCY \in 0..(DisplayHeight - 1)
    BY ButtonsAssumption, PositionAssumption, DisplayFacts
  <1>3. /\ line.nX0 \in 0..(DisplayWidth - 1) /\ line.nX1 \in 0..(DisplayWidth - 1)
        /\ line.nY0 \in 0..(DisplayHeight - 1) /\ line.nY1 \in 0..(DisplayHeight - 1)
    BY <1>1, <1>2 DEF EdgeBegun, Following
  <1>4. /\ line.x \in 0..(DisplayWidth - 1) /\ line.y \in 0..(DisplayHeight - 1)
    BY <1>3, DisplayFacts DEF LineInv, Between
  <1>5. Nearest(<<line.x, line.y>>, s_ButtonPos[i], Following(i))
    BY LineIsNearest, Zenon DEF PixelsAreNearest, Nearest, EdgeBegun
  <1>6. /\ line.dx = Abs(Following(i).nCX - s_ButtonPos[i].nCX)
        /\ line.dy = Abs(Following(i).nCY - s_ButtonPos[i].nCY)
    BY DEF LineInv, EdgeBegun
  <1> QED
    BY <1>4, <1>5, <1>6 DEF Flat, Steep

\* DrawLine draws its pixel of an edge.
LEMMA EdgeStep ==
  ASSUME IInv, PictureInv, DrawLine, pc = "edgeLine"
  PROVE  PictureInv'
  <1>1. i \in Buttons /\ LineInv /\ EdgeBegun /\ OnlyPixels /\ NothingElse
    BY DEF IInv, PictureInv
  <1>2. /\ line.x \in 0..(DisplayWidth - 1) /\ line.y \in 0..(DisplayHeight - 1)
        /\ Nearest(<<line.x, line.y>>, s_ButtonPos[i], Following(i))
        /\ Flat(i) <=> line.dx >= line.dy
        /\ Steep(i) <=> line.dx <= line.dy
    BY <1>1, EdgePixel
  <1>3. m_DisplayBuffer' = m_DisplayBuffer \cup {Bit(line.x, line.y)}
    BY <1>2, DisplayFacts DEF DrawLine, DrawPixel
  <1>4. Lit' = Lit \cup {<<line.x, line.y>>} /\ OnlyPixels'
    BY <1>1, <1>2, <1>3, PixelLit
  <1>5. bButtons' = bButtons /\ \A k : Square(k)' = Square(k)
    BY DEF DrawLine, Square
  <1>6. NothingElse'
    <2>1. <<line.x, line.y>> \in Edges
      BY <1>1, <1>2 DEF Edges, Pixels
    <2> QED
      BY <1>1, <1>4, <1>5, <2>1 DEF NothingElse
  <1>7. \A k : /\ \A x : AtColumn(k, x) => AtColumn(k, x)'
               /\ \A y : AtRow(k, y) => AtRow(k, y)'
               /\ EdgeDrawn(k) => EdgeDrawn(k)'
    BY <1>4, EdgeStays
  <1>13. PICK j \in Buttons : j = i
    BY <1>1
  <1>8. \A x : x = line.x => AtColumn(j, x)'
    <2>1. \A x : x = line.x => (\E v \in 0..(DisplayHeight - 1) :
              <<x, v>> \in Lit' /\ Nearest(<<x, v>>, s_ButtonPos[j], Following(j)))
      BY <1>2, <1>4, <1>13
    <2> QED
      BY <2>1 DEF AtColumn
  <1>9. \A y : y = line.y => AtRow(j, y)'
    <2>1. \A y : y = line.y => (\E v \in 0..(DisplayWidth - 1) :
              <<v, y>> \in Lit' /\ Nearest(<<v, y>>, s_ButtonPos[j], Following(j)))
      BY <1>2, <1>4, <1>13
    <2> QED
      BY <2>1 DEF AtRow
  <1>10. /\ line.x \in Int /\ line.nX0 \in Int /\ line.nX1 \in Int
         /\ line.y \in Int /\ line.nY0 \in Int /\ line.nY1 \in Int
         /\ Between(line.x, line.nX0, line.nX1) /\ Between(line.y, line.nY0, line.nY1)
         /\ line.sx = (IF line.nX0 < line.nX1 THEN 1 ELSE -1)
         /\ line.sy = (IF line.nY0 < line.nY1 THEN 1 ELSE -1)
    BY <1>1, DisplayFacts DEF LineInv
  <1>11. CASE AtEnd(line)
    <2>1. pc' = "edge" /\ i' = i + 1 /\ line' = line
      BY <1>11 DEF DrawLine
    <2>2. ASSUME Flat(j), NEW x \in 0..(DisplayWidth - 1),
                 Between(x, s_ButtonPos[j].nCX, Following(j).nCX)
          PROVE  AtColumn(j, x)'
      <3>1. x = line.x \/ (Between(x, line.nX0, line.x) /\ x # line.x)
        BY <1>1, <1>10, <1>11, <1>13, <2>2, Passed, DisplayFacts DEF AtEnd, EdgeBegun
      <3>2. (Between(x, line.nX0, line.x) /\ x # line.x) => AtColumn(j, x)
        BY <1>1, <1>13, <2>2 DEF EdgeBegun
      <3> QED
        BY <1>7, <1>8, <3>1, <3>2
    <2>3. ASSUME Steep(j), NEW y \in 0..(DisplayHeight - 1),
                 Between(y, s_ButtonPos[j].nCY, Following(j).nCY)
          PROVE  AtRow(j, y)'
      <3>1. y = line.y \/ (Between(y, line.nY0, line.y) /\ y # line.y)
        BY <1>1, <1>10, <1>11, <1>13, <2>3, Passed, DisplayFacts DEF AtEnd, EdgeBegun
      <3>2. (Between(y, line.nY0, line.y) /\ y # line.y) => AtRow(j, y)
        BY <1>1, <1>13, <2>3 DEF EdgeBegun
      <3> QED
        BY <1>7, <1>9, <3>1, <3>2
    <2>4. EdgeDrawn(j)'
      BY <2>2, <2>3 DEF EdgeDrawn, Flat, Steep
    <2>5. ASSUME NEW k \in Buttons, EdgeIsDrawn(k)' PROVE EdgeDrawn(k)'
      <3>1. k = j \/ k < i
        BY <1>1, <1>13, <2>1, <2>5 DEF EdgeIsDrawn, Buttons
      <3>2. k < i => EdgeDrawn(k)
        BY DEF PictureInv, EdgeIsDrawn
      <3> QED
        BY <1>7, <2>4, <3>1, <3>2
    <2> QED
      BY <1>4, <1>6, <2>1, <2>5 DEF PictureInv, SquareIsDrawn
  <1>12. CASE ~AtEnd(line)
    <2>1. pc' = pc /\ i' = i /\ line' = Advance(line)
      BY <1>12 DEF DrawLine
    <2>2. /\ line'.nX0 = line.nX0 /\ line'.nX1 = line.nX1
          /\ line'.nY0 = line.nY0 /\ line'.nY1 = line.nY1
          /\ line.dx >= line.dy => line'.x = line.x + line.sx
          /\ line.dx <= line.dy => line'.y = line.y + line.sy
          /\ Between(line'.x, line'.nX0, line'.nX1) /\ Between(line'.y, line'.nY0, line'.nY1)
      BY <1>1, <1>12, <2>1, LoopAdvances DEF LineInv
    <2>3. ASSUME Flat(j), NEW x \in 0..(DisplayWidth - 1),
                 Between(x, line'.nX0, line'.x), x # line'.x
          PROVE  AtColumn(j, x)'
      <3>1. x = line.x \/ (Between(x, line.nX0, line.x) /\ x # line.x)
        BY <1>2, <1>10, <1>13, <2>2, <2>3, Passed, DisplayFacts
      <3>2. (Between(x, line.nX0, line.x) /\ x # line.x) => AtColumn(j, x)
        BY <1>1, <1>13, <2>3 DEF EdgeBegun
      <3> QED
        BY <1>7, <1>8, <3>1, <3>2
    <2>4. ASSUME Steep(j), NEW y \in 0..(DisplayHeight - 1),
                 Between(y, line'.nY0, line'.y), y # line'.y
          PROVE  AtRow(j, y)'
      <3>1. y = line.y \/ (Between(y, line.nY0, line.y) /\ y # line.y)
        BY <1>2, <1>10, <1>13, <2>2, <2>4, Passed, DisplayFacts
      <3>2. (Between(y, line.nY0, line.y) /\ y # line.y) => AtRow(j, y)
        BY <1>1, <1>13, <2>4 DEF EdgeBegun
      <3> QED
        BY <1>7, <1>9, <3>1, <3>2
    <2>5. EdgeBegun'
      <3>1. j = i'
        BY <1>13, <2>1
      <3> QED
        BY <1>1, <1>13, <2>1, <2>2, <2>3, <2>4, <3>1 DEF EdgeBegun
    <2> QED
      BY <1>4, <1>6, <1>7, <2>1, <2>5 DEF PictureInv, EdgeIsDrawn, SquareIsDrawn
  <1> QED
    BY <1>11, <1>12

\* DrawLine draws its pixel of a row of a square.
LEMMA RowStep ==
  ASSUME IInv, PictureInv, DrawLine, pc = "rowLine"
  PROVE  PictureInv'
  <1>1. /\ i \in Buttons /\ LineInv /\ OnlyPixels /\ NothingElse
        /\ SquareBegun /\ RowBegun
    BY DEF IInv, PictureInv
  <1>2. PICK h \in Nat, cx \in Int, cy \in Int :
            /\ h = nHalf /\ cx = s_ButtonPos[i].nCX /\ cy = s_ButtonPos[i].nCY
            /\ 0 <= cx - h /\ cx + h <= DisplayWidth - 1
            /\ 0 <= cy - h /\ cy + h <= DisplayHeight - 1
    BY <1>1, SquareFacts
  <1>3. /\ line.nX0 = cx - h /\ line.nX1 = cx + h /\ line.nY0 = row /\ line.nY1 = row
        /\ row \in (cy - h)..(cy + h)
    BY <1>1, <1>2 DEF SquareBegun, RowBegun
  <1>4. /\ line.x \in (cx - h)..(cx + h) /\ line.y = row
        /\ line.dy = 0 /\ line.dx \in Nat
        /\ line.x # cx + h => line.sx = 1
    BY <1>1, <1>2, <1>3, DisplayFacts DEF LineInv, Between, Abs
  <1>5. line.x \in 0..(DisplayWidth - 1) /\ row \in 0..(DisplayHeight - 1)
    BY <1>2, <1>3, <1>4, DisplayFacts
  <1>6. m_DisplayBuffer' = m_DisplayBuffer \cup {Bit(line.x, row)}
    BY <1>4, <1>5, DisplayFacts DEF DrawLine, DrawPixel
  <1>7. Lit' = Lit \cup {<<line.x, row>>} /\ OnlyPixels'
    BY <1>1, <1>5, <1>6, PixelLit
  <1>8. bButtons' = bButtons /\ \A k : Square(k)' = Square(k)
    BY DEF DrawLine, Square
  <1>9. Square(i) = {p \in Pixels : Abs(p[1] - cx) <= h /\ Abs(p[2] - cy) <= h}
    BY <1>2 DEF Square, nHalf
  <1>10. <<line.x, row>> \in Square(i)
    BY <1>2, <1>3, <1>4, <1>5, <1>9 DEF Pixels, Abs
  <1>11. NothingElse'
    BY <1>1, <1>7, <1>8, <1>10 DEF NothingElse
  <1>12. \A k : EdgeDrawn(k) => EdgeDrawn(k)'
    BY <1>7, EdgeStays
  <1>13. {p \in Square(i) : p[2] = row /\ p[1] <= line.x} \subseteq Lit'
    <2> SUFFICES ASSUME NEW p \in Square(i), p[2] = row, p[1] <= line.x PROVE p \in Lit'
      OBVIOUS
    <2>1. p = <<p[1], p[2]>> /\ p[1] \in Int
      BY <1>9, DisplayFacts DEF Pixels
    <2>2. p[1] < line.x => p \in Lit
      BY <1>1 DEF RowBegun
    <2> QED
      BY <1>4, <1>7, <2>1, <2>2
  <1>14. CASE AtEnd(line)
    <2>1. pc' = "row" /\ row' = row + 1 /\ i' = i
      <3>1. row + 1 \in 0..(WordSize - 1)
        BY <1>5, DisplayFacts
      <3> QED
        BY <1>14, <3>1, WordFacts DEF DrawLine
    <2>2. {p \in Square(i) : p[2] < row + 1} \subseteq Lit'
      <3> SUFFICES ASSUME NEW p \in Square(i), p[2] < row + 1 PROVE p \in Lit'
        OBVIOUS
      <3>1. p[1] \in Int /\ p[2] \in Int /\ p[1] <= cx + h
        BY <1>2, <1>9, DisplayFacts DEF Pixels, Abs
      <3>2. p[2] < row => p \in Lit
        BY <1>1 DEF SquareBegun
      <3>3. p[2] = row => p \in Lit'
        BY <1>3, <1>13, <1>14, <3>1 DEF AtEnd
      <3> QED
        BY <1>3, <1>7, <3>1, <3>2, <3>3
    <2>3. SquareBegun'
      <3>1. nHalf' = nHalf /\ Square(i)' = Square(i)
        BY <1>8, <2>1 DEF nHalf, Square
      <3> QED
        BY <1>2, <1>3, <2>1, <2>2, <3>1 DEF SquareBegun
    <2> QED
      BY <1>7, <1>8, <1>11, <1>12, <2>1, <2>3 DEF PictureInv, EdgeIsDrawn, SquareIsDrawn
  <1>15. CASE ~AtEnd(line)
    <2>1. pc' = pc /\ i' = i /\ row' = row /\ line' = Advance(line)
      BY <1>15 DEF DrawLine
    <2>2. line.x # cx + h
      BY <1>3, <1>4, <1>15 DEF AtEnd
    <2>3. /\ line'.nX0 = line.nX0 /\ line'.nX1 = line.nX1
          /\ line'.nY0 = line.nY0 /\ line'.nY1 = line.nY1
          /\ line'.x = line.x + 1
      BY <1>1, <1>4, <1>15, <2>1, <2>2, LoopAdvances
    <2>4. nHalf' = nHalf /\ Square(i)' = Square(i)
      BY <1>8, <2>1 DEF nHalf, Square
    <2>5. RowBegun'
      <3>1. {p \in Square(i) : p[2] = row /\ p[1] < line'.x} \subseteq Lit'
        <4> SUFFICES ASSUME NEW p \in Square(i), p[2] = row, p[1] < line'.x PROVE p \in Lit'
          OBVIOUS
        <4>1. p[1] \in Int
          BY <1>9, DisplayFacts DEF Pixels
        <4> QED
          BY <1>4, <1>13, <2>3, <4>1
      <3> QED
        BY <1>1, <2>1, <2>3, <2>4, <3>1 DEF RowBegun
    <2>6. SquareBegun'
      BY <1>1, <1>7, <2>1, <2>4 DEF SquareBegun
    <2> QED
      BY <1>7, <1>8, <1>11, <1>12, <2>1, <2>5, <2>6 DEF PictureInv, EdgeIsDrawn, SquareIsDrawn
  <1> QED
    BY <1>14, <1>15

\* Before the first picture nothing is drawn.
LEMMA InitPicture == Init => PictureInv
  <1> SUFFICES ASSUME Init PROVE PictureInv
    OBVIOUS
  <1>1. Lit = {}
    BY DEF Init, Lit
  <1>2. OnlyPixels
    BY <1>1 DEF Init, OnlyPixels
  <1> QED
    BY <1>2 DEF Init, PictureInv, EdgeIsDrawn, SquareIsDrawn

\* Every step preserves the picture drawn so far.
LEMMA StepPicture == IInv /\ PictureInv /\ [Next]_vars => PictureInv'
  <1> SUFFICES ASSUME IInv, PictureInv, [Next]_vars PROVE PictureInv'
    OBVIOUS
  <1>1. NButtons \in Nat \ {0} /\ i \in 0..NButtons
    BY ButtonsAssumption DEF IInv
  <1>2. OnlyPixels /\ (pc # "Clear" => NothingElse)
    BY DEF PictureInv
  <1>3. CASE Clear
    <2>1. Lit' = {} /\ m_DisplayBuffer' = {}
      BY <1>3 DEF Clear, Cleared, Lit
    <2>2. OnlyPixels' /\ NothingElse'
      BY <2>1 DEF OnlyPixels, NothingElse
    <2>3. \A k \in Buttons : ~(k < 0)
      BY DEF Buttons
    <2> QED
      BY <1>3, <2>2, <2>3 DEF Clear, PictureInv, EdgeIsDrawn, SquareIsDrawn
  <1>4. CASE Edge
    <2>1. /\ Lit' = Lit /\ OnlyPixels' /\ NothingElse'
          /\ \A k : EdgeDrawn(k) => EdgeDrawn(k)'
      BY <1>2, <1>4, SamePicture DEF Edge
    <2>2. CASE i < NButtons
      <3>1. i \in Buttons /\ i' = i /\ pc' = "edgeLine"
        BY <1>1, <1>4, <2>2 DEF Edge, Buttons
      <3>2. /\ line'.nX0 = s_ButtonPos[i].nCX /\ line'.nX1 = Following(i).nCX
            /\ line'.nY0 = s_ButtonPos[i].nCY /\ line'.nY1 = Following(i).nCY
            /\ line'.x = line'.nX0 /\ line'.y = line'.nY0
        BY <1>4, <2>2 DEF Edge, Line, Following
      <3>3. /\ line'.nX0 \in Int /\ line'.nY0 \in Int
        BY <3>1, <3>2, Positions, DisplayFacts
      <3>4. EdgeBegun'
        BY <3>1, <3>2, <3>3, DisplayFacts DEF EdgeBegun, Between
      <3> QED
        BY <1>4, <2>1, <3>1, <3>4 DEF Edge, PictureInv, EdgeIsDrawn, SquareIsDrawn
    <2>3. CASE ~(i < NButtons)
      <3>1. pc' = "button" /\ i' = 0 /\ \A k \in Buttons : k < i /\ ~(k < 0)
        BY <1>1, <1>4, <2>3 DEF Edge, Buttons
      <3> QED
        BY <1>4, <2>1, <3>1 DEF Edge, PictureInv, EdgeIsDrawn, SquareIsDrawn
    <2> QED
      BY <2>2, <2>3
  <1>5. CASE Button
    <2>1. /\ Lit' = Lit /\ OnlyPixels' /\ NothingElse'
          /\ \A k : EdgeDrawn(k) => EdgeDrawn(k)'
          /\ \A k : Square(k)' = Square(k)
      BY <1>2, <1>5, SamePicture DEF Button
    <2>2. CASE i < NButtons
      <3>1. i \in Buttons /\ i' = i /\ pc' = "row" /\ nHalf' = nHalf
        BY <1>1, <1>5, <2>2 DEF Button, Buttons, nHalf
      <3>2. PICK h \in Nat, cx \in Int, cy \in Int :
                /\ h = nHalf /\ cx = s_ButtonPos[i].nCX /\ cy = s_ButtonPos[i].nCY
                /\ row' = cy - h
        BY <1>5, <2>2, <3>1, SquareFacts DEF Button
      <3>3. Square(i) = {p \in Pixels : Abs(p[1] - cx) <= h /\ Abs(p[2] - cy) <= h}
        BY <3>2 DEF Square, nHalf
      <3>4. {p \in Square(i) : p[2] < row'} = {}
        BY <3>2, <3>3, DisplayFacts DEF Pixels, Abs
      <3>5. SquareBegun'
        <4>1. Square(i)' = Square(i)
          BY <1>5, <3>1 DEF Button, Square
        <4> QED
          BY <3>1, <3>2, <3>4, <4>1 DEF SquareBegun
      <3> QED
        BY <1>5, <2>1, <3>1, <3>5 DEF Button, PictureInv, EdgeIsDrawn, SquareIsDrawn
    <2>3. CASE ~(i < NButtons)
      <3>1. pc' = "Show" /\ i' = i /\ \A k \in Buttons : k < i
        BY <1>1, <1>5, <2>3 DEF Button, Buttons
      <3> QED
        BY <1>5, <2>1, <3>1 DEF Button, PictureInv, EdgeIsDrawn, SquareIsDrawn
    <2> QED
      BY <2>2, <2>3
  <1>6. CASE Row
    <2>1. /\ Lit' = Lit /\ OnlyPixels' /\ NothingElse'
          /\ \A k : EdgeDrawn(k) => EdgeDrawn(k)'
          /\ \A k : Square(k)' = Square(k)
      BY <1>2, <1>6, SamePicture DEF Row
    <2>2. i \in Buttons /\ SquareBegun
      BY <1>6 DEF Row, IInv, PictureInv
    <2>3. PICK h \in Nat, cx \in Int, cy \in Int :
              /\ h = nHalf /\ cx = s_ButtonPos[i].nCX /\ cy = s_ButtonPos[i].nCY
              /\ Word(cx - h) = cx - h
              /\ Word(Word(cx - h) + (h * 2 + 1) - 1) = cx + h
              /\ Word(Word(cy - h) + (h * 2 + 1)) = cy + h + 1
      BY <2>2, SquareFacts, RowFacts
    <2>4. row \in (cy - h)..(cy + h + 1)
      BY <2>2, <2>3 DEF SquareBegun
    <2>5. Square(i) = {p \in Pixels : Abs(p[1] - cx) <= h /\ Abs(p[2] - cy) <= h}
      BY <2>3 DEF Square, nHalf
    <2>6. CASE row < cy + h + 1
      <3>1. /\ line' = Line(cx - h, row, cx + h, row)
            /\ pc' = "rowLine" /\ i' = i /\ row' = row /\ bButtons' = bButtons
        BY <1>6, <2>3, <2>6 DEF Row
      <3>2. /\ line'.nX0 = cx - h /\ line'.nX1 = cx + h
            /\ line'.nY0 = row /\ line'.nY1 = row /\ line'.x = cx - h
        BY <3>1 DEF Line
      <3>3. nHalf' = nHalf /\ Square(i)' = Square(i)
        BY <3>1 DEF nHalf, Square
      <3>4. {p \in Square(i) : p[2] = row /\ p[1] < cx - h} = {}
        BY <2>5, DisplayFacts DEF Pixels, Abs
      <3>5. RowBegun'
        BY <2>3, <2>4, <2>6, <3>1, <3>2, <3>3, <3>4 DEF RowBegun
      <3>6. SquareBegun'
        BY <2>1, <2>2, <3>1, <3>3 DEF SquareBegun
      <3> QED
        BY <1>6, <2>1, <3>1, <3>5, <3>6 DEF Row, PictureInv, EdgeIsDrawn, SquareIsDrawn
    <2>7. CASE ~(row < cy + h + 1)
      <3>1. pc' = "button" /\ i' = i + 1
        BY <1>6, <2>3, <2>7 DEF Row
      <3>2. Square(i) \subseteq Lit
        <4> SUFFICES ASSUME NEW p \in Square(i) PROVE p \in Lit
          OBVIOUS
        <4>1. p[2] < row
          BY <2>4, <2>5, <2>7, DisplayFacts DEF Pixels, Abs
        <4> QED
          BY <2>2, <4>1 DEF SquareBegun
      <3>3. ASSUME NEW k \in Buttons, k < i + 1 PROVE Square(k) \subseteq Lit
        <4>1. k = i \/ k < i
          BY <2>2, <3>3 DEF Buttons
        <4>2. k < i => Square(k) \subseteq Lit
          BY <1>6 DEF Row, PictureInv, SquareIsDrawn
        <4> QED
          BY <3>2, <4>1, <4>2
      <3> QED
        BY <1>6, <2>1, <3>1, <3>3 DEF Row, PictureInv, EdgeIsDrawn, SquareIsDrawn
    <2> QED
      BY <2>6, <2>7
  <1>7. CASE DrawLine
    BY <1>7, EdgeStep, RowStep DEF DrawLine
  <1>8. CASE Redraw
    <2>1. OnlyPixels'
      BY <1>2, <1>8 DEF Redraw, OnlyPixels, Lit
    <2> QED
      BY <1>8, <2>1 DEF Redraw, PictureInv, EdgeIsDrawn, SquareIsDrawn
  <1>9. CASE UNCHANGED vars
    <2>1. /\ Lit' = Lit /\ OnlyPixels' /\ (NothingElse => NothingElse')
          /\ \A k : EdgeDrawn(k) => EdgeDrawn(k)'
          /\ \A k : Square(k)' = Square(k)
      BY <1>2, <1>9, SamePicture DEF vars
    <2>2. (EdgeBegun => EdgeBegun') /\ (SquareBegun => SquareBegun') /\ (RowBegun => RowBegun')
      BY <1>9, <2>1 DEF vars, EdgeBegun, AtColumn, AtRow, SquareBegun, RowBegun, Square, nHalf
    <2> QED
      BY <1>9, <2>1, <2>2 DEF vars, PictureInv, EdgeIsDrawn, SquareIsDrawn
  <1> QED
    BY <1>3, <1>4, <1>5, <1>6, <1>7, <1>8, <1>9 DEF Next, Draw

\* The second inductive invariant: what is drawn so far, in every state.
THEOREM PictureInvHolds == Spec => []PictureInv
  BY InitPicture, StepPicture, IInvHolds, PTL DEF Spec

\* Whatever the display, the positions and the buttons: what is sent shows
\* every square and every edge of the octagon without a gap, and nothing else.
THEOREM PictureShowsButtonsHolds == Spec => []PictureShowsButtons
  <1>1. PictureInv => PictureShowsButtons
    BY DEF PictureInv, PictureShowsButtons, EdgeIsDrawn, SquareIsDrawn
  <1> QED
    BY <1>1, PictureInvHolds, PTL

-----------------------------------------------------------------------------
(* Every picture comes to its end.                                         *)

\* The steps of an edge, of a row of a square and of a square, at most.
EdgeSteps == DisplayWidth + DisplayHeight
RowSteps == 2 * PressedHalf + 2
SquareSteps == (2 * PressedHalf + 1) * RowSteps + 2

\* The rows of the square that DrawFillRect has not come to.
RowsLeft == s_ButtonPos[i].nCY + nHalf + 1 - row

\* What is left to do of the picture: the edges, then the squares, of each the
\* rows, and of the line that DrawLine is drawing what is left to go.
PictureToGo ==
    CASE pc = "Clear" -> NButtons * EdgeSteps + NButtons * SquareSteps + 3
      [] pc = "edge" -> (NButtons - i) * EdgeSteps + NButtons * SquareSteps + 2
      [] pc = "edgeLine" ->
             (NButtons - i - 1) * EdgeSteps + NButtons * SquareSteps + ToGo + 3
      [] pc = "button" -> (NButtons - i) * SquareSteps + 1
      [] pc = "row" ->
             (NButtons - i - 1) * SquareSteps + RowsLeft * RowSteps + 2
      [] pc = "rowLine" ->
             (NButtons - i - 1) * SquareSteps + (RowsLeft - 1) * RowSteps + ToGo + 3
      [] pc = "Show" -> 0

\* How long a line and how large a square can be.
ReachFacts ==
    /\ pc = "edgeLine" => ToGo \in 0..(EdgeSteps - 2)
    /\ pc = "rowLine" => ToGo \in 0..(RowSteps - 2) /\ RowsLeft \in 1..(2 * PressedHalf + 1)
    /\ pc = "row" => RowsLeft \in 0..(2 * PressedHalf + 1)

\* These counts are numbers, and a square of rows has at most its steps.
LEMMA StepNumbers ==
  /\ PressedHalf \in Nat /\ NButtons \in Nat \ {0}
  /\ EdgeSteps \in Nat /\ EdgeSteps >= 2 /\ RowSteps \in Nat /\ SquareSteps \in Nat
  /\ \A n \in Nat : n * EdgeSteps \in Nat /\ n * RowSteps \in Nat /\ n * SquareSteps \in Nat
  /\ \A n \in 0..(2 * PressedHalf + 1) : n * RowSteps + 2 <= SquareSteps
  <1>1. PressedHalf \in Nat /\ NButtons \in Nat \ {0}
    BY ButtonsAssumption
  <1>2. EdgeSteps \in Nat /\ EdgeSteps >= 2 /\ RowSteps \in Nat
    BY <1>1, DisplayFacts DEF EdgeSteps, RowSteps
  <1>3. ASSUME NEW n \in Nat, NEW k \in Nat
        PROVE  n * k \in Nat
    OBVIOUS
  <1>4. 2 * PressedHalf + 1 \in Nat
    BY <1>1
  <1>5. (2 * PressedHalf + 1) * RowSteps \in Nat
    BY <1>2, <1>3, <1>4
  <1>6. SquareSteps \in Nat
    BY <1>5 DEF SquareSteps
  <1>7. ASSUME NEW n \in 0..(2 * PressedHalf + 1)
        PROVE  n * RowSteps + 2 <= SquareSteps
    <2>1. n \in Nat /\ n <= 2 * PressedHalf + 1
      BY <1>4
    <2>2. n * RowSteps \in Nat /\ n * RowSteps <= (2 * PressedHalf + 1) * RowSteps
      BY <1>2, <1>3, <1>4, <2>1, ProductMono
    <2> QED
      BY <1>5, <2>2 DEF SquareSteps
  <1> QED
    BY <1>1, <1>2, <1>3, <1>6, <1>7

\* The way along an axis that is left is no longer than the axis.
LEMMA AxisReach ==
  ASSUME NEW lo \in Int, NEW hi \in Int, NEW from \in lo..hi, NEW to \in lo..hi,
         NEW at \in Int, Between(at, from, to)
  PROVE  Abs(to - at) \in 0..(hi - lo)
  BY DEF Between, Abs

\* The lines and the squares of a picture stay within the display.
LEMMA Reach == IInv /\ PictureInv => ReachFacts
  <1> SUFFICES ASSUME IInv, PictureInv PROVE ReachFacts
    OBVIOUS
  <1>1. /\ line.x \in Int /\ line.y \in Int
        /\ Between(line.x, line.nX0, line.nX1) /\ Between(line.y, line.nY0, line.nY1)
    BY DisplayFacts DEF IInv, LineInv
  <1>2. ASSUME pc = "edgeLine" PROVE ToGo \in 0..(EdgeSteps - 2)
    <2>1. EdgeBegun /\ i \in Buttons
      BY <1>2 DEF PictureInv, IInv
    <2>2. (i + 1) % NButtons \in Buttons
      BY <2>1, StepNumbers, DivMod DEF Buttons
    <2>3. /\ line.nX0 \in 0..(DisplayWidth - 1) /\ line.nX1 \in 0..(DisplayWidth - 1)
          /\ line.nY0 \in 0..(DisplayHeight - 1) /\ line.nY1 \in 0..(DisplayHeight - 1)
      <3>1. \A k \in Buttons : /\ s_ButtonPos[k].nCX \in 0..(DisplayWidth - 1)
                               /\ s_ButtonPos[k].nCY \in 0..(DisplayHeight - 1)
        BY StepNumbers, DisplayFacts, PositionAssumption
      <3> QED
        BY <2>1, <2>2, <3>1 DEF EdgeBegun, Following
    <2>4. /\ Abs(line.nX1 - line.x) \in 0..(DisplayWidth - 1 - 0)
          /\ Abs(line.nY1 - line.y) \in 0..(DisplayHeight - 1 - 0)
      <3>1. DisplayWidth - 1 \in Int /\ DisplayHeight - 1 \in Int /\ 0 \in Int
        BY DisplayFacts
      <3>2. Abs(line.nX1 - line.x) \in 0..(DisplayWidth - 1 - 0)
        BY <1>1, <2>3, <3>1, AxisReach, ZenonT(60)
      <3>3. Abs(line.nY1 - line.y) \in 0..(DisplayHeight - 1 - 0)
        BY <1>1, <2>3, <3>1, AxisReach, ZenonT(60)
      <3> QED
        BY <3>2, <3>3
    <2> QED
      BY <2>4, DisplayFacts DEF ToGo, EdgeSteps
  <1>3. ASSUME pc \in {"row", "rowLine"}
        PROVE  /\ RowsLeft \in 0..(2 * PressedHalf + 1)
               /\ pc = "rowLine" => RowsLeft >= 1 /\ ToGo \in 0..(RowSteps - 2)
    <2>1. i \in Buttons /\ SquareBegun
      BY <1>3 DEF PictureInv, IInv
    <2>2. PICK h \in Nat, cx \in Int, cy \in Int :
              h = nHalf /\ cx = s_ButtonPos[i].nCX /\ cy = s_ButtonPos[i].nCY
      BY <2>1, SquareFacts
    <2>3. h <= PressedHalf
      BY <2>2, ButtonsAssumption DEF nHalf
    <2>4. row \in (cy - h)..(cy + h + 1) /\ RowsLeft = cy + h + 1 - row
      BY <2>1, <2>2 DEF SquareBegun, RowsLeft
    <2>5. RowsLeft \in 0..(2 * PressedHalf + 1)
      BY <2>3, <2>4, StepNumbers
    <2>6. ASSUME pc = "rowLine" PROVE RowsLeft >= 1 /\ ToGo \in 0..(RowSteps - 2)
      <3>1. /\ row <= cy + h
            /\ line.nX0 = cx - h /\ line.nX1 = cx + h /\ line.nY0 = row /\ line.nY1 = row
        BY <2>2, <2>6 DEF PictureInv, RowBegun
      <3>2. Abs(line.nX1 - line.x) \in 0..((cx + h) - (cx - h))
        <4>1. /\ cx - h \in Int /\ cx + h \in Int
              /\ line.nX0 \in (cx - h)..(cx + h) /\ line.nX1 \in (cx - h)..(cx + h)
          BY <3>1
        <4> QED
          BY <1>1, <4>1, AxisReach
      <3>3. Abs(line.nY1 - line.y) = 0
        BY <1>1, <2>4, <3>1 DEF Between, Abs
      <3>4. ToGo \in 0..(2 * h)
        BY <3>2, <3>3 DEF ToGo
      <3> QED
        BY <2>3, <2>4, <3>1, <3>4, StepNumbers DEF RowSteps
    <2> QED
      BY <2>5, <2>6
  <1> QED
    BY <1>2, <1>3, StepNumbers DEF ReachFacts

\* One button, or one row, less.
LEMMA OneLess ==
  ASSUME NEW n \in Nat \ {0}, NEW k \in Nat
  PROVE  /\ n - 1 \in Nat /\ (n - 1) * k \in Nat /\ n * k \in Nat
         /\ n * k = (n - 1) * k + k
  <1>1. n - 1 \in Nat
    OBVIOUS
  <1>2. ((n - 1) + 1) * k = (n - 1) * k + k
    BY <1>1, ProductStep
  <1>3. (n - 1) + 1 = n
    OBVIOUS
  <1>4. \A a \in Nat : a * k \in Nat
    OBVIOUS
  <1> QED
    BY <1>1, <1>2, <1>3, <1>4

\* What is left is a number no larger than at the beginning, and 0 at the end
\* only.
LEMMA PictureBound ==
  ASSUME IInv, ReachFacts
  PROVE  /\ PictureToGo \in 0..(NButtons * EdgeSteps + NButtons * SquareSteps + 3)
         /\ PictureToGo = 0 <=> pc = "Show"
  <1>1. PICK e \in Nat, s \in Nat :
            /\ e = NButtons * EdgeSteps /\ s = NButtons * SquareSteps
    BY StepNumbers
  <1>2. i \in 0..NButtons /\ NButtons \in Nat
    BY StepNumbers DEF IInv
  <1>3. /\ NButtons - i \in Nat
        /\ (NButtons - i) * EdgeSteps \in 0..e /\ (NButtons - i) * SquareSteps \in 0..s
    <2>1. NButtons - i \in Nat /\ NButtons - i <= NButtons
      BY <1>2
    <2> QED
      BY <1>1, <1>2, <2>1, ProductMono, StepNumbers
  <1>4. ASSUME i \in Buttons
        PROVE  /\ (NButtons - i - 1) * EdgeSteps \in Nat
               /\ (NButtons - i - 1) * SquareSteps \in Nat
               /\ (NButtons - i - 1) * EdgeSteps + EdgeSteps <= e
               /\ (NButtons - i - 1) * SquareSteps + SquareSteps <= s
    <2>1. NButtons - i \in Nat \ {0}
      BY <1>2, <1>4 DEF Buttons
    <2> QED
      BY <1>3, <2>1, OneLess, StepNumbers
  <1>5. CASE pc \in {"Clear", "edge", "button", "Show"}
    BY <1>1, <1>3, <1>5 DEF PictureToGo
  <1>6. CASE pc = "edgeLine"
    <2>1. /\ i \in Buttons /\ ToGo \in 0..(EdgeSteps - 2) /\ EdgeSteps \in Nat
          /\ PictureToGo = (NButtons - i - 1) * EdgeSteps + s + ToGo + 3
      BY <1>1, <1>6, StepNumbers DEF IInv, ReachFacts, PictureToGo
    <2> QED
      BY <1>1, <1>4, <1>6, <2>1
  <1>7. CASE pc = "row"
    <2>1. /\ i \in Buttons
          /\ RowsLeft * RowSteps \in Nat /\ RowsLeft * RowSteps + 2 <= SquareSteps
          /\ SquareSteps \in Nat
          /\ PictureToGo = (NButtons - i - 1) * SquareSteps + RowsLeft * RowSteps + 2
      <3>1. RowsLeft \in 0..(2 * PressedHalf + 1) /\ RowsLeft \in Nat
        BY <1>7, StepNumbers DEF ReachFacts
      <3> QED
        BY <1>7, <3>1, StepNumbers DEF IInv, PictureToGo
    <2> QED
      BY <1>1, <1>4, <1>7, <2>1
  <1>8. CASE pc = "rowLine"
    <2>1. /\ i \in Buttons /\ ToGo \in 0..(RowSteps - 2) /\ RowSteps \in Nat
          /\ RowsLeft \in 1..(2 * PressedHalf + 1) /\ RowsLeft \in Nat \ {0}
          /\ PictureToGo = (NButtons - i - 1) * SquareSteps
                               + (RowsLeft - 1) * RowSteps + ToGo + 3
      BY <1>8, StepNumbers DEF IInv, ReachFacts, PictureToGo
    <2>2. /\ (RowsLeft - 1) * RowSteps \in Nat /\ SquareSteps \in Nat
          /\ (RowsLeft - 1) * RowSteps + RowSteps + 2 <= SquareSteps
      <3>1. RowsLeft * RowSteps + 2 <= SquareSteps
        BY <2>1, StepNumbers
      <3> QED
        BY <2>1, <3>1, OneLess, StepNumbers
    <2> QED
      BY <1>1, <1>4, <1>8, <2>1, <2>2
  <1> QED
    BY <1>5, <1>6, <1>7, <1>8 DEF IInv

\* The steps between the lines.
LEMMA CallsCount ==
  ASSUME IInv, ReachFacts, ReachFacts', Clear \/ Edge \/ Button
  PROVE  PictureToGo' < PictureToGo
  <1>1. PICK e \in Nat, s \in Nat :
            /\ e = NButtons * EdgeSteps /\ s = NButtons * SquareSteps
    BY StepNumbers
  <1>2. i \in 0..NButtons /\ NButtons \in Nat
    BY StepNumbers DEF IInv
  <1>3. CASE Clear
    <2>1. PictureToGo = e + s + 3 /\ PictureToGo' = (NButtons - 0) * EdgeSteps + s + 2
      BY <1>1, <1>3 DEF Clear, PictureToGo
    <2>2. NButtons - 0 = NButtons
      BY <1>2
    <2> QED
      BY <1>1, <2>1, <2>2
  <1>4. CASE Edge /\ i < NButtons
    <2>1. /\ pc = "edge" /\ pc' = "edgeLine" /\ i' = i
      BY <1>4 DEF Edge
    <2>2. /\ PictureToGo = (NButtons - i) * EdgeSteps + s + 2
          /\ PictureToGo' = (NButtons - i - 1) * EdgeSteps + s + ToGo' + 3
      BY <1>1, <2>1 DEF PictureToGo
    <2>3. ToGo' \in 0..(EdgeSteps - 2) /\ EdgeSteps \in Nat
      BY <2>1, StepNumbers DEF ReachFacts
    <2>4. NButtons - i \in Nat \ {0}
      BY <1>2, <1>4
    <2>5. /\ (NButtons - i - 1) * EdgeSteps \in Nat
          /\ (NButtons - i) * EdgeSteps = (NButtons - i - 1) * EdgeSteps + EdgeSteps
      BY <2>3, <2>4, OneLess
    <2> QED
      BY <1>1, <2>2, <2>3, <2>5
  <1>5. CASE Edge /\ ~(i < NButtons)
    <2>1. pc = "edge" /\ pc' = "button" /\ i' = 0 /\ i = NButtons
      BY <1>2, <1>5 DEF Edge
    <2>2. /\ PictureToGo = (NButtons - i) * EdgeSteps + s + 2
          /\ PictureToGo' = (NButtons - 0) * SquareSteps + 1
      BY <1>1, <2>1 DEF PictureToGo
    <2>3. (NButtons - i) * EdgeSteps \in Nat /\ NButtons - 0 = NButtons
      BY <1>2, <2>1, StepNumbers
    <2> QED
      BY <1>1, <2>2, <2>3
  <1>6. CASE Button /\ i < NButtons
    <2>1. pc = "button" /\ pc' = "row" /\ i' = i
      BY <1>6 DEF Button
    <2>2. /\ PictureToGo = (NButtons - i) * SquareSteps + 1
          /\ PictureToGo' = (NButtons - i - 1) * SquareSteps + RowsLeft' * RowSteps + 2
      BY <2>1 DEF PictureToGo
    <2>3. RowsLeft' \in 0..(2 * PressedHalf + 1) /\ RowsLeft' \in Nat
      BY <2>1, StepNumbers DEF ReachFacts
    <2>4. /\ RowsLeft' * RowSteps \in Nat /\ RowsLeft' * RowSteps + 2 <= SquareSteps
          /\ SquareSteps \in Nat
      BY <2>3, StepNumbers
    <2>5. NButtons - i \in Nat \ {0}
      BY <1>2, <1>6
    <2>6. /\ (NButtons - i - 1) * SquareSteps \in Nat
          /\ (NButtons - i) * SquareSteps = (NButtons - i - 1) * SquareSteps + SquareSteps
      BY <2>4, <2>5, OneLess
    <2> QED
      BY <2>2, <2>4, <2>6
  <1>7. CASE Button /\ ~(i < NButtons)
    <2>1. pc = "button" /\ pc' = "Show"
      BY <1>7 DEF Button
    <2>2. PictureToGo = (NButtons - i) * SquareSteps + 1 /\ PictureToGo' = 0
      BY <2>1 DEF PictureToGo
    <2>3. (NButtons - i) * SquareSteps \in Nat
      BY <1>2, StepNumbers
    <2> QED
      BY <2>2, <2>3
  <1> QED
    BY <1>3, <1>4, <1>5, <1>6, <1>7

\* A row that has been begun is less than the row.
LEMMA CountLess ==
  ASSUME NEW q \in Nat, NEW n \in Nat, NEW k \in Nat, NEW t \in Nat, t <= k - 2
  PROVE  q + n + t + 3 < q + (n + k) + 2
  OBVIOUS

\* The rows of a square.
LEMMA RowCounts ==
  ASSUME IInv, ReachFacts, ReachFacts', Row
  PROVE  PictureToGo' < PictureToGo
  <1>1. pc = "row" /\ i \in Buttons /\ bButtons' = bButtons /\ row' = row
    BY DEF Row, IInv
  <1>2. /\ i \in Nat /\ NButtons \in Nat /\ i < NButtons
        /\ RowSteps \in Nat /\ SquareSteps \in Nat
    BY <1>1, StepNumbers DEF Buttons
  <1>3. RowsLeft \in Nat
    BY <1>1, StepNumbers DEF ReachFacts
  <1>4. PICK q \in Nat, r \in Nat :
            /\ q = (NButtons - i - 1) * SquareSteps /\ r = RowsLeft * RowSteps
    <2>1. NButtons - i - 1 \in Nat
      BY <1>2
    <2> QED
      BY <1>3, <2>1, StepNumbers
  <1>5. PictureToGo = q + r + 2
    BY <1>1, <1>4 DEF PictureToGo
  <1>6. CASE pc' = "rowLine" /\ i' = i
    <2>1. RowsLeft' = RowsLeft
      BY <1>1, <1>6 DEF RowsLeft, nHalf
    <2>2. ToGo' \in 0..(RowSteps - 2) /\ RowsLeft \in Nat \ {0}
      <3>1. ToGo' \in 0..(RowSteps - 2) /\ RowsLeft' \in 1..(2 * PressedHalf + 1)
        BY <1>6 DEF ReachFacts
      <3> QED
        BY <2>1, <3>1, StepNumbers
    <2>3. PictureToGo' = q + (RowsLeft - 1) * RowSteps + ToGo' + 3
      BY <1>4, <1>6, <2>1 DEF PictureToGo
    <2>4. (RowsLeft - 1) * RowSteps \in Nat /\ r = (RowsLeft - 1) * RowSteps + RowSteps
      BY <1>2, <1>4, <2>2, OneLess
    <2>5. PICK k \in Nat, n \in Nat :
              /\ k = RowSteps /\ n = (RowsLeft - 1) * RowSteps
              /\ r = n + k /\ PictureToGo' = q + n + ToGo' + 3
      BY <1>2, <2>3, <2>4
    <2>6. PICK t \in Nat : t = ToGo' /\ t <= k - 2
      BY <1>2, <2>2, <2>5
    <2>7. q + n + t + 3 < q + (n + k) + 2
      BY <1>4, <2>5, <2>6, CountLess
    <2> QED
      BY <1>5, <2>5, <2>6, <2>7
  <1>7. CASE pc' = "button" /\ i' = i + 1
    <2>1. PictureToGo' = (NButtons - (i + 1)) * SquareSteps + 1
      BY <1>7 DEF PictureToGo
    <2>2. NButtons - (i + 1) = NButtons - i - 1
      BY <1>2
    <2> QED
      BY <1>4, <1>5, <2>1, <2>2
  <1> QED
    BY <1>6, <1>7 DEF Row

\* The pixels of a line.
LEMMA LineCounts ==
  ASSUME IInv, PictureInv, ReachFacts, ReachFacts', DrawLine
  PROVE  PictureToGo' < PictureToGo
  <1>1. pc \in {"edgeLine", "rowLine"} /\ i \in Buttons /\ bButtons' = bButtons
    BY DEF DrawLine, IInv
  <1>2. /\ i \in Nat /\ NButtons \in Nat /\ i < NButtons
        /\ EdgeSteps \in Nat /\ RowSteps \in Nat /\ SquareSteps \in Nat
    BY <1>1, StepNumbers DEF Buttons
  <1>3. ToGo \in Nat
    BY <1>1, <1>2 DEF ReachFacts
  <1>4. PICK e \in Nat, q \in Nat, s \in Nat :
            /\ e = (NButtons - i - 1) * EdgeSteps /\ q = (NButtons - i - 1) * SquareSteps
            /\ s = NButtons * SquareSteps
    <2>1. NButtons - i - 1 \in Nat
      BY <1>2
    <2> QED
      BY <2>1, StepNumbers
  <1>5. NButtons - (i + 1) = NButtons - i - 1
    BY <1>2
  <1>6. CASE ~AtEnd(line)
    <2>1. line' = Advance(line) /\ pc' = pc /\ i' = i /\ row' = row
      BY <1>6 DEF DrawLine
    <2>2. ToGo' < ToGo
      BY <1>6, <2>1, LoopRound DEF IInv, ToGo
    <2>3. RowsLeft' = RowsLeft /\ ToGo' \in Nat
      BY <1>1, <1>2, <2>1 DEF RowsLeft, nHalf, ReachFacts
    <2>4. CASE pc = "edgeLine"
      <3>1. PictureToGo = e + s + ToGo + 3 /\ PictureToGo' = e + s + ToGo' + 3
        BY <1>4, <2>1, <2>4 DEF PictureToGo
      <3> QED
        BY <1>3, <1>4, <2>2, <2>3, <3>1
    <2>5. CASE pc = "rowLine"
      <3>1. PICK r \in Nat : r = (RowsLeft - 1) * RowSteps
        <4>1. RowsLeft - 1 \in Nat
          BY <2>5, StepNumbers DEF ReachFacts
        <4> QED
          BY <4>1, StepNumbers
      <3>2. PictureToGo = q + r + ToGo + 3 /\ PictureToGo' = q + r + ToGo' + 3
        BY <1>4, <2>1, <2>3, <2>5, <3>1 DEF PictureToGo
      <3> QED
        BY <1>3, <1>4, <2>2, <2>3, <3>1, <3>2
    <2> QED
      BY <1>1, <2>4, <2>5
  <1>7. CASE AtEnd(line) /\ pc = "edgeLine"
    <2>1. pc' = "edge" /\ i' = i + 1
      BY <1>7 DEF DrawLine
    <2>2. PictureToGo = e + s + ToGo + 3 /\ PictureToGo' = e + s + 2
      BY <1>4, <1>5, <1>7, <2>1 DEF PictureToGo
    <2> QED
      BY <1>3, <1>4, <2>2
  <1>8. CASE AtEnd(line) /\ pc = "rowLine"
    <2>1. pc' = "row" /\ row' = Word(row + 1) /\ i' = i
      BY <1>8 DEF DrawLine
    <2>2. PICK h \in Nat, cy \in Int :
              /\ h = nHalf /\ cy = s_ButtonPos[i].nCY
              /\ cy + h <= DisplayHeight - 1
      BY <1>1, SquareFacts
    <2>3. row \in Nat /\ row <= cy + h
      BY <1>8, <2>2, DisplayFacts DEF IInv, PictureInv, RowBegun
    <2>4. row' = row + 1
      <3>1. row + 1 \in 0..(WordSize - 1)
        BY <2>2, <2>3, DisplayFacts
      <3> QED
        BY <2>1, <3>1, WordFacts
    <2>5. RowsLeft' = RowsLeft - 1
      <3>1. RowsLeft = cy + h + 1 - row /\ RowsLeft' = cy + h + 1 - row'
        BY <1>1, <2>1, <2>2 DEF RowsLeft, nHalf
      <3> QED
        BY <2>2, <2>3, <2>4, <3>1
    <2>6. PICK r \in Nat : r = (RowsLeft - 1) * RowSteps
      <3>1. RowsLeft - 1 \in Nat
        BY <1>8, StepNumbers DEF ReachFacts
      <3> QED
        BY <3>1, StepNumbers
    <2>7. PictureToGo = q + r + ToGo + 3 /\ PictureToGo' = q + r + 2
      BY <1>4, <1>8, <2>1, <2>5, <2>6 DEF PictureToGo
    <2> QED
      BY <1>3, <1>4, <2>6, <2>7
  <1> QED
    BY <1>1, <1>6, <1>7, <1>8

\* Every step of a drawing leaves less to do of the picture, which takes at most
\* a step for each column and row of the display for an edge, and one for each
\* row of a square and each pixel in it, besides those of the loops over edges and
\* buttons; only when nothing is left is the picture finished.
THEOREM EveryStepOfADrawingCounts ==
  Spec => /\ [](PictureToGo \in 0..(NButtons * EdgeSteps + NButtons * SquareSteps + 3))
          /\ [](PictureToGo = 0 <=> pc = "Show")
          /\ [][Draw => PictureToGo' < PictureToGo]_vars
  <1>1. IInv /\ PictureInv =>
            /\ PictureToGo \in 0..(NButtons * EdgeSteps + NButtons * SquareSteps + 3)
            /\ PictureToGo = 0 <=> pc = "Show"
    BY Reach, PictureBound
  <1>2. ReachFacts /\ ReachFacts' /\ IInv /\ PictureInv /\ [Next]_vars =>
            [Draw => PictureToGo' < PictureToGo]_vars
    BY CallsCount, RowCounts, LineCounts DEF Draw
  <1> QED
    BY <1>1, <1>2, Reach, IInvHolds, PictureInvHolds, PTL DEF Spec

-----------------------------------------------------------------------------
(* Display: places on the screen.                                          *)

\* Every part has a place.
LEMMA PlaceType ==
  ASSUME NEW p \in Nat \ {0}, NEW shift \in Nat
  PROVE  Place(p, shift) \in Parts
  <1>1. NParts \in Nat \ {0} /\ p - 1 + shift \in Int
    BY NPartsAssumption
  <1>2. (p - 1 + shift) % NParts \in 0..NParts - 1
    BY <1>1, DivMod
  <1> QED
    BY <1>1, <1>2 DEF Place, Parts

\* The places follow each other as the address of the SSD1306 goes up.
LEMMA NextPlace ==
  ASSUME NEW p \in Nat \ {0}, NEW shift \in Nat
  PROVE  Place(p + 1, shift) = (Place(p, shift) % NParts) + 1
  <1> DEFINE a == p - 1 + shift
  <1>1. NParts \in Nat \ {0} /\ a \in Nat
    BY NPartsAssumption
  <1>2. (a + 1) % NParts = ((a % NParts) + 1) % NParts
    BY <1>1, RemainderSuccessor
  <1>3. (p + 1) - 1 + shift = a + 1
    OBVIOUS
  <1> HIDE DEF a
  <1>4. Place(p + 1, shift) = ((a + 1) % NParts) + 1
    BY <1>3 DEF Place
  <1>5. Place(p, shift) = (a % NParts) + 1
    BY DEF Place, a
  <1> QED
    BY <1>2, <1>4, <1>5

\* The first part is at the shift, and so is what comes after the last one.
LEMMA FirstPlace ==
  ASSUME NEW shift \in 0..NParts - 1
  PROVE  Place(1, shift) = shift + 1 /\ Place(NParts + 1, shift) = shift + 1
  <1>1. NParts \in Nat \ {0} /\ shift \in Nat
    BY NPartsAssumption
  <1>2. (NParts * 0 + shift) % NParts = shift
    BY <1>1, RemainderOf
  <1>3. (NParts * 1 + shift) % NParts = shift
    BY <1>1, RemainderOf
  <1>4. NParts * 0 + shift = 1 - 1 + shift
    BY <1>1
  <1>5. NParts * 1 + shift = (NParts + 1) - 1 + shift
    BY <1>1
  <1> QED
    BY <1>2, <1>3, <1>4, <1>5 DEF Place

\* No two parts of a frame share a place.
LEMMA PlacesDiffer ==
  ASSUME NEW p \in Parts, NEW q \in Parts, p < q, NEW shift \in Nat
  PROVE  Place(p, shift) # Place(q, shift)
  <1> DEFINE N == NParts
             a == p - 1 + shift
             b == q - 1 + shift
  <1>1. N \in Nat \ {0} /\ a \in Int /\ b \in Int /\ b - a \in 1..N - 1
    BY NPartsAssumption DEF Parts
  <1>2. /\ a = (N * (a \div N)) + (a % N) /\ (a % N) \in 0..N - 1
        /\ (a \div N) \in Int
    BY <1>1, DivMod
  <1>3. /\ b = (N * (b \div N)) + (b % N) /\ (b % N) \in 0..N - 1
        /\ (b \div N) \in Int
    BY <1>1, DivMod
  <1>4. Place(p, shift) = (a % N) + 1 /\ Place(q, shift) = (b % N) + 1
    BY DEF Place
  <1> HIDE DEF N, a, b
  <1> SUFFICES ASSUME (a % N) = (b % N) PROVE FALSE
    BY <1>1, <1>2, <1>3, <1>4
  <1> DEFINE d == (b \div N) - (a \div N)
  <1>5. d \in Int /\ N * d + 0 = N * 0 + (b - a)
    BY <1>1, <1>2, <1>3
  <1> HIDE DEF d
  <1>6. 0 = b - a
    BY <1>1, <1>5, RemainderUnique
  <1> QED
    BY <1>1, <1>6

\* An address is a shift.
LEMMA ShiftFacts ==
  /\ \A shift \in Shifts : shift \in 0..NParts - 1 /\ shift \in Nat
  /\ refusals = 0 => Shifts = {0}
  BY NPartsAssumption DEF Shifts

-----------------------------------------------------------------------------
(* The inductive invariant.                                                *)

\* An empty frame is a frame.
LEMMA BlankFrameType == BlankFrame \in [Parts -> Contents]
  BY DEF BlankFrame, Contents, Blank

\* At power-on the empty frame is about to be sent.
LEMMA InitDisplayInv == DisplayInit => DisplayInv
  <1> SUFFICES ASSUME DisplayInit PROVE DisplayInv
    OBVIOUS
  <1> USE DEF DisplayInit
  <1>1. TypeOK
    <2>1. /\ buttons \in States /\ state \in States /\ prevState \in States
          /\ runAt \in {"gadget", "Read", "check", "Clear", "Draw", "Show"}
          /\ m_bBusy \in BOOLEAN /\ refused \in BOOLEAN
      BY StatesAssumption
    <2>2. /\ drawn \in 0..NParts /\ sent \in 0..NParts /\ address \in Parts
          /\ refusals \in 0..MaxRefusals
      BY NPartsAssumption DEF Parts
    <2> QED
      BY <2>1, <2>2, BlankFrameType DEF TypeOK
  <1>2. BufferInv /\ TransferInv
    BY DEF BufferInv, TransferInv
  <1>3. ScreenInv
    <2>1. 0 \in Shifts /\ sent + 1 = 1 /\ 1..sent = {}
      BY NPartsAssumption DEF Shifts
    <2>2. Place(1, 0) = 1
      BY FirstPlace, NPartsAssumption
    <2> QED
      BY <2>1, <2>2 DEF ScreenInv
  <1> QED
    BY <1>1, <1>2, <1>3 DEF DisplayInv

\* Steps that touch neither the buffer nor the bus.
LEMMA ScreenUntouched ==
  ASSUME ScreenInv, UNCHANGED <<frame, busVars>>,
         runAt' \in {"Read", "check"} => runAt \in {"Read", "check"}
  PROVE  ScreenInv'
  <1> SUFFICES ASSUME m_bBusy' \/ (~refused' /\ runAt' \in {"Read", "check"})
               PROVE  ScreenInv'
    BY DEF ScreenInv
  <1>1. PICK shift \in Shifts :
            /\ address = Place(sent + 1, shift)
            /\ \A p \in 1..sent : screen[Place(p, shift)] = frame[p]
    BY DEF ScreenInv, busVars
  <1>2. shift \in Shifts'
    BY DEF Shifts, busVars
  <1> QED
    BY <1>1, <1>2 DEF ScreenInv, Place, busVars

\* The first drawing begins when the empty frame has been sent.
LEMMA InitializeGadgetStep == DisplayInv /\ InitializeGadget => DisplayInv'
  <1> SUFFICES ASSUME DisplayInv, InitializeGadget PROVE DisplayInv'
    OBVIOUS
  <1> USE DEF DisplayInv, InitializeGadget, Loop
  <1>1. TypeOK'
    BY DEF TypeOK, busVars
  <1>2. BufferInv' /\ TransferInv'
    BY DEF BufferInv, TransferInv, busVars
  <1>3. ScreenInv'
    BY ScreenUntouched
  <1> QED
    BY <1>1, <1>2, <1>3

\* Reading the pins changes neither the picture nor what it is compared with.
LEMMA ReadStep == DisplayInv /\ Read => DisplayInv'
  <1> SUFFICES ASSUME DisplayInv, Read PROVE DisplayInv'
    OBVIOUS
  <1> USE DEF DisplayInv, Read, Loop
  <1>1. TypeOK'
    BY DEF TypeOK, busVars
  <1>2. BufferInv' /\ TransferInv'
    BY DEF BufferInv, TransferInv, busVars
  <1>3. ScreenInv'
    BY ScreenUntouched
  <1> QED
    BY <1>1, <1>2, <1>3

\* Drawing begins only when no transfer runs.
LEMMA CheckChangeStep == DisplayInv /\ CheckChange => DisplayInv'
  <1> SUFFICES ASSUME DisplayInv, CheckChange PROVE DisplayInv'
    OBVIOUS
  <1> USE DEF DisplayInv, CheckChange, Loop, ShowDone
  <1>1. TypeOK'
    BY DEF TypeOK, busVars
  <1>2. BufferInv' /\ TransferInv'
    BY DEF BufferInv, TransferInv, busVars
  <1>3. ScreenInv'
    BY ScreenUntouched
  <1> QED
    BY <1>1, <1>2, <1>3

\* The buffer is emptied under nobody's eyes.
LEMMA ClearStep == DisplayInv /\ ClearFrame => DisplayInv'
  <1> SUFFICES ASSUME DisplayInv, ClearFrame PROVE DisplayInv'
    OBVIOUS
  <1> USE DEF DisplayInv, ClearFrame, Loop
  <1>1. TypeOK'
    BY BlankFrameType, NPartsAssumption DEF TypeOK, busVars
  <1>2. BufferInv'
    <2>1. 1..drawn' = {} /\ drawn' < NParts
      BY NPartsAssumption
    <2> QED
      BY <2>1 DEF BufferInv
  <1>3. TransferInv' /\ ScreenInv'
    BY DEF TransferInv, ScreenInv, busVars
  <1> QED
    BY <1>1, <1>2, <1>3

\* One more part is drawn, and after the last one the frame is complete.
LEMMA DrawStep == DisplayInv /\ DrawPart => DisplayInv'
  <1> SUFFICES ASSUME DisplayInv, DrawPart PROVE DisplayInv'
    OBVIOUS
  <1> USE DEF DisplayInv, DrawPart, Loop
  <1>1. /\ drawn \in Nat /\ drawn < NParts /\ NParts \in Nat
        /\ drawn + 1 \in Parts
        /\ \A p \in 1..drawn : frame[p] = <<state, p>>
    BY NPartsAssumption DEF TypeOK, BufferInv, Parts
  <1>2. TypeOK'
    <2>1. <<state, drawn + 1>> \in Contents
      BY <1>1 DEF TypeOK, Contents
    <2>2. frame' \in [Parts -> Contents] /\ drawn' \in 0..NParts
      BY <1>1, <2>1 DEF TypeOK
    <2> QED
      BY <2>2 DEF TypeOK, busVars
  <1>3. \A p \in 1..drawn + 1 : frame'[p] = <<state, p>>
    <2> SUFFICES ASSUME NEW p \in 1..drawn + 1
                 PROVE  frame'[p] = <<state, p>>
      OBVIOUS
    <2>1. p \in Parts /\ (p = drawn + 1 \/ p \in 1..drawn)
      BY <1>1 DEF Parts
    <2> QED
      BY <1>1, <2>1 DEF TypeOK
  <1>4. BufferInv'
    BY <1>1, <1>3 DEF BufferInv, LastPart, Parts
  <1>5. TransferInv' /\ ScreenInv'
    BY DEF TransferInv, ScreenInv, busVars
  <1> QED
    BY <1>2, <1>4, <1>5

\* The transfer begins wherever the address has been left.
LEMMA ShowStep == DisplayInv /\ Show => DisplayInv'
  <1> SUFFICES ASSUME DisplayInv, Show PROVE DisplayInv'
    OBVIOUS
  <1> USE DEF DisplayInv, Show, Loop, PreviousState
  <1>1. ~m_bBusy /\ sent' = 0 /\ ~refused'
    BY DEF TransferInv
  <1>2. TypeOK'
    <2>1. m_bBusy' \in BOOLEAN /\ refused' \in BOOLEAN
      BY <1>1
    <2>2. sent' \in 0..NParts
      BY <1>1, NPartsAssumption
    <2> QED
      BY <2>1, <2>2 DEF TypeOK
  <1>3. BufferInv' /\ TransferInv'
    BY <1>1 DEF BufferInv, TransferInv
  <1>4. ScreenInv'
    <2>1. PICK shift \in Shifts' : shift = address - 1
      BY <1>1, NPartsAssumption DEF TypeOK, TransferInv, Shifts, Parts
    <2>2. address = Place(1, shift)
      BY <2>1, FirstPlace, NPartsAssumption DEF TypeOK, Shifts, Parts
    <2>3. address' = Place(sent' + 1, shift)
      BY <1>1, <2>2
    <2>4. 1..sent' = {}
      BY <1>1
    <2> QED
      BY <2>1, <2>3, <2>4 DEF ScreenInv
  <1> QED
    BY <1>2, <1>3, <1>4

\* Pressing buttons is nothing the display sees.
LEMMA PressStep == DisplayInv /\ Press => DisplayInv'
  <1> SUFFICES ASSUME DisplayInv, Press PROVE DisplayInv'
    OBVIOUS
  <1> USE DEF DisplayInv, Press
  <1>1. TypeOK'
    BY DEF TypeOK, loopVars, busVars
  <1>2. BufferInv' /\ TransferInv' /\ ScreenInv'
    BY DEF BufferInv, TransferInv, ScreenInv, Place, Shifts, loopVars, busVars
  <1> QED
    BY <1>1, <1>2

\* The part that is sent goes to the next place, which none of the parts sent
\* before it has.
LEMMA SendPartStep == DisplayInv /\ SendPart => DisplayInv'
  <1> SUFFICES ASSUME DisplayInv, SendPart PROVE DisplayInv'
    OBVIOUS
  <1> USE DEF DisplayInv, SendPart
  <1>1. /\ sent \in Nat /\ sent + 1 \in Parts /\ NParts \in Nat \ {0}
        /\ address \in Parts /\ frame \in [Parts -> Contents]
        /\ screen \in [Parts -> Contents]
    BY NPartsAssumption DEF TypeOK, Parts
  <1>2. PICK shift \in Shifts :
            /\ address = Place(sent + 1, shift)
            /\ \A p \in 1..sent : screen[Place(p, shift)] = frame[p]
    BY DEF ScreenInv
  <1>3. shift \in Nat /\ shift \in Shifts'
    BY NPartsAssumption DEF Shifts
  <1>4. address' = Place(sent' + 1, shift)
    <2>1. sent + 1 \in Nat \ {0}
      BY <1>1
    <2> QED
      BY <1>2, <1>3, <2>1, NextPlace
  <1>5. TypeOK'
    <2>1. sent' + 1 \in Nat \ {0} /\ sent' \in 0..NParts
      BY <1>1
    <2>2. address' \in Parts
      BY <1>3, <1>4, <2>1, PlaceType
    <2>3. screen' \in [Parts -> Contents]
      BY <1>1
    <2> QED
      BY <2>1, <2>2, <2>3 DEF TypeOK, loopVars
  <1>6. BufferInv' /\ TransferInv'
    BY DEF BufferInv, TransferInv, loopVars
  <1>7. ASSUME NEW p \in 1..sent'
        PROVE  screen'[Place(p, shift)] = frame'[p]
    <2>1. p \in Parts /\ p \in Nat \ {0} /\ (p = sent + 1 \/ p \in 1..sent)
      BY <1>1 DEF Parts
    <2>2. Place(p, shift) \in Parts
      BY <1>3, <2>1, PlaceType
    <2>3. CASE p = sent + 1
      BY <1>1, <1>2, <2>2, <2>3 DEF loopVars
    <2>4. CASE p \in 1..sent
      <3>1. p < sent + 1
        BY <1>1, <2>4
      <3>2. Place(p, shift) # address
        BY <1>1, <1>2, <1>3, <2>1, <3>1, PlacesDiffer
      <3> QED
        BY <1>1, <1>2, <2>2, <2>4, <3>2 DEF loopVars
    <2> QED
      BY <2>1, <2>3, <2>4
  <1>8. ScreenInv'
    BY <1>3, <1>4, <1>7 DEF ScreenInv
  <1> QED
    BY <1>5, <1>6, <1>8

\* After the last part the address is back where the transfer began.
LEMMA EndTransferStep == DisplayInv /\ EndTransfer => DisplayInv'
  <1> SUFFICES ASSUME DisplayInv, EndTransfer PROVE DisplayInv'
    OBVIOUS
  <1> USE DEF DisplayInv, EndTransfer
  <1>1. TypeOK'
    BY DEF TypeOK, loopVars
  <1>2. PICK shift \in Shifts :
            /\ address = Place(sent + 1, shift)
            /\ \A p \in 1..sent : screen[Place(p, shift)] = frame[p]
    BY DEF ScreenInv
  <1>3. address = shift + 1 /\ (refusals = 0 => shift = 0)
    BY <1>2, FirstPlace DEF Shifts
  <1>4. BufferInv' /\ TransferInv'
    BY <1>3 DEF BufferInv, TransferInv, loopVars
  <1>5. shift \in Shifts'
    BY DEF Shifts
  <1>6. ScreenInv'
    BY <1>2, <1>5 DEF ScreenInv, loopVars
  <1> QED
    BY <1>1, <1>4, <1>6

\* After a refusal nothing is promised of the screen.
LEMMA RefuseStep == DisplayInv /\ Refuse => DisplayInv'
  <1> SUFFICES ASSUME DisplayInv, Refuse PROVE DisplayInv'
    OBVIOUS
  <1> USE DEF DisplayInv, Refuse
  <1>1. refusals \in Nat /\ MaxRefusals \in Nat
    BY NPartsAssumption DEF TypeOK
  <1>2. TypeOK'
    <2>1. m_bBusy' \in BOOLEAN /\ refused' \in BOOLEAN
      OBVIOUS
    <2>2. refusals' \in 0..MaxRefusals
      BY <1>1 DEF TypeOK
    <2> QED
      BY <2>1, <2>2 DEF TypeOK, loopVars
  <1>3. BufferInv' /\ TransferInv' /\ ScreenInv'
    BY <1>1 DEF BufferInv, TransferInv, ScreenInv, loopVars
  <1> QED
    BY <1>2, <1>3

\* Every step keeps the invariant.
LEMMA NextDisplayInv == DisplayInv /\ [DisplayNext]_displayVars => DisplayInv'
  <1> SUFFICES ASSUME DisplayInv, [DisplayNext]_displayVars PROVE DisplayInv'
    OBVIOUS
  <1>1. CASE Run
    BY <1>1, InitializeGadgetStep, ReadStep, CheckChangeStep, ClearStep,
       DrawStep, ShowStep DEF Run
  <1>2. CASE Press
    BY <1>2, PressStep
  <1>3. CASE Transfer
    BY <1>3, SendPartStep, EndTransferStep DEF Transfer
  <1>4. CASE Refuse
    BY <1>4, RefuseStep
  <1>5. CASE UNCHANGED displayVars
    BY <1>5 DEF displayVars, loopVars, busVars, DisplayInv, TypeOK, BufferInv, TransferInv,
                ScreenInv, Place, Shifts
  <1> QED
    BY <1>1, <1>2, <1>3, <1>4, <1>5 DEF DisplayNext

-----------------------------------------------------------------------------
(* The theorems.                                                           *)

\* The inductive invariant holds, with any number of refused frames.
THEOREM DisplayInvHolds == DisplaySpec => []DisplayInv
  <1> QED
    BY InitDisplayInv, NextDisplayInv, PTL DEF DisplaySpec

\* Every accepted frame is one whole drawing, every part once and in order,
\* and in its place unless a frame has been refused before.
THEOREM AcceptedFrameIsOneDrawingHolds == DisplaySpec => []AcceptedFrameIsOneDrawing
  <1>1. DisplayInv => AcceptedFrameIsOneDrawing
    <2> SUFFICES ASSUME DisplayInv, ~m_bBusy, ~refused, runAt \in {"Read", "check"}
                 PROVE  \E shift \in Shifts :
                            \A p \in Parts :
                                screen[Place(p, shift)] = <<prevState, p>>
      BY DEF AcceptedFrameIsOneDrawing
    <2>1. sent = NParts /\ \A p \in Parts : frame[p] = <<prevState, p>>
      BY DEF DisplayInv, TransferInv, BufferInv
    <2>2. PICK shift \in Shifts :
              \A p \in 1..sent : screen[Place(p, shift)] = frame[p]
      BY DEF DisplayInv, ScreenInv
    <2> QED
      BY <2>1, <2>2 DEF Parts
  <1> QED
    BY <1>1, DisplayInvHolds, PTL

-----------------------------------------------------------------------------
(* The display comes to rest, and rests on the pressed buttons.            *)

\* The frames that the main loop has still to send before the last one is that
\* of the pressed buttons: a state read earlier may come first.
FramesToCome ==
    CASE runAt \in {"gadget", "Clear", "Draw", "Show"} ->
             IF state = buttons THEN 1 ELSE 2
      [] runAt = "check" /\ state # prevState /\ state # buttons -> 2
      [] OTHER -> IF prevState = buttons THEN 0 ELSE 1

\* The steps of the main loop up to the next ShowAsync, while no transfer runs.
StepsToShow ==
    CASE runAt = "Show" -> 1
      [] runAt = "Draw" -> NParts - drawn + 1
      [] runAt = "Clear" -> NParts + 2
      [] runAt = "gadget" -> NParts + 3
      [] runAt = "Read" -> NParts + 4
      [] runAt = "check" -> IF state # prevState THEN NParts + 3 ELSE NParts + 5

\* What is left to do until the display is at rest, if the player keeps still:
\* for each frame, to draw it and to send it.
DisplayToGo ==
    FramesToCome * (2 * NParts + 6)
      + (IF m_bBusy THEN NParts - sent + 1 + NParts + 5
         ELSE IF FramesToCome = 0 THEN 0 ELSE StepsToShow)

\* Their ranges.
LEMMA ToShowFacts ==
  ASSUME DisplayInv
  PROVE  /\ NParts \in Nat \ {0} /\ FramesToCome \in {0, 1, 2}
         /\ StepsToShow \in 1..(NParts + 5)
         /\ sent \in 0..NParts /\ drawn \in 0..NParts
         /\ FramesToCome = 0 => runAt \in {"Read", "check"} /\ prevState = buttons
         /\ m_bBusy \in BOOLEAN
         /\ runAt \in {"Clear", "Draw", "Show"} => ~m_bBusy
  <1>1. /\ NParts \in Nat \ {0} /\ sent \in 0..NParts /\ drawn \in 0..NParts
        /\ runAt \in {"gadget", "Read", "check", "Clear", "Draw", "Show"}
        /\ m_bBusy \in BOOLEAN
    BY NPartsAssumption DEF DisplayInv, TypeOK
  <1>2. FramesToCome \in {0, 1, 2}
    BY DEF FramesToCome
  <1>3. FramesToCome = 0 => runAt \in {"Read", "check"} /\ prevState = buttons
    BY <1>1 DEF FramesToCome
  <1>4. runAt = "Draw" => drawn < NParts
    BY DEF DisplayInv, BufferInv
  <1>5. StepsToShow \in 1..(NParts + 5)
    BY <1>1, <1>4 DEF StepsToShow
  <1>6. runAt \in {"Clear", "Draw", "Show"} => ~m_bBusy
    BY DEF DisplayInv, TransferInv
  <1> QED
    BY <1>1, <1>2, <1>3, <1>5, <1>6

\* What is left, in the three cases.
LEMMA DisplayToGoIs ==
  /\ m_bBusy => DisplayToGo = FramesToCome * (2 * NParts + 6) + (NParts - sent + 1 + NParts + 5)
  /\ ~m_bBusy /\ FramesToCome = 0 => DisplayToGo = FramesToCome * (2 * NParts + 6) + 0
  /\ ~m_bBusy /\ FramesToCome # 0 =>
         DisplayToGo = FramesToCome * (2 * NParts + 6) + StepsToShow
  BY Zenon DEF DisplayToGo

\* It is a number, and 0 only at rest.
LEMMA DisplayBound ==
  ASSUME DisplayInv
  PROVE  /\ DisplayToGo \in 0..(6 * NParts + 18)
         /\ DisplayToGo = 0 <=> ~m_bBusy /\ FramesToCome = 0
  <1>1. PICK n \in Nat, f \in 0..2, s \in Nat, k \in Nat :
            /\ n = NParts /\ f = FramesToCome /\ s = sent /\ s <= n
            /\ k = StepsToShow /\ k >= 1 /\ k <= n + 5
    BY ToShowFacts
  <1>2. f * (2 * n + 6) \in {0, 2 * n + 6, 4 * n + 12} /\ (f = 0 <=> f * (2 * n + 6) = 0)
    BY <1>1
  <1>3. CASE m_bBusy
    <2>1. DisplayToGo = f * (2 * n + 6) + (n - s + 1 + n + 5)
      BY <1>1, <1>3, DisplayToGoIs
    <2> QED
      BY <1>1, <1>2, <1>3, <2>1
  <1>4. CASE ~m_bBusy /\ FramesToCome = 0
    <2>1. DisplayToGo = f * (2 * n + 6) + 0
      BY <1>1, <1>4, DisplayToGoIs
    <2> QED
      BY <1>1, <1>2, <1>4, <2>1
  <1>5. CASE ~m_bBusy /\ FramesToCome # 0
    <2>1. DisplayToGo = f * (2 * n + 6) + k
      BY <1>1, <1>5, DisplayToGoIs
    <2> QED
      BY <1>1, <1>2, <1>5, <2>1
  <1> QED
    BY <1>3, <1>4, <1>5

\* A frame less outweighs what its transfer takes.
LEMMA FrameOutweighs ==
  ASSUME NEW n \in Nat, NEW f \in 1..2
  PROVE  (f - 1) * (2 * n + 6) + (n - 0 + 1 + n + 5) < f * (2 * n + 6) + 1
  <1>1. f = 1 \/ f = 2
    OBVIOUS
  <1>2. f = 1 => f - 1 = 0
    OBVIOUS
  <1>3. f = 2 => f - 1 = 1
    OBVIOUS
  <1> QED
    BY <1>1, <1>2, <1>3

\* The transfer: a part, the end, a refusal.
LEMMA BusCounts ==
  ASSUME DisplayInv, DisplayInv', Transfer \/ Refuse
  PROVE  DisplayToGo' < DisplayToGo
  <1>1. m_bBusy /\ FramesToCome' = FramesToCome /\ StepsToShow' = StepsToShow
    BY DEF Transfer, SendPart, EndTransfer, Refuse, loopVars, FramesToCome, StepsToShow
  <1>2. PICK n \in Nat, g \in Nat, s \in Nat, k \in Nat :
            /\ n = NParts /\ g = FramesToCome * (2 * NParts + 6) /\ s = sent /\ s <= n
            /\ k = StepsToShow /\ k <= n + 5
    <2>1. FramesToCome * (2 * NParts + 6) \in Nat
      BY ToShowFacts
    <2> QED
      BY <2>1, ToShowFacts
  <1>3. DisplayToGo = g + (n - s + 1 + n + 5)
    BY <1>1, <1>2, DisplayToGoIs
  <1>4. CASE SendPart
    <2>1. m_bBusy' = m_bBusy /\ sent' = s + 1
      BY <1>2, <1>4 DEF SendPart
    <2>2. DisplayToGo' = g + (n - (s + 1) + 1 + n + 5)
      BY <1>1, <1>2, <2>1, ZenonT(60) DEF DisplayToGo
    <2> QED
      BY <1>2, <1>3, <2>2
  <1>5. CASE EndTransfer \/ Refuse
    <2>1. ~m_bBusy'
      BY <1>5 DEF EndTransfer, Refuse
    <2>2. DisplayToGo' \in {g + 0, g + k}
      BY <1>1, <1>2, <2>1, Zenon DEF DisplayToGo
    <2> QED
      BY <1>2, <1>3, <2>2
  <1> QED
    BY <1>4, <1>5 DEF Transfer

\* These ranges hold before a step and after it.
ToRestFacts ==
    /\ FramesToCome \in {0, 1, 2} /\ StepsToShow \in 1..(NParts + 5)
    /\ DisplayToGo \in 0..(6 * NParts + 18)

\* They follow from the invariant.
LEMMA ToRestHolds == DisplayInv => ToRestFacts
  BY ToShowFacts, DisplayBound DEF ToRestFacts

\* A step of the main loop before ShowAsync while no transfer runs: the frames to
\* come stay the same, and there is a step less to the next, if there is one.
LEMMA StepLess ==
  ASSUME DisplayInv, DisplayInv', ~m_bBusy, ~m_bBusy',
         FramesToCome' = FramesToCome,
         FramesToCome # 0 => StepsToShow' < StepsToShow
  PROVE  /\ DisplayToGo' <= DisplayToGo
         /\ FramesToCome # 0 => DisplayToGo' < DisplayToGo
  <1>1. PICK g \in Nat, k \in Nat :
            g = FramesToCome * (2 * NParts + 6) /\ k = StepsToShow
    <2>1. FramesToCome * (2 * NParts + 6) \in Nat /\ StepsToShow \in Nat
      BY ToShowFacts
    <2> QED
      BY <2>1
  <1>2. CASE FramesToCome = 0
    <2>1. DisplayToGo = g + 0 /\ DisplayToGo' = g + 0
      BY <1>1, <1>2, ZenonT(60) DEF DisplayToGo
    <2> QED
      BY <1>1, <1>2, <2>1
  <1>3. CASE FramesToCome # 0
    <2>1. StepsToShow' \in Nat
      <3>1. ToRestFacts'
        BY ToRestHolds, PTL
      <3> QED
        BY <3>1, NPartsAssumption DEF ToRestFacts
    <2>2. PICK j \in Nat : j = StepsToShow' /\ j < k
      BY <1>1, <1>3, <2>1
    <2>3. DisplayToGo = g + k /\ DisplayToGo' = g + j
      BY <1>1, <1>3, <2>2, ZenonT(60) DEF DisplayToGo
    <2> QED
      BY <1>1, <2>2, <2>3
  <1> QED
    BY <1>2, <1>3

\* Products of numbers are numbers.
LEMMA ProductNat ==
  ASSUME NEW m \in Nat, NEW k \in Nat
  PROVE  m * k \in Nat
  OBVIOUS

\* The main loop: the state it reads is that of the buttons, a frame it begins
\* to send is one less to come, and a poll during a transfer adds nothing.
LEMMA RunCounts ==
  ASSUME DisplayInv, DisplayInv', Run
  PROVE  /\ DisplayToGo' <= DisplayToGo
         /\ ~m_bBusy /\ DisplayToGo # 0 => DisplayToGo' < DisplayToGo
  <1>1. /\ NParts \in Nat \ {0} /\ drawn \in 0..NParts
        /\ runAt \in {"Clear", "Draw", "Show"} => ~m_bBusy
        /\ DisplayToGo # 0 /\ ~m_bBusy => FramesToCome # 0
    BY ToShowFacts, DisplayBound
  <1>2. buttons' = buttons
    BY DEF Run, Loop, InitializeGadget, Read, CheckChange, ClearFrame, DrawPart, Show
  <1>3. CASE InitializeGadget
    <2>1. /\ runAt = "gadget" /\ runAt' = "Clear" /\ state' = state
          /\ ~m_bBusy /\ m_bBusy' = m_bBusy
      BY <1>3 DEF InitializeGadget, Loop, busVars
    <2>2. FramesToCome' = FramesToCome
      BY <1>2, <2>1 DEF FramesToCome
    <2>3. StepsToShow' < StepsToShow
      BY <1>1, <2>1 DEF StepsToShow
    <2> QED
      BY <1>1, <2>1, <2>2, <2>3, StepLess
  <1>4. CASE Read /\ ~m_bBusy
    <2>1. /\ runAt = "Read" /\ runAt' = "check" /\ state' = buttons
          /\ prevState' = prevState /\ m_bBusy' = m_bBusy
      BY <1>4 DEF Read, Loop, busVars
    <2>2. FramesToCome' = FramesToCome
      BY <1>2, <2>1 DEF FramesToCome
    <2>3. FramesToCome # 0 => StepsToShow' < StepsToShow
      <3>1. FramesToCome # 0 => prevState # buttons
        BY <2>1 DEF FramesToCome
      <3> QED
        BY <1>1, <2>1, <3>1 DEF StepsToShow
    <2> QED
      BY <1>1, <1>4, <2>1, <2>2, <2>3, StepLess
  <1>5. CASE CheckChange /\ ~m_bBusy
    <2>1. /\ runAt = "check"
          /\ runAt' = IF state # prevState THEN "Clear" ELSE "Read"
          /\ state' = state /\ prevState' = prevState /\ m_bBusy' = m_bBusy
      BY <1>5 DEF CheckChange, Loop, ShowDone, busVars
    <2>2. CASE state # prevState
      <3>1. FramesToCome' = FramesToCome
        BY <1>2, <2>1, <2>2 DEF FramesToCome
      <3>2. StepsToShow' < StepsToShow
        BY <1>1, <2>1, <2>2 DEF StepsToShow
      <3> QED
        BY <1>1, <1>5, <2>1, <3>1, <3>2, StepLess
    <2>3. CASE state = prevState
      <3>1. FramesToCome' = FramesToCome
        BY <1>2, <2>1, <2>3 DEF FramesToCome
      <3>2. StepsToShow' < StepsToShow
        BY <1>1, <2>1, <2>3 DEF StepsToShow
      <3> QED
        BY <1>1, <1>5, <2>1, <3>1, <3>2, StepLess
    <2> QED
      BY <2>2, <2>3
  <1>6. CASE ClearFrame
    <2>1. /\ runAt = "Clear" /\ runAt' = "Draw" /\ state' = state /\ drawn' = 0
          /\ m_bBusy' = m_bBusy
      BY <1>6 DEF ClearFrame, Loop, busVars
    <2>2. FramesToCome' = FramesToCome
      BY <1>2, <2>1 DEF FramesToCome
    <2>3. StepsToShow' < StepsToShow
      BY <1>1, <2>1 DEF StepsToShow
    <2> QED
      BY <1>1, <2>1, <2>2, <2>3, StepLess
  <1>7. CASE DrawPart
    <2>1. /\ runAt = "Draw" /\ runAt' = (IF LastPart THEN "Show" ELSE "Draw")
          /\ state' = state /\ drawn' = drawn + 1 /\ m_bBusy' = m_bBusy
      BY <1>7 DEF DrawPart, Loop, busVars
    <2>2. FramesToCome' = FramesToCome
      BY <1>2, <2>1 DEF FramesToCome
    <2>3. drawn < NParts
      BY <2>1 DEF DisplayInv, BufferInv
    <2>4. StepsToShow' < StepsToShow
      <3>1. StepsToShow = NParts - drawn + 1
        BY <2>1 DEF StepsToShow
      <3>2. StepsToShow' = IF LastPart THEN 1 ELSE NParts - (drawn + 1) + 1
        BY <2>1 DEF StepsToShow
      <3> QED
        BY <1>1, <2>3, <3>1, <3>2
    <2> QED
      BY <1>1, <2>1, <2>2, <2>4, StepLess
  <1>8. CASE Show
    <2>1. /\ runAt = "Show" /\ runAt' = "Read" /\ state' = state /\ prevState' = state
          /\ ~m_bBusy /\ m_bBusy' /\ sent' = 0
      BY <1>1, <1>8 DEF Show, Loop, PreviousState
    <2>2. PICK n \in Nat, f \in 1..2 : n = NParts /\ f = FramesToCome /\ FramesToCome' = f - 1
      <3>1. CASE state = buttons
        <4>1. FramesToCome = 1 /\ FramesToCome' = 0
          BY <1>2, <2>1, <3>1 DEF FramesToCome
        <4> QED
          BY <1>1, <4>1
      <3>2. CASE state # buttons
        <4>1. FramesToCome = 2 /\ FramesToCome' = 1
          BY <1>2, <2>1, <3>2 DEF FramesToCome
        <4> QED
          BY <1>1, <4>1
      <3> QED
        BY <3>1, <3>2
    <2>3. StepsToShow = 1 /\ FramesToCome # 0
      BY <2>1, <2>2 DEF StepsToShow
    <2>4. DisplayToGo = f * (2 * n + 6) + 1
      BY <2>1, <2>2, <2>3, DisplayToGoIs
    <2>5. DisplayToGo' = (f - 1) * (2 * n + 6) + (n - 0 + 1 + n + 5)
      BY <2>1, <2>2, ZenonT(60) DEF DisplayToGo
    <2> QED
      BY <2>2, <2>4, <2>5, FrameOutweighs
  <1>9. CASE m_bBusy /\ (Read \/ CheckChange)
    <2>1. /\ prevState' = prevState /\ m_bBusy' /\ sent' = sent
          /\ \/ runAt = "Read" /\ runAt' = "check" /\ state' = buttons
             \/ runAt = "check" /\ runAt' = "Read" /\ state' = state
      BY <1>9, ZenonT(60) DEF Read, CheckChange, Loop, ShowDone, busVars
    <2>2. FramesToCome' <= FramesToCome /\ FramesToCome \in Nat /\ FramesToCome' \in Nat
      <3>1. CASE runAt = "check" /\ state # prevState /\ state # buttons
        <4>1. FramesToCome = 2
          BY <3>1 DEF FramesToCome
        <4>2. FramesToCome' \in {0, 1}
          BY <2>1, <3>1 DEF FramesToCome
        <4> QED
          BY <4>1, <4>2
      <3>2. CASE ~(runAt = "check" /\ state # prevState /\ state # buttons)
        <4>1. FramesToCome' = FramesToCome
          BY <1>2, <2>1, <3>2 DEF FramesToCome
        <4>2. FramesToCome \in {0, 1, 2}
          BY ToShowFacts
        <4> QED
          BY <4>1, <4>2
      <3> QED
        BY <3>1, <3>2
    <2>3. PICK w \in Nat, t \in Nat, f \in Nat, h \in Nat :
              /\ w = 2 * NParts + 6 /\ t = NParts - sent + 1 + NParts + 5
              /\ f = FramesToCome /\ h = FramesToCome' /\ h <= f
      <3>1. NParts - sent + 1 + NParts + 5 \in Nat /\ 2 * NParts + 6 \in Nat
        BY ToShowFacts
      <3> QED
        BY <2>2, <3>1
    <2>4. h * w <= f * w /\ h * w \in Nat /\ f * w \in Nat
      BY <2>3, ProductMono, ProductNat
    <2>5. DisplayToGo = f * w + t /\ DisplayToGo' = h * w + t
      BY <1>9, <2>1, <2>3, ZenonT(60) DEF DisplayToGo
    <2>6. PICK a \in Nat, b \in Nat : a = h * w /\ b = f * w /\ a <= b
      BY <2>4
    <2> QED
      BY <1>9, <2>3, <2>5, <2>6
  <1>10. m_bBusy => Read \/ CheckChange
    BY <1>1 DEF Run, InitializeGadget, ClearFrame, DrawPart, Show, Loop
  <1> QED
    BY <1>3, <1>4, <1>5, <1>6, <1>7, <1>8, <1>9, <1>10 DEF Run

\* Every place on the screen is that of some part.
LEMMA EveryPlace ==
  ASSUME NEW q \in Parts, NEW shift \in 0..NParts - 1
  PROVE  \E p \in Parts : q = Place(p, shift)
  <1>1. PICK n \in Nat \ {0}, s \in Nat : n = NParts /\ s = shift /\ s <= n - 1
    BY NPartsAssumption
  <1>2. q \in 1..n /\ Parts = 1..n
    BY <1>1 DEF Parts
  <1>3. (n * 0 + (q - 1)) % n = q - 1 /\ (n * 1 + (q - 1)) % n = q - 1
    <2>1. q - 1 \in 0..n - 1
      BY <1>1, <1>2
    <2> QED
      BY <1>1, <2>1, RemainderOf
  <1>4. CASE q > s
    <2>1. q - s \in 1..n /\ (q - s) - 1 + s = n * 0 + (q - 1)
      BY <1>1, <1>2, <1>4
    <2>2. Place(q - s, shift) = ((n * 0 + (q - 1)) % n) + 1
      BY <1>1, <2>1 DEF Place
    <2>3. Place(q - s, shift) = q
      BY <1>1, <1>2, <1>3, <2>2
    <2> QED
      BY <1>2, <2>1, <2>3
  <1>5. CASE q <= s
    <2>1. q - s + n \in 1..n /\ (q - s + n) - 1 + s = n * 1 + (q - 1)
      BY <1>1, <1>2, <1>5
    <2>2. Place(q - s + n, shift) = ((n * 1 + (q - 1)) % n) + 1
      BY <1>1, <2>1 DEF Place
    <2>3. Place(q - s + n, shift) = q
      BY <1>1, <1>2, <1>3, <2>2
    <2> QED
      BY <1>2, <2>1, <2>3
  <1> QED
    BY <1>1, <1>2, <1>4, <1>5

\* While the player keeps still, no step takes the display further from rest,
\* and every step of a transfer, and of the main loop without one, brings it
\* nearer, within a number of steps linear in the size of a frame: no round of
\* the main loop draws for ever.
THEOREM EveryStepBringsTheDisplayNearer ==
  DisplaySpec =>
      /\ [](DisplayToGo \in 0..(6 * NParts + 18))
      /\ [][Run \/ Transfer \/ Refuse => DisplayToGo' <= DisplayToGo]_displayVars
      /\ [][\/ Transfer \/ Refuse
            \/ Run /\ ~m_bBusy /\ DisplayToGo # 0
            => DisplayToGo' < DisplayToGo]_displayVars
  <1>1. DisplayInv => DisplayToGo \in 0..(6 * NParts + 18)
    BY DisplayBound
  <1>2. ASSUME DisplayInv, DisplayInv', [DisplayNext]_displayVars
        PROVE  /\ [Run \/ Transfer \/ Refuse => DisplayToGo' <= DisplayToGo]_displayVars
               /\ [\/ Transfer \/ Refuse
                   \/ Run /\ ~m_bBusy /\ DisplayToGo # 0
                   => DisplayToGo' < DisplayToGo]_displayVars
    <2>1. Transfer \/ Refuse => DisplayToGo' < DisplayToGo
      BY <1>2, BusCounts
    <2>2. Run => /\ DisplayToGo' <= DisplayToGo
                 /\ ~m_bBusy /\ DisplayToGo # 0 => DisplayToGo' < DisplayToGo
      BY <1>2, RunCounts
    <2>3. DisplayToGo \in Int /\ DisplayToGo' \in Int
      <3>1. ToRestFacts /\ ToRestFacts'
        BY <1>2, ToRestHolds, PTL
      <3> QED
        BY <3>1, NPartsAssumption DEF ToRestFacts
    <2>4. DisplayToGo' < DisplayToGo => DisplayToGo' <= DisplayToGo
      BY <2>3
    <2> QED
      BY <2>1, <2>2, <2>4
  <1> QED
    BY <1>1, <1>2, DisplayInvHolds, PTL DEF DisplaySpec

\* A display at rest, which it leaves only when the player presses or releases
\* something, shows the pressed buttons, unless it has refused the last frame.
THEOREM AtRestTheDisplayIsRight ==
  DisplaySpec =>
      /\ [](DisplayToGo = 0 => refused \/ ScreenShows(buttons))
      /\ [][DisplayToGo = 0 /\ buttons' = buttons => DisplayToGo' = 0]_displayVars
  <1>1. DisplayInv /\ AcceptedFrameIsOneDrawing =>
            (DisplayToGo = 0 => refused \/ ScreenShows(buttons))
    <2> SUFFICES ASSUME DisplayInv, AcceptedFrameIsOneDrawing, DisplayToGo = 0, ~refused,
                        NEW q \in Parts
                 PROVE  screen[q][1] = buttons
      BY DEF ScreenShows
    <2>1. ~m_bBusy /\ runAt \in {"Read", "check"} /\ prevState = buttons
      BY DisplayBound, ToShowFacts
    <2>2. PICK shift \in Shifts :
              \A p \in Parts : screen[Place(p, shift)] = <<prevState, p>>
      BY <2>1 DEF AcceptedFrameIsOneDrawing
    <2>3. PICK p \in Parts : q = Place(p, shift)
      BY <2>2, ShiftFacts, EveryPlace
    <2>4. screen[q] = <<buttons, p>>
      BY <2>1, <2>2, <2>3
    <2> QED
      BY <2>4
  <1>2. ASSUME DisplayInv, DisplayInv', [DisplayNext]_displayVars
        PROVE  [DisplayToGo = 0 /\ buttons' = buttons => DisplayToGo' = 0]_displayVars
    <2> SUFFICES ASSUME DisplayToGo = 0, buttons' = buttons, DisplayNext
                 PROVE  DisplayToGo' = 0
      BY <1>2
    <2>1. ToRestFacts'
      BY <1>2, ToRestHolds, PTL
    <2>2. DisplayToGo' \in Nat
      BY <2>1, NPartsAssumption DEF ToRestFacts
    <2>3. CASE Transfer \/ Refuse
      BY <1>2, <2>2, <2>3, BusCounts
    <2>4. CASE Run
      BY <1>2, <2>2, <2>4, RunCounts
    <2>5. CASE Press
      <3>1. /\ runAt' = runAt /\ state' = state /\ prevState' = prevState /\ drawn' = drawn
            /\ m_bBusy' = m_bBusy /\ sent' = sent
        BY <2>5 DEF Press, loopVars, busVars
      <3>2. FramesToCome' = FramesToCome /\ StepsToShow' = StepsToShow
        BY <3>1 DEF FramesToCome, StepsToShow
      <3>3. DisplayToGo' = DisplayToGo
        BY <3>1, <3>2, Zenon DEF DisplayToGo
      <3> QED
        BY <3>3
    <2> QED
      BY <2>3, <2>4, <2>5 DEF DisplayNext
  <1> QED
    BY <1>1, <1>2, DisplayInvHolds, AcceptedFrameIsOneDrawingHolds, PTL DEF DisplaySpec
=============================================================================
