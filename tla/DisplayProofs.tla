---------------------------- MODULE DisplayProofs ---------------------------
(***************************************************************************)
(* For a screen and pictures of any size, a mouse of any resolution and    *)
(* text anywhere on the screen: where the cursor can be, that it leaves no *)
(* trail, and that the lines of text do not destroy one another.           *)
(***************************************************************************)
EXTENDS Display, TLAPS

(* Arithmetic of the screen.                                                 *)

LEMMA DivMonotone ==
  ASSUME NEW a \in Nat, NEW b \in Nat, NEW u \in Nat \ {0}, a <= b
  PROVE  a \div u \in Nat /\ a \div u <= b \div u
<1>1. a \div u \in Nat /\ b \div u \in Nat
  BY SMT
<1>2. u * (a \div u) <= a /\ b < u * (b \div u) + u
  BY SMT
<1>3. ASSUME a \div u > b \div u PROVE FALSE
  <2> DEFINE q == a \div u
  <2> DEFINE r == b \div u
  <2>1. q \in Nat /\ r \in Nat /\ q >= r + 1
    BY <1>1, <1>3
  <2>2. u * q <= a /\ b < u * r + u
    BY <1>2
  <2> HIDE DEF q, r
  <2>3. u * q >= u * (r + 1)
    BY <2>1, SMT
  <2>4. u * (r + 1) = u * r + u
    BY <2>1, SMT
  <2> QED
    BY <2>1, <2>2, <2>3, <2>4, SMT
<1> QED
  BY <1>1, <1>3

\* A movement takes the cursor at most WRAP \div UNIT pixels, either way.
LEMMA MovementBound ==
  ASSUME NEW byte \in MouseBytes, NEW sign \in SignBits
  PROVE  /\ movement(byte, sign) \in Int
         /\ movement(byte, sign) <= WRAP \div UNIT
         /\ -movement(byte, sign) <= WRAP \div UNIT
<1>1. byte \in 0 .. WRAP - 1 /\ sign \in {0, 1} /\ WRAP \in Nat /\ UNIT \in Nat \ {0}
  BY DisplayAssumption
<1>2. WRAP \div UNIT \in Nat
  BY <1>1, DivMonotone
<1>3. CASE sign = 0
  <2>1. movement(byte, sign) = byte \div UNIT
    BY <1>1, <1>3 DEF movement, Div
  <2>2. byte \div UNIT \in Nat /\ byte \div UNIT <= WRAP \div UNIT
    BY <1>1, DivMonotone
  <2> QED
    BY <1>2, <2>1, <2>2
<1>4. CASE sign = 1
  <2>1. byte - sign * WRAP = byte - WRAP /\ ~(byte - WRAP >= 0)
    BY <1>1, <1>4
  <2>2. -(byte - WRAP) = WRAP - byte
    BY <1>1
  <2>3. movement(byte, sign) = -((WRAP - byte) \div UNIT)
    BY <2>1, <2>2 DEF movement, Div
  <2>4. (WRAP - byte) \div UNIT \in Nat /\ (WRAP - byte) \div UNIT <= WRAP \div UNIT
    BY <1>1, DivMonotone
  <2> QED
    BY <1>2, <2>3, <2>4
<1> QED
  BY <1>1, <1>3, <1>4

\* Only the old coordinate is compared to the edge; the new one is beyond it by
\* less than what one movement can add.
LEMMA ClampBound ==
  ASSUME NEW old \in Nat, NEW new \in Int, NEW edge \in Nat \ {0}, NEW far \in Nat,
         old < edge + far, new <= old + far
  PROVE  /\ Clamp(old, new, edge) \in Nat
         /\ Clamp(old, new, edge) < edge + far
BY DEF Clamp

-----------------------------------------------------------------------------
(* Types, and where the cursor can be.                                       *)

Pictures == {Black, Cursor, Click, Letter} \cup 0 .. PHILS - 1

LEMMA DrawTypes ==
  ASSUME fb \in [Pixels -> Pictures], NEW area, NEW picture \in Pictures
  PROVE  Draw(area, picture) \in [Pixels -> Pictures]
BY DEF Draw

CursorBounded == TypeOK /\ NearScreen

LEMMA CursorInit == Init => CursorBounded
<1> SUFFICES ASSUME Init PROVE CursorBounded
  OBVIOUS
<1>1. WRAP \div UNIT \in Nat
  BY DisplayAssumption, DivMonotone
<1>2. fb \in [Pixels -> {Black, Cursor, Click, Letter} \cup 0 .. PHILS - 1]
  BY DEF Init
<1> QED
  BY <1>1, <1>2, DisplayAssumption DEF Init, CursorBounded, TypeOK, NearScreen

LEMMA CursorStep == CursorBounded /\ [Next]_vars => CursorBounded'
<1> SUFFICES ASSUME CursorBounded, [Next]_vars PROVE CursorBounded'
  OBVIOUS
<1>0. /\ fb \in [Pixels -> Pictures]
      /\ cursorX \in Nat /\ cursorY \in Nat /\ nbytes \in 0 .. 2
      /\ offsetLettersY \in 0 .. PHILS
      /\ cursorX < COLS + WRAP \div UNIT /\ cursorY < ROWS + WRAP \div UNIT
  BY DEF CursorBounded, TypeOK, NearScreen, Pictures
<1>a. WRAP \div UNIT \in Nat /\ COLS \in Nat \ {0} /\ ROWS \in Nat \ {0} /\ PHILS \in Nat
  BY DisplayAssumption, DivMonotone
<1>b. {Black, Cursor, Click, Letter} \subseteq Pictures
  BY DEF Pictures
<1>c. ASSUME NEW edge \in Nat \ {0}, NEW old \in Nat, NEW x \in MouseBytes, NEW s \in SignBits,
             NEW new \in Int, new = old + movement(x, s) \/ new = old - movement(x, s),
             old < edge + WRAP \div UNIT
      PROVE  Clamp(old, new, edge) \in Nat /\ Clamp(old, new, edge) < edge + WRAP \div UNIT
  <2>1. new <= old + WRAP \div UNIT
    BY <1>a, <1>c, MovementBound
  <2> QED
    BY <1>a, <1>c, <2>1, ClampBound
<1>d. clearCursor \in [Pixels -> Pictures]
  BY <1>0, <1>b, DrawTypes DEF clearCursor
<1>1. CASE Mouse
  <2>1. nbytes' \in 0 .. 2 /\ offsetLettersY' = offsetLettersY
    BY <1>0, <1>1 DEF Mouse, NextByte
  <2>2. fb' \in [Pixels -> Pictures]
    <3>1. CASE Byte1
      BY <1>0, <1>b, <1>d, <3>1, DrawTypes DEF Byte1
    <3>2. CASE Byte2
      BY <1>d, <3>2 DEF Byte2
    <3>3. CASE Byte3
      BY <1>b, <1>d, <3>3 DEF Byte3
    <3> QED
      BY <1>1, <3>1, <3>2, <3>3 DEF Mouse
  <2>3. cursorX' \in Nat /\ cursorX' < COLS + WRAP \div UNIT
    <3>1. CASE cursorX' = cursorX
      BY <1>0, <3>1
    <3>2. CASE Byte2
      <4>1. PICK x \in MouseBytes, s \in SignBits :
              cursorX' = Clamp(cursorX, cursorX + movement(x, s), COLS)
        BY <3>2 DEF Byte2
      <4>2. cursorX + movement(x, s) \in Int
        BY <1>0, MovementBound
      <4> QED
        BY <1>0, <1>a, <1>c, <4>1, <4>2
    <3> QED
      BY <1>1, <3>1, <3>2 DEF Mouse, Byte1, Byte3
  <2>4. cursorY' \in Nat /\ cursorY' < ROWS + WRAP \div UNIT
    <3>1. CASE cursorY' = cursorY
      BY <1>0, <3>1
    <3>2. CASE Byte3
      <4>1. PICK x \in MouseBytes, s \in SignBits :
              cursorY' = Clamp(cursorY, cursorY - movement(x, s), ROWS)
        BY <3>2 DEF Byte3
      <4>2. cursorY - movement(x, s) \in Int
        BY <1>0, MovementBound
      <4> QED
        BY <1>0, <1>a, <1>c, <4>1, <4>2
    <3> QED
      BY <1>1, <3>1, <3>2 DEF Mouse, Byte1, Byte2
  <2> QED
    BY <1>0, <2>1, <2>2, <2>3, <2>4 DEF CursorBounded, TypeOK, NearScreen, Pictures
<1>2. CASE Keyboard
  <2>1. fb' \in [Pixels -> Pictures]
    BY <1>0, <1>2, <1>b, DrawTypes DEF Keyboard, resetImage
  <2> QED
    BY <1>0, <1>2, <2>1 DEF Keyboard, CursorBounded, TypeOK, NearScreen, Pictures
<1>3. CASE showphil
  <2>1. offsetLettersY \in Pictures /\ offsetLettersY' \in 0 .. PHILS
    BY <1>0, <1>3, <1>a DEF showphil, Pictures
  <2>2. fb' \in [Pixels -> Pictures]
    BY <1>0, <1>3, <2>1, DrawTypes DEF showphil
  <2> QED
    BY <1>0, <1>3, <2>1, <2>2 DEF showphil, CursorBounded, TypeOK, NearScreen, Pictures
<1>4. CASE UNCHANGED vars
  BY <1>0, <1>4 DEF vars, CursorBounded, TypeOK, NearScreen, Pictures
<1> QED
  BY <1>1, <1>2, <1>3, <1>4 DEF Next

LEMMA CursorHolds == Spec => []CursorBounded
BY CursorInit, CursorStep, PTL DEF Spec

\* The frame buffer, the cursor and the counters keep their types.
THEOREM TypeCorrect == Spec => []TypeOK
BY CursorHolds, PTL DEF CursorBounded

\* The cursor gets beyond the right and the lower edge by less than one movement.
THEOREM NearScreenHolds == Spec => []NearScreen
BY CursorHolds, PTL DEF CursorBounded

-----------------------------------------------------------------------------
(* No trail.                                                                 *)

\* Between the second and the third byte, when column and row are not of the same
\* packet, there is no cursor on the screen at all.
HiddenWhileMoving == nbytes = 2 => \A p \in Pixels : fb[p] \notin {Cursor, Click}

Trail == TypeOK /\ NoTrail /\ HiddenWhileMoving

LEMMA DrawValue ==
  ASSUME NEW area, NEW picture, NEW p \in Pixels
  PROVE  Draw(area, picture)[p] = IF p \in area THEN picture ELSE fb[p]
BY DEF Draw

LEMMA TrailStep ==
  ASSUME Trail, TypeOK', [Next]_vars
  PROVE  NoTrail' /\ HiddenWhileMoving'
<1> DEFINE Shown(picture) == picture \in {Cursor, Click}
<1> DEFINE Here == CursorArea(cursorY, cursorX)
<1>0. \A p \in Pixels : Shown(fb[p]) => p \in Here
  BY DEF Trail, NoTrail
<1>1. \A p \in Pixels : ~Shown(clearCursor[p])
  BY <1>0, DrawValue DEF clearCursor, Black, Cursor, Click
<1>2. CASE Byte1 /\ Mouse
  <2>1. nbytes' = 1 /\ UNCHANGED << cursorX, cursorY >>
    BY <1>2 DEF Byte1, Mouse, NextByte
  <2>2. CASE fb' = clearCursor
    BY <1>1, <2>1, <2>2 DEF NoTrail, HiddenWhileMoving
  <2>3. CASE fb' = Draw(Here, Click)
    <3>1. \A p \in Pixels : fb'[p] = IF p \in Here THEN Click ELSE fb[p]
      BY <2>3, DrawValue
    <3>2. \A p \in Pixels : Shown(fb'[p]) => p \in Here
      BY <1>0, <3>1
    <3> QED
      BY <2>1, <3>2 DEF NoTrail, HiddenWhileMoving
  <2> QED
    BY <1>2, <2>2, <2>3 DEF Byte1
<1>3. CASE Byte2 /\ Mouse
  BY <1>1, <1>3 DEF Byte2, NoTrail, HiddenWhileMoving
<1>4. CASE Byte3 /\ Mouse
  <2>1. nbytes' = 0
    BY <1>4 DEF Byte3, Mouse, NextByte
  <2>2. \A p \in Pixels : fb'[p] = IF p \in CursorArea(cursorY', cursorX') THEN Cursor
                                   ELSE clearCursor[p]
    BY <1>4 DEF Byte3
  <2>3. \A p \in Pixels : Shown(fb'[p]) => p \in CursorArea(cursorY', cursorX')
    BY <1>1, <2>2
  <2> QED
    BY <2>1, <2>3 DEF NoTrail, HiddenWhileMoving
\* The others draw no cursor.
<1>5. ASSUME UNCHANGED << cursorX, cursorY, nbytes >>,
             \A p \in Pixels : Shown(fb'[p]) => Shown(fb[p])
      PROVE  NoTrail' /\ HiddenWhileMoving'
  <2>1. CursorArea(cursorY, cursorX)' = CursorArea(cursorY, cursorX)
    BY <1>5
  <2> QED
    BY <1>0, <1>5, <2>1 DEF Trail, NoTrail, HiddenWhileMoving
<1>6. CASE Keyboard
  <2>1. \A p \in Pixels : Shown(fb'[p]) => Shown(fb[p])
    BY <1>6, DrawValue DEF Keyboard, resetImage, Black, Letter, Cursor, Click
  <2> QED
    BY <1>5, <1>6, <2>1 DEF Keyboard
<1>7. CASE showphil
  <2>1. ~Shown(offsetLettersY)
    BY DisplayAssumption DEF Trail, TypeOK, Cursor, Click
  <2>2. \A p \in Pixels : Shown(fb'[p]) => Shown(fb[p])
    BY <1>7, <2>1, DrawValue DEF showphil
  <2> QED
    BY <1>5, <1>7, <2>2 DEF showphil
<1>8. CASE UNCHANGED vars
  BY <1>5, <1>8 DEF vars
<1> QED
  BY <1>2, <1>3, <1>4, <1>6, <1>7, <1>8 DEF Next, Mouse

\* However keys, text and the three bytes of a packet interleave, no part of a
\* cursor or of a click stays where the cursor is not.
THEOREM NoTrailHolds == Spec => []NoTrail
<1>1. Init => NoTrail /\ HiddenWhileMoving
  BY DEF Init, NoTrail, HiddenWhileMoving, Black, Cursor, Click
<1>2. Trail /\ [Next]_vars /\ TypeOK' => Trail'
  BY TrailStep DEF Trail
<1> QED
  BY <1>1, <1>2, TypeCorrect, PTL DEF Spec, Trail

-----------------------------------------------------------------------------
(* Lines of text.                                                            *)

\* A pixel belongs to one row.
LEMMA RowsApart ==
  ASSUME NEW y \in Nat, NEW z \in Nat, NEW a \in Nat, NEW b \in Nat, y < z, a < COLS
  PROVE  Pixel(y, a) < Pixel(z, b)
<1>1. COLS \in Nat
  BY DisplayAssumption
<1>2. (y + 1) * COLS <= z * COLS
  BY <1>1, SMT
<1>3. (y + 1) * COLS = y * COLS + COLS
  BY <1>1, SMT
<1>4. y * COLS \in Nat /\ z * COLS \in Nat
  BY <1>1, SMT
<1> QED
  BY <1>1, <1>2, <1>3, <1>4, SMT DEF Pixel

\* The rows of line k are above those of line n.
LEMMA LinesInOrder ==
  ASSUME NEW k \in Nat, NEW n \in Nat, k < n
  PROVE  k * SIZE \in Nat /\ n * SIZE \in Nat /\ k * SIZE + SIZE <= n * SIZE
<1>1. SIZE \in Nat
  BY DisplayAssumption
<1>2. (k + 1) * SIZE <= n * SIZE
  BY <1>1, SMT
<1>3. (k + 1) * SIZE = k * SIZE + SIZE
  BY <1>1, SMT
<1>4. k * SIZE \in Nat /\ n * SIZE \in Nat
  BY <1>1, SMT
<1> QED
  BY <1>2, <1>3, <1>4

\* The rows of line k without the one too many.
TextArea(k) == Area(TextY + k * SIZE, TextX, SIZE, LETTERS * SIZE)

\* The row too many of a line is not above the next line.
LEMMA LineBelow ==
  ASSUME NEW k \in Nat, NEW n \in Nat, k < n
  PROVE  TextArea(k) \cap LineArea(n) = {}
<1> SUFFICES ASSUME NEW p \in TextArea(k) \cap LineArea(n) PROVE FALSE
  OBVIOUS
<1>1. SIZE \in Nat \ {0} /\ COLS \in Nat /\ TextX \in Nat /\ TextY \in Nat /\ LETTERS \in Nat
  BY DisplayAssumption
<1>2. LETTERS * SIZE \in Nat
  BY <1>1, SMT
<1>3. PICK i \in 0 .. SIZE - 1, j \in 0 .. LETTERS * SIZE - 1 :
        p = Pixel(TextY + k * SIZE + i, TextX + j)
  BY DEF TextArea, Area
<1>4. PICK u \in 0 .. (SIZE + 1) - 1, v \in 0 .. LETTERS * SIZE - 1 :
        p = Pixel(TextY + n * SIZE + u, TextX + v)
  BY DEF LineArea, Area
<1> DEFINE y == TextY + k * SIZE + i
<1> DEFINE z == TextY + n * SIZE + u
<1>5. y \in Nat /\ z \in Nat /\ y < z
  BY <1>1, LinesInOrder
<1>6. TextX + j \in Nat /\ TextX + v \in Nat /\ TextX + j < COLS
  BY <1>1, <1>2, TextAssumption
<1> HIDE DEF y, z
<1>7. Pixel(y, TextX + j) < Pixel(z, TextX + v)
  BY <1>5, <1>6, RowsApart
<1>8. Pixel(y, TextX + j) \in Int
  BY <1>1, <1>5, <1>6, SMT DEF Pixel
<1> QED
  BY <1>3, <1>4, <1>7, <1>8 DEF y, z

\* The text is in the frame buffer.
LEMMA TextOnScreen ==
  ASSUME NEW k \in 0 .. PHILS - 1
  PROVE  TextArea(k) \subseteq Pixels \cap LineArea(k)
<1> SUFFICES ASSUME NEW p \in TextArea(k) PROVE p \in Pixels /\ p \in LineArea(k)
  OBVIOUS
<1>1. /\ SIZE \in Nat \ {0} /\ COLS \in Nat \ {0} /\ TextX \in Nat /\ TextY \in Nat
      /\ LETTERS \in Nat /\ PHILS \in Nat /\ ROWS \in Nat /\ WRAP \div UNIT \in Nat
  BY DisplayAssumption, DivMonotone
<1>2. LETTERS * SIZE \in Nat
  BY <1>1, SMT
<1>3. PICK i \in 0 .. SIZE - 1, j \in 0 .. LETTERS * SIZE - 1 :
        p = Pixel(TextY + k * SIZE + i, TextX + j)
  BY DEF TextArea, Area
<1>4. p \in LineArea(k)
  <2>1. i \in 0 .. (SIZE + 1) - 1
    BY <1>1
  <2> QED
    BY <1>3, <2>1 DEF LineArea, Area
<1> DEFINE y == TextY + k * SIZE + i
<1> DEFINE z == ROWS + (WRAP \div UNIT) + SIZE
<1>5. y \in Nat /\ z \in Nat /\ y < z
  <2>1. k * SIZE \in Nat /\ k * SIZE + SIZE <= PHILS * SIZE
    BY <1>1, LinesInOrder
  <2> QED
    BY <1>1, <2>1, TextAssumption
<1>6. TextX + j \in Nat /\ TextX + j < COLS
  BY <1>1, <1>2, TextAssumption
<1> HIDE DEF y, z
<1>7. Pixel(y, TextX + j) < Pixel(z, COLS)
  BY <1>1, <1>5, <1>6, RowsApart
<1>8. Pixel(y, TextX + j) \in Nat /\ Pixel(z, COLS) \in Nat
  BY <1>1, <1>5, <1>6, SMT DEF Pixel
<1>9. p \in 0 .. Pixel(z, COLS)
  BY <1>3, <1>7, <1>8 DEF y
<1> QED
  BY <1>4, <1>9 DEF Pixels, z

LEMMA LinesStep ==
  ASSUME TypeOK, LinesApart, [Next]_vars
  PROVE  LinesApart'
<1>0. PHILS \in Nat /\ offsetLettersY \in 0 .. PHILS
  BY DisplayAssumption DEF TypeOK
<1>a. \A k \in 0 .. offsetLettersY - 1 : \A p \in TextArea(k) :
        p \in Pixels /\ fb[p] \in {k} \cup -4 .. -1
  BY <1>0, TextOnScreen DEF LinesApart, TextArea
\* Whatever is no text may be drawn anywhere.
<1>1. ASSUME offsetLettersY' = offsetLettersY,
             \A p \in Pixels : fb'[p] = fb[p] \/ fb'[p] \in -4 .. -1
      PROVE  LinesApart'
  BY <1>1, <1>a DEF LinesApart, TextArea
<1>b. \A p \in Pixels : clearCursor[p] = fb[p] \/ clearCursor[p] \in -4 .. -1
  BY DrawValue DEF clearCursor, Black
<1>2. CASE Mouse
  <2>1. \A p \in Pixels : fb'[p] = fb[p] \/ fb'[p] \in -4 .. -1
    <3>1. CASE Byte1
      BY <1>b, <3>1, DrawValue DEF Byte1, Click
    <3>2. CASE Byte2
      BY <1>b, <3>2 DEF Byte2
    <3>3. CASE Byte3
      BY <1>b, <3>3 DEF Byte3, Cursor
    <3> QED
      BY <1>2, <3>1, <3>2, <3>3 DEF Mouse
  <2> QED
    BY <1>1, <1>2, <2>1 DEF Mouse
<1>3. CASE Keyboard
  <2>1. \A p \in Pixels : fb'[p] = fb[p] \/ fb'[p] \in -4 .. -1
    BY <1>3, DrawValue DEF Keyboard, resetImage, Letter, Black
  <2> QED
    BY <1>1, <1>3, <2>1 DEF Keyboard
<1>4. CASE showphil
  <2> DEFINE n == offsetLettersY
  <2>1. n \in 0 .. PHILS - 1 /\ offsetLettersY' = n + 1
    BY <1>0, <1>4 DEF showphil
  <2>2. \A p \in Pixels : fb'[p] = IF p \in LineArea(n) THEN n ELSE fb[p]
    BY <1>4, DrawValue DEF showphil
  <2> HIDE DEF n
  <2>3. ASSUME NEW k \in 0 .. n, NEW p \in TextArea(k)
        PROVE  fb'[p] \in {k} \cup -4 .. -1
    <3>1. p \in Pixels /\ p \in LineArea(k)
      BY <1>0, <2>1, TextOnScreen
    <3>2. CASE k = n
      BY <2>2, <3>1, <3>2
    <3>3. CASE k # n
      <4>1. k \in 0 .. n - 1 /\ k < n
        BY <2>1, <3>3
      <4>2. p \notin LineArea(n)
        BY <2>1, <4>1, LineBelow
      <4> QED
        BY <1>a, <2>2, <3>1, <4>1, <4>2 DEF n
    <3> QED
      BY <3>2, <3>3
  <2>4. 0 .. offsetLettersY' - 1 = 0 .. n
    BY <2>1
  <2> QED
    BY <2>3, <2>4 DEF LinesApart, TextArea
<1>5. CASE UNCHANGED vars
  BY <1>1, <1>5 DEF vars
<1> QED
  BY <1>2, <1>3, <1>4, <1>5 DEF Next

\* A line of text stays what it is, or is covered by what is no text, though every
\* line is drawn with one row too many.
THEOREM LinesApartHolds == Spec => []LinesApart
<1>1. Init => LinesApart
  BY DEF Init, LinesApart
<1> QED
  BY <1>1, LinesStep, TypeCorrect, PTL DEF Spec

-----------------------------------------------------------------------------
(* How far behind the frame buffer the cursor is drawn.                      *)

\* Pixels is all the memory a cursor near the screen can reach.
LEMMA CursorAreaInPixels ==
  ASSUME CursorBounded
  PROVE  CursorArea(cursorY, cursorX) \subseteq Pixels
<1> SUFFICES ASSUME NEW p \in CursorArea(cursorY, cursorX) PROVE p \in Pixels
  OBVIOUS
<1>1. /\ SIZE \in Nat \ {0} /\ COLS \in Nat \ {0} /\ ROWS \in Nat /\ WRAP \div UNIT \in Nat
      /\ cursorX \in Nat /\ cursorX < COLS + WRAP \div UNIT
      /\ cursorY \in Nat /\ cursorY < ROWS + WRAP \div UNIT
  BY DisplayAssumption, DivMonotone DEF CursorBounded, TypeOK, NearScreen
<1>2. PICK i \in 0 .. SIZE - 1, j \in 0 .. SIZE - 1 : p = Pixel(cursorY + i, cursorX + j)
  BY DEF CursorArea, Area
<1> DEFINE y == cursorY + i
<1> DEFINE x == cursorX + j
<1> DEFINE z == ROWS + (WRAP \div UNIT) + SIZE
<1>3. y \in Nat /\ z \in Nat /\ y + 1 < z /\ x \in Nat /\ x < COLS + COLS
  BY <1>1, CursorAssumption
<1>4. p = Pixel(y, x)
  BY <1>2
<1> HIDE DEF y, x, z
<1>5. Pixel(y, x) \in Nat /\ Pixel(z, COLS) \in Nat
  BY <1>1, <1>3, SMT DEF Pixel
<1>6. Pixel(y, x) < Pixel(z, COLS)
  <2>1. CASE x < COLS
    BY <1>1, <1>3, <2>1, RowsApart
  <2>2. CASE x >= COLS
    <3>1. x - COLS \in Nat /\ x - COLS < COLS /\ y + 1 \in Nat
      BY <1>1, <1>3, <2>2
    <3>2. (y + 1) * COLS = y * COLS + COLS /\ y * COLS \in Nat
      BY <1>1, <1>3, SMT
    <3>3. Pixel(y, x) = Pixel(y + 1, x - COLS)
      BY <1>1, <1>3, <3>2 DEF Pixel
    <3> QED
      BY <1>1, <1>3, <3>1, <3>3, RowsApart
  <2> QED
    BY <1>1, <1>3, <2>1, <2>2
<1>7. p \in 0 .. Pixel(z, COLS)
  BY <1>4, <1>5, <1>6
<1> QED
  BY <1>7 DEF Pixels, z

\* The handler writes behind fb when the cursor is at the lower edge, but never
\* further than the rows of one movement and of the picture.
THEOREM CursorInReach == Spec => [](CursorArea(cursorY, cursorX) \subseteq Pixels)
BY CursorAreaInPixels, CursorHolds, PTL
=============================================================================
