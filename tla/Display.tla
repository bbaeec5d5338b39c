------------------------------- MODULE Display -------------------------------
(***************************************************************************)
(* The screen of kernel/hilevel.c: the frame buffer, the mouse whose       *)
(* packets of three bytes arrive one interrupt per byte, the keyboard, and *)
(* the lines of text that showphil() adds.  They draw over each other, and *)
(* no handler remembers what was below.  A handler is one action, as in    *)
(* ProcessTable.  Which pixels of a bitmap are set is left out: a pixel    *)
(* holds the picture that drew it last.                                    *)
(***************************************************************************)
EXTENDS Integers

CONSTANTS
  ROWS, COLS,        \* the screen: 600 and 800
  SIZE,              \* rows and columns of a picture: 16
  UNIT, WRAP,        \* a movement is (byte - sign * WRAP) / UNIT: 16 and 256
  MouseBytes,        \* what the mouse may send
  SignBits,          \* what bit 4 or 5 of byte1 may be: nobody assigned it
  StartX, StartY,    \* where the cursor starts: 100 and 400
  LetterX, LetterY,  \* where a key is shown: 50 and 50
  TextX, TextY,      \* where the first line of text is shown: 10 and 10
  LETTERS,           \* letters of a line: 16
  PHILS              \* bound: lines of text; each philosopher eats once

ASSUME DisplayAssumption ==
  /\ {ROWS, COLS, SIZE, UNIT, WRAP} \subseteq Nat \ {0}
  /\ MouseBytes \subseteq 0 .. WRAP - 1 /\ SignBits \subseteq {0, 1}
  /\ StartX \in 0 .. COLS - 1 /\ StartY \in 0 .. ROWS - 1
  /\ {TextX, TextY, LETTERS, PHILS} \subseteq Nat

\* The lines of text are on the screen: 10 + 16 * 16 of 800 columns, and the rows
\* up to 10 + 16 * 16 of 600.
ASSUME TextAssumption == /\ TextX + LETTERS * SIZE <= COLS
                         /\ TextY + PHILS * SIZE < ROWS

\* What is beyond the right edge begins on the next row: 16 + 16 of 800 columns.
ASSUME CursorAssumption == WRAP \div UNIT + SIZE <= COLS

VARIABLES
  fb,                \* the picture each pixel belongs to
  cursorX, cursorY,
  nbytes,            \* bytes of the mouse's packet that have come
  offsetLettersY     \* lines of text so far

vars == << fb, cursorX, cursorY, nbytes, offsetLettersY >>

-----------------------------------------------------------------------------
\* Pictures; the lines of text are 0, 1, ...
Black == -1
Cursor == -2
Click == -3
Letter == -4

\* fb[ y ][ x ] is at y * COLS + x, also beyond the screen's right and lower edge.
Pixel(y, x) == y * COLS + x
Pixels == 0 .. Pixel(ROWS + (WRAP \div UNIT) + SIZE, COLS)

Area(y, x, height, width) ==
  { Pixel(y + i, x + j) : i \in 0 .. height - 1, j \in 0 .. width - 1 }

Draw(area, picture) == [p \in Pixels |-> IF p \in area THEN picture ELSE fb[p]]

CursorArea(y, x) == Area(y, x, SIZE, SIZE)

\* Both loops over the rows of a letter go from 16 down to 0, one row too many.
LetterArea == Area(LetterY, LetterX, SIZE + 1, SIZE)

\* Faulty: a line starts one row too high.
LineArea_RowAbove(k) == Area(TextY + k * SIZE - 1, TextX, SIZE + 1, LETTERS * SIZE)

LineArea(k) == Area(TextY + k * SIZE, TextX, SIZE + 1, LETTERS * SIZE)

\* The frame buffer and nothing behind it.
resetImage == Draw(Area(0, 0, ROWS, COLS), Black)

\* The reset handler calls resetImage(); behind fb there is no picture yet.
Init == /\ fb = [p \in Pixels |-> Black]
        /\ cursorX = StartX /\ cursorY = StartY
        /\ nbytes = 0 /\ offsetLettersY = 0

-----------------------------------------------------------------------------
\* Division of C: the quotient is rounded towards 0.
Div(a, b) == IF a >= 0 THEN a \div b ELSE -((-a) \div b)

movement(byte, sign) == Div(byte - sign * WRAP, UNIT)

\* Faulty: nobody looks whether the coordinate is beyond the edge.
Clamp_NoUpper(old, new, edge) == IF new <= 0 THEN 0 ELSE new

\* A coordinate that was old and is to be new: only old is compared to the edge.
Clamp(old, new, edge) == IF new <= 0 THEN 0 ELSE IF old >= edge THEN edge ELSE new

\* Faulty: the last column is not cleared.
clearCursor_Narrow == Draw(Area(cursorY, cursorX, SIZE, SIZE - 1), Black)

clearCursor == Draw(CursorArea(cursorY, cursorX), Black)

\* Faulty: the fourth byte is taken for a part of the same packet.
NextByte_Four == nbytes' = (nbytes + 1) % 4

NextByte == nbytes' = (nbytes + 1) % 3

\* The first byte: a bit of it says whether the left button is pressed.
Byte1 == /\ nbytes = 0
         /\ fb' \in {clearCursor, Draw(CursorArea(cursorY, cursorX), Click)}
         /\ UNCHANGED << cursorX, cursorY >>

\* The second byte is the movement to the right.
Byte2 == /\ nbytes = 1
         /\ fb' = clearCursor
         /\ \E x \in MouseBytes, s \in SignBits :
              cursorX' = Clamp(cursorX, cursorX + movement(x, s), COLS)
         /\ UNCHANGED cursorY

\* The third byte is the movement up; the cursor is drawn where it is now.
Byte3 == /\ nbytes = 2
         /\ \E x \in MouseBytes, s \in SignBits :
              cursorY' = Clamp(cursorY, cursorY - movement(x, s), ROWS)
         /\ fb' = [p \in Pixels |-> IF p \in CursorArea(cursorY', cursorX) THEN Cursor
                                    ELSE clearCursor[p]]
         /\ UNCHANGED cursorX

Mouse == (Byte1 \/ Byte2 \/ Byte3) /\ NextByte /\ UNCHANGED offsetLettersY

\* A byte from the keyboard: a letter, or bit 7 is set and the screen is cleared.
Keyboard == /\ fb' \in {Draw(LetterArea, Letter), resetImage}
            /\ UNCHANGED << cursorX, cursorY, nbytes, offsetLettersY >>

\* SVC 0x0D, once for each philosopher.
showphil == /\ offsetLettersY < PHILS
            /\ fb' = Draw(LineArea(offsetLettersY), offsetLettersY)
            /\ offsetLettersY' = offsetLettersY + 1
            /\ UNCHANGED << cursorX, cursorY, nbytes >>

Next == Mouse \/ Keyboard \/ showphil

Spec == Init /\ [][Next]_vars

-----------------------------------------------------------------------------
TypeOK == /\ fb \in [Pixels -> {Black, Cursor, Click, Letter} \cup 0 .. PHILS - 1]
          /\ cursorX \in Nat /\ cursorY \in Nat
          /\ nbytes \in 0 .. 2
          /\ offsetLettersY \in 0 .. PHILS

\* The handler clears the cursor's place on every byte, moves the column on one
\* byte and the row on another, and draws on the last: whatever else is drawn in
\* between, no part of a cursor stays where the cursor no longer is.
NoTrail == \A p \in Pixels : fb[p] \in {Cursor, Click} => p \in CursorArea(cursorY, cursorX)

\* Coordinates are compared to the edge before they change.  All the same the
\* cursor never gets further than one movement beyond it.
NearScreen == /\ cursorX < COLS + WRAP \div UNIT
              /\ cursorY < ROWS + WRAP \div UNIT

\* Lines are SIZE rows apart and one row higher than that.  Still none destroys
\* a row of another one: the row too many is drawn before the next line is.
LinesApart ==
  \A k \in 0 .. offsetLettersY - 1 :
    \A p \in Area(TextY + k * SIZE, TextX, SIZE, LETTERS * SIZE) : fb[p] \in {k} \cup -4 .. -1
=============================================================================
