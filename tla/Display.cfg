CONSTANTS
  ROWS = 5
  COLS = 5
  SIZE = 2
  UNIT = 4
  WRAP = 8
  MouseBytes = {0, 4}
  SignBits = {0, 1}
  StartX = 1
  StartY = 2
  LetterX = 1
  LetterY = 2
  TextX = 0
  TextY = 0
  LETTERS = 1
  PHILS = 2
SPECIFICATION Spec
INVARIANTS TypeOK  NearScreen LinesApart
