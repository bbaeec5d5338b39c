CONSTANTS
  BLOCK_NUM = 2
  BLOCK_LEN = 2
  Span = 6
  Bytes = {0, 18}
  WriteLens = {1, 2}
  ReadLens = {2}
SPECIFICATION FairSpec
PROPERTY InvalidFails
CHECK_DEADLOCK FALSE
