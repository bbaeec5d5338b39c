CONSTANTS
  BLOCK_NUM = 2
  BLOCK_LEN = 2
  Span = 6
  Bytes = {0, 18}
  WriteLens = {0, 1, 2}
  ReadLens = {1, 2, 3}
SPECIFICATION FairSpec
INVARIANTS TypeOK InStep
PROPERTIES KeepsBlocks CallReturns
CONSTRAINT NoMisread
CHECK_DEADLOCK FALSE
