CONSTANTS
  PHILS = 2
  Killable = {1}
  TOTALP = 4
SPECIFICATION KFairSpec
INVARIANT KTypeOK
PROPERTIES Dines RequestAnswered PipesEmptied
