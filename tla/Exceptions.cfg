CONSTANTS
  TOTALP = 2
  startOfStack = 2
  StackSize = 1
  Programs = {console}
  NoProgram = null
  Console = console
  Values = {0}
SPECIFICATION XFairSpec
INVARIANTS XTypeOK UserClean LostOnlyIfExposed
PROPERTIES HandlersAtomic BackToUser EveryoneRuns
CONSTRAINT NotOrphaned
