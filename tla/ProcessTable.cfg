CONSTANTS
  TOTALP = 3
  startOfStack = 2
  StackSize = 2
  Programs = {console}
  NoProgram = null
  Console = console
  Values = {0}
SPECIFICATION FairSpec
INVARIANTS TypeOK SlotIdentity PrivateStack
PROPERTIES RoundRobin PrivateContexts NoStarvation
CONSTRAINT NotOrphaned
