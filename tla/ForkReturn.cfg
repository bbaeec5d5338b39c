CONSTANTS
  TOTALP = 3
  startOfStack = 2
  StackSize = 2
  Programs = {console, waiter}
  NoProgram = null
  Console = console
  Values = {0, 1}
SPECIFICATION CommandSpec
PROPERTY ForkTellsParent
CONSTRAINT NotOrphaned
