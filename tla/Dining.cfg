CONSTANTS
  PHILS = 3
  Killable = {0}
SPECIFICATION Spec
INVARIANTS TypeOK ExclusivePermission ForksWithheld
PROPERTY KeepsTable
