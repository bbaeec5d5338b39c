CONSTANTS
  TOTALP = 5
  PHILS = 2
  PIPES = 4
  Typed = {"W", "P3"}
  MaxLines = 3
SPECIFICATION FairSpec
INVARIANTS TypeOK SeatsMatch EverySeatTaken PatientUser
PROPERTY ServesAll
