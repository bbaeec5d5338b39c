CONSTANTS
  PHILS = 2
  Killable = {}
SPECIFICATION FairSpec
PROPERTY InformedEats
