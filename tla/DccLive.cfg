SPECIFICATION FairSpec
CONSTANTS
  Slots = 3
  MaxLocos = 3
  Address = {3, 4, 5}
  Speeds <- OneSpeed
  Function = {}
  MaxCommands = 3
PROPERTIES
  OddTableIsHeard
INVARIANTS
  LocosAreDistinct
