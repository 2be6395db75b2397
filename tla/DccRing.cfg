SPECIFICATION FairSpec
CONSTANTS
  Slots = 4
  MaxLocos = 1
  Address = {3, 4}
  Speeds <- OneSpeed
  Function = {0, 9}
  MaxCommands = 2
INVARIANTS
  NothingTorn
PROPERTIES
  RingIsAQueue
  OddTableIsHeard
