SPECIFICATION FairSpec
CONSTANTS
  Channel = {c1}
  there = there
  elsewhere = elsewhere
  Address = {there, elsewhere}
  Settings <- ServoSettings
  SETTLE = 2
  JUMP_SETTLE = 3
  CHECK = 2
  MaxEvents = 3
INVARIANTS
  SentAsWanted
PROPERTIES
  RestsSettled
  ArrivalIsReal
  CommandsAnswered
  ServosGetThere
