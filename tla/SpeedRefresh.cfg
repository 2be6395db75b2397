SPECIFICATION FairSpec
CONSTANTS
  Slots = 3
  MaxLocos = 2
  Address = {3, 4}
  Speeds <- OneSpeed
  Function = {}
  MaxCommands = 2
PROPERTIES
  SpeedsAreRefreshed
