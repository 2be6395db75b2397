SPECIFICATION FairSpec
CONSTANTS
  Line = {1, 2}
  Chip8 = {1}
  MaxDebounce = 2
  NumBoards = 2
  x20 = x20
  x21 = x21
  x38 = x38
  Low = {x21}
  High = {x38}
  OnBoard = x20
  Settings <- IoSettings
  POLL = 1
  CHECK = 1
  MaxChanges = 2
INVARIANTS
  ChipsAsCommanded
PROPERTIES
  OutputsStartRight
  InputsDebounced
  BoardsServed
