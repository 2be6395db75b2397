SPECIFICATION FairSpec
CONSTANTS
  none = none
  t1 = t1
  t2 = t2
  part = part
  Text <- SomeText
  Empty = none
  Partial = part
  CommitDelay = 2
  MaxWrites = 3
  MaxRestarts = 2
  MaxFailures = 1
INVARIANTS
  SaveInterlocked
  NothingForgotten
PROPERTIES
  SavesWhole
  RestartKeepsSaved
  SavedInTheEnd
