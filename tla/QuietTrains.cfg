SPECIFICATION Spec
CONSTANTS
  Output = {A}
  ChannelA = A
  Loco = {l1}
  Settings <- AllSettings
  Writes <- TrainWrites
  MaxTicks = 2
INVARIANTS
  QuietTrainsStopped
