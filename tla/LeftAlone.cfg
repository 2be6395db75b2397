SPECIFICATION Spec
CONSTANTS
  Output = {A}
  ChannelA = A
  Loco = {l1}
  Settings <- AllSettings
  Writes <- FewWrites
  MaxTicks = 2
INVARIANTS
  LeftAloneHasNoSignal
