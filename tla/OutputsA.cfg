SPECIFICATION FairSpec
CONSTANTS
  Output = {A}
  ChannelA = A
  Loco = {l1}
  Settings <- AllSettings
  Writes <- AllWrites
  MaxTicks = 2
INVARIANTS
  PulseIsAPulseMotor
  PulseMotorNotHeld
  PulseOnTime
  LeaseOnTime
  QuietOutputsOff
  ReportedFollowsHardware
PROPERTIES
  ReloadDoesNotInterrupt
  SilenceEnds
  PulsesEnd
