SPECIFICATION FairReportsSpec
CONSTANTS
  OnDelay = 1
  OffDelay = 2
  PulseInterval = 2
  MaxReloads = 2
INVARIANTS
  ToldIsCurrent
PROPERTIES
  Debounced
  TrainsAreReported
