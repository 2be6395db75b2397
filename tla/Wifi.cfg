SPECIFICATION Spec
CONSTANTS
  Service = {hubService, other}
  HubService = hubService
  MaxAttempts = 2
  MaxChanges = 3
INVARIANTS
  Settled
  PublicationsKept
PROPERTY
  EndsAsConfigured
CHECK_DEADLOCK FALSE
