CONSTANTS
  ServerCount = 4
  MaxFaults = 4
SPECIFICATION BootFairSpec
CHECK_DEADLOCK FALSE
INVARIANTS
  TypeOK
  BootTypeOK
  StartsWithTime
  FailedBringUpCleansUp
  NetworkOutlivesItsUsers
  SampleCanResolve
PROPERTIES
  ReconnectsUnlessDeleted
  ImplementsSntpClient
  StartDecided
