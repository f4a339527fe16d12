CONSTANTS
  InitialBackoff = 3
  MaxBackoff = 10
  MaxRetry = 2
  MaxMessages = 2
  MaxFaults = 5
SPECIFICATION Spec
INVARIANTS
  TypeOK
  NoBlockForever
  ConnectedMeansOpened
  EndOfLinkReported
  OpenLinkReported
  RecoverySeesFailure
  UnionExclusive
  BackoffBounded
PROPERTIES
  HealthyLinkKept
  ConnectionFollowed
