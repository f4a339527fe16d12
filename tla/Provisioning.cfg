CONSTANTS
  InitialBackoff = 3
  MaxBackoff = 5
  MaxRetry = 1
  MaxMessages = 1
  MaxFaults = 2
  Hubs = {"hubA", "hubB"}
  StaticHub = "hubA"
SPECIFICATION FairSpec
INVARIANTS
  TypeOK
  ConnectsWhole
  AsksAgainAfterRefusal
PROPERTIES
  BuiltInEmptyUnion
  ImplementsLoop
  EventuallyConnected
